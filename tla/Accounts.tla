------------------------------- MODULE Accounts -------------------------------
(***************************************************************************)
(* One user account: its row, the sessions opened on it with their refresh *)
(* tokens, and the links mailed to verify its address or reset its         *)
(* password.                                                               *)
(*                                                                         *)
(* A request is authenticated first, which reads the user's row into       *)
(* request.user, and does its work then.  Changing the password and        *)
(* editing the profile save that row, every column of it; deleting the     *)
(* account reads it again under a lock; the other handlers write single    *)
(* columns.  Each write of a handler without a transaction is a step.      *)
(***************************************************************************)
EXTENDS Naturals, FiniteSets

CONSTANTS
    Sessions,     \* sessions that may be opened
    Links,        \* mailed links that may be created
    Procs,        \* workers that serve requests
    MaxPassword,  \* bound on the number of passwords
    NoUser        \* nobody has registered

UserRows ==
    [active   : BOOLEAN,   \* is_active; deleted_at is set when it is cleared
     verified : BOOLEAN,   \* email_verified_at is set
     password : 0..MaxPassword]   \* passwords by age; 0 is an unusable one

ASSUME AccountConstants ==
    /\ IsFiniteSet(Links)
    /\ IsFiniteSet(Procs)
    /\ MaxPassword \in Nat \ {0}
    /\ NoUser \notin UserRows

VARIABLES
    user,          \* the CustomUser row
    lastPassword,  \* the newest password
    session,       \* status of UserSession rows
    blacklisted,   \* sessions whose refresh token is blacklisted
    link,          \* verification and reset tokens
    request,       \* what each worker carries
    leftOver       \* history: sessions whose worker died between closing them and
                   \* blacklisting their token, or that were opened on an account
                   \* deleted meanwhile

vars == <<user, lastPassword, session, blacklisted, link, request, leftOver>>

Kinds == {"verify", "reset"}

Idle == [op |-> "idle"]

Requests ==
    {Idle}
    \union [op : {"send", "link"}, kind : Kinds]
    \union [op : {"verify", "use"}, link : Links]
    \union [op : {"login"}]
    \union [op : {"profile", "password"}, row : UserRows]
    \union [op : {"delete"}]
    \union [op : {"close"}, target : Sessions, status : {"logged_out", "revoked"}]
    \union [op : {"blacklist"}, target : Sessions]
    \union [op : {"others"}, targets : SUBSET Sessions]

Free == \E p \in Procs : request[p] = Idle

Take(p, r) == request[p] = Idle /\ request' = [request EXCEPT ![p] = r]

Done(p) == request' = [request EXCEPT ![p] = Idle]

-----------------------------------------------------------------------------
Exists(s) == session[s] # "none"

Open(s) == session[s] = "active"

Closed(s) == Exists(s) /\ ~Open(s)

(* EmailVerifiedJWTAuthentication: who is let in with an access token of s. *)
Admitted(s) == Open(s) /\ user.active /\ user.verified

Live(kind) == {l \in Links : link[l] = kind}

(* The tokens of the given kinds are deleted. *)
Without(kinds) == [l \in Links |-> IF link[l] \in kinds THEN "gone" ELSE link[l]]

(* set_password: no password is used twice. *)
NewPassword == lastPassword < MaxPassword /\ lastPassword' = lastPassword + 1

-----------------------------------------------------------------------------
Init ==
    /\ user = NoUser
    /\ lastPassword = 0
    /\ session = [s \in Sessions |-> "none"]
    /\ blacklisted = {}
    /\ link = [l \in Links |-> "unborn"]
    /\ request = [p \in Procs |-> Idle]
    /\ leftOver = {}

(* RegisterView.post; the verification link is still to be sent. *)
Register(p) ==
    /\ user = NoUser
    /\ NewPassword
    /\ user' = [active |-> TRUE, verified |-> FALSE, password |-> lastPassword']
    /\ Take(p, [op |-> "send", kind |-> "verify"])
    /\ UNCHANGED <<session, blacklisted, link, leftOver>>

(* PasswordResetRequestView.post and ResendVerificationEmailView.post. *)
BeginLink(p, kind) ==
    /\ user # NoUser
    /\ user.active
    /\ kind = "verify" => ~user.verified
    /\ Take(p, [op |-> "send", kind |-> kind])
    /\ UNCHANGED <<user, lastPassword, session, blacklisted, link, leftOver>>

(* Mutated form: older tokens are left. *)
DropLinksKeepingOld(p) ==
    /\ request[p].op = "send"
    /\ request' = [request EXCEPT ![p] = [op |-> "link", kind |-> request[p].kind]]
    /\ UNCHANGED <<user, lastPassword, session, blacklisted, link, leftOver>>

(* send_verification_email and send_password_reset_email delete older
   tokens... *)
DropLinks(p) ==
    /\ request[p].op = "send"
    /\ link' = Without({request[p].kind})
    /\ request' = [request EXCEPT ![p] = [op |-> "link", kind |-> request[p].kind]]
    /\ UNCHANGED <<user, lastPassword, session, blacklisted, leftOver>>

(* ... and create a new one, which fails when it is the same as another one:
   tokens are signed with the time in seconds. *)
CommitLink(p) ==
    LET kind == request[p].kind
    IN  /\ request[p].op = "link"
        /\ \/ \E l \in Links : link[l] = "unborn" /\ link' = [link EXCEPT ![l] = kind]
           \/ Live(kind) # {} /\ UNCHANGED link
        /\ Done(p)
        /\ UNCHANGED <<user, lastPassword, session, blacklisted, leftOver>>

(* A link is ten minutes old. *)
Expire(l) ==
    /\ link[l] \in Kinds
    /\ link' = [link EXCEPT ![l] = "gone"]
    /\ UNCHANGED <<user, lastPassword, session, blacklisted, request, leftOver>>

(* EmailVerifyView.get checks the token and the account... *)
BeginVerify(p, l) ==
    /\ link[l] = "verify"
    /\ user.active
    /\ Take(p, [op |-> "verify", link |-> l])
    /\ UNCHANGED <<user, lastPassword, session, blacklisted, link, leftOver>>

(* Mutated form: verifying the address activates the account. *)
CommitVerifyActivating(p) ==
    /\ request[p].op = "verify"
    /\ user' = [user EXCEPT !.verified = TRUE, !.active = TRUE]
    /\ request' = [request EXCEPT ![p] = [op |-> "use", link |-> request[p].link]]
    /\ UNCHANGED <<lastPassword, session, blacklisted, link, leftOver>>

(* ... marks the address as verified... *)
CommitVerify(p) ==
    /\ request[p].op = "verify"
    /\ user' = [user EXCEPT !.verified = TRUE]
    /\ request' = [request EXCEPT ![p] = [op |-> "use", link |-> request[p].link]]
    /\ UNCHANGED <<lastPassword, session, blacklisted, link, leftOver>>

(* ... and the token as used, which fails if it has been deleted. *)
UseLink(p) ==
    /\ request[p].op = "use"
    /\ link' = [link EXCEPT ![request[p].link] = "gone"]
    /\ Done(p)
    /\ UNCHANGED <<user, lastPassword, session, blacklisted, leftOver>>

(* PasswordResetConfirmView.post, one transaction.  It locks the token, which
   deleting the account also has to. *)
ConfirmReset(l) ==
    /\ Free
    /\ link[l] = "reset"
    /\ user.active
    /\ NewPassword
    /\ user' = [user EXCEPT !.password = lastPassword']
    /\ link' = [link EXCEPT ![l] = "gone"]
    /\ UNCHANGED <<session, blacklisted, request, leftOver>>

-----------------------------------------------------------------------------
(* Mutated form: an unverified address will do. *)
BeginLoginUnverified(p) ==
    /\ user # NoUser
    /\ user.active /\ user.password # 0
    /\ Take(p, [op |-> "login"])
    /\ UNCHANGED <<user, lastPassword, session, blacklisted, link, leftOver>>

(* LoginView.post, with the right password: EmailBackend.authenticate. *)
BeginLogin(p) ==
    /\ user # NoUser
    /\ user.active /\ user.verified /\ user.password # 0
    /\ Take(p, [op |-> "login"])
    /\ UNCHANGED <<user, lastPassword, session, blacklisted, link, leftOver>>

(* GoogleLoginView.post: an account is created if there is none, or marked as
   verified. *)
BeginGoogleLogin(p) ==
    /\ IF user = NoUser
       THEN user' = [active |-> TRUE, verified |-> TRUE, password |-> 0]
       ELSE user.active /\ user' = [user EXCEPT !.verified = TRUE]
    /\ Take(p, [op |-> "login"])
    /\ UNCHANGED <<lastPassword, session, blacklisted, link, leftOver>>

(* create_login_tokens, which does not look at the account again. *)
CommitLogin(p) ==
    /\ request[p].op = "login"
    /\ \E s \in Sessions :
          /\ ~Exists(s)
          /\ session' = [session EXCEPT ![s] = "active"]
          /\ leftOver' = IF user.active THEN leftOver ELSE leftOver \union {s}
    /\ Done(p)
    /\ UNCHANGED <<user, lastPassword, blacklisted, link>>

-----------------------------------------------------------------------------
(* UserProfileView.patch and ChangePasswordView.post: request.user is the row
   that authentication read... *)
BeginSave(p, s, op) ==
    /\ Admitted(s)
    /\ Take(p, [op |-> op, row |-> user])
    /\ UNCHANGED <<user, lastPassword, session, blacklisted, link, leftOver>>

(* ... and save() writes it back with the new name or picture, *)
CommitProfile(p) ==
    /\ request[p].op = "profile"
    /\ user' = request[p].row
    /\ Done(p)
    /\ UNCHANGED <<lastPassword, session, blacklisted, link, leftOver>>

(* or with the new password. *)
CommitPassword(p) ==
    /\ request[p].op = "password"
    /\ NewPassword
    /\ user' = [request[p].row EXCEPT !.password = lastPassword']
    /\ Done(p)
    /\ UNCHANGED <<session, blacklisted, link, leftOver>>

(* AccountDeletionView.delete: authentication, and then one transaction on the
   locked row, with the password checked there. *)
BeginDelete(p, s) ==
    /\ Admitted(s)
    /\ Take(p, [op |-> "delete"])
    /\ UNCHANGED <<user, lastPassword, session, blacklisted, link, leftOver>>

CommitDelete(p) ==
    /\ request[p].op = "delete"
    /\ IF user.active
       THEN /\ user' = [user EXCEPT !.active = FALSE]
            /\ blacklisted' = {s \in Sessions : Exists(s)}
            /\ link' = Without(Kinds)
       ELSE UNCHANGED <<user, blacklisted, link>>
    /\ Done(p)
    /\ UNCHANGED <<lastPassword, session, leftOver>>

-----------------------------------------------------------------------------
(* LogoutView.post: any refresh token of the user that is still good. *)
BeginLogout(p, s, target) ==
    /\ Admitted(s)
    /\ Exists(target)
    /\ target \notin blacklisted
    /\ Take(p, IF Open(target)
               THEN [op |-> "close", target |-> target, status |-> "logged_out"]
               ELSE [op |-> "blacklist", target |-> target])
    /\ UNCHANGED <<user, lastPassword, session, blacklisted, link, leftOver>>

(* RevokeSessionView.post. *)
BeginRevoke(p, s, target) ==
    /\ Admitted(s)
    /\ Open(target)
    /\ Take(p, [op |-> "close", target |-> target, status |-> "revoked"])
    /\ UNCHANGED <<user, lastPassword, session, blacklisted, link, leftOver>>

(* Mutated form: the refresh token is left to expire. *)
CommitCloseOnly(p) ==
    LET r == request[p]
    IN  /\ r.op = "close"
        /\ session' = [session EXCEPT ![r.target] = r.status]
        /\ Done(p)
        /\ UNCHANGED <<user, lastPassword, blacklisted, link, leftOver>>

(* close_session saves the status of a session it found active, *)
CommitClose(p) ==
    LET r == request[p]
    IN  /\ r.op = "close"
        /\ session' = [session EXCEPT ![r.target] = r.status]
        /\ request' = [request EXCEPT ![p] = [op |-> "blacklist", target |-> r.target]]
        /\ UNCHANGED <<user, lastPassword, blacklisted, link, leftOver>>

(* and blacklists its refresh token. *)
CommitBlacklist(p) ==
    /\ request[p].op = "blacklist"
    /\ blacklisted' = blacklisted \union {request[p].target}
    /\ Done(p)
    /\ UNCHANGED <<user, lastPassword, session, link, leftOver>>

(* RevokeOtherSessionsView.post: the list is read and then closed, in one
   transaction. *)
BeginRevokeOthers(p, s) ==
    /\ Admitted(s)
    /\ Take(p, [op |-> "others", targets |-> {t \in Sessions \ {s} : Open(t)}])
    /\ UNCHANGED <<user, lastPassword, session, blacklisted, link, leftOver>>

CommitRevokeOthers(p) ==
    LET targets == request[p].targets
    IN  /\ request[p].op = "others"
        /\ session' = [t \in Sessions |-> IF t \in targets THEN "revoked" ELSE session[t]]
        /\ blacklisted' = blacklisted \union targets
        /\ Done(p)
        /\ UNCHANGED <<user, lastPassword, link, leftOver>>

(* The worker dies, or its client's request fails, with what is written
   written. *)
Crash(p) ==
    /\ request[p] # Idle
    /\ leftOver' = IF request[p].op = "blacklist" THEN leftOver \union {request[p].target} ELSE leftOver
    /\ Done(p)
    /\ UNCHANGED <<user, lastPassword, session, blacklisted, link>>

-----------------------------------------------------------------------------
Next ==
    \/ \E p \in Procs :
           \/ Register(p) \/ BeginLogin(p) \/ BeginGoogleLogin(p)
           \/ \E kind \in Kinds : BeginLink(p, kind)
           \/ \E s \in Sessions :
                  \/ \E op \in {"profile", "password"} : BeginSave(p, s, op)
                  \/ BeginDelete(p, s)
                  \/ BeginRevokeOthers(p, s)
                  \/ \E t \in Sessions : BeginLogout(p, s, t) \/ BeginRevoke(p, s, t)
           \/ \E l \in Links : BeginVerify(p, l)
           \/ DropLinks(p) \/ CommitVerify(p) \/ UseLink(p)
           \/ CommitLink(p) \/ CommitLogin(p) \/ CommitProfile(p) \/ CommitPassword(p)
           \/ CommitDelete(p) \/ CommitClose(p) \/ CommitBlacklist(p) \/ CommitRevokeOthers(p)
           \/ Crash(p)
    \/ \E l \in Links : Expire(l) \/ ConfirmReset(l)

Spec == Init /\ [][Next]_vars

-----------------------------------------------------------------------------
(* Rows keep their types; nothing exists before the account does, and only
   sessions that were opened have a token to blacklist. *)
TypeOK ==
    /\ user \in UserRows \union {NoUser}
    /\ lastPassword \in 0..MaxPassword
    /\ session \in [Sessions -> {"none", "active", "logged_out", "revoked"}]
    /\ blacklisted \subseteq Sessions
    /\ link \in [Links -> Kinds \union {"unborn", "gone"}]
    /\ request \in [Procs -> Requests]
    /\ leftOver \subseteq Sessions
    /\ user = NoUser => /\ \A s \in Sessions : ~Exists(s)
                        /\ \A l \in Links : link[l] = "unborn"
                        /\ \A p \in Procs : request[p] = Idle
    /\ \A s \in blacklisted : Exists(s)

(* Nobody is inside who has not shown that the address is theirs, and whole-row
   saves never take that back: what they carry was read when somebody verified
   was let in (EmailBackend, GoogleLoginView, EmailVerifiedJWTAuthentication). *)
OnlyVerifiedInside == (\E s \in Sessions : Exists(s)) => user.verified

(* A session that has ended does not begin again, whatever overlaps: two
   requests that close it, a login, a request that found it open, or a worker
   that dies between closing it and blacklisting its token (close_session). *)
EndedSessionsStayEnded ==
    [][\A s \in Sessions : Closed(s) => Closed(s)' /\ (s \in blacklisted => s \in blacklisted')]_vars

(* A refresh token that is still good belongs to an open session of an account
   that is there, whatever overlaps: two requests that close a session, a
   deletion between the check of a login and its session, a stale save that
   brings the account back.  Left over are the token of a session whose worker
   died halfway through close_session, until somebody logs out with it, and that
   of a session opened on an account deleted since the check. *)
TokensEndWithSessions ==
    \A s \in Sessions : Exists(s) /\ s \notin blacklisted =>
        \/ Open(s) /\ user.active
        \/ \E p \in Procs : request[p] = [op |-> "blacklist", target |-> s]
        \/ s \in leftOver

(* utils.py:18 and :43 delete older links before a new one is made, in two
   steps: there are never more live links of a kind than requests could
   overlap, hence one at most when they do not. *)
LinksAreFew ==
    \A kind \in Kinds :
        Cardinality(Live(kind)) + Cardinality({p \in Procs : request[p] = [op |-> "link", kind |-> kind]})
            <= Cardinality(Procs)

(* A deleted account comes back, or an old password is valid again, only when
   a profile edit or a change of password saves a row read before.  Nothing
   that writes single columns does so, late links and logins included. *)
OnlyStaleSavesUndo ==
    [][user # NoUser /\ ((~user.active /\ user'.active) \/ user'.password < user.password) =>
          \E p \in Procs :
              /\ request[p].op \in {"profile", "password"}
              /\ request[p].row # user
              /\ request'[p] = Idle]_vars

=============================================================================
