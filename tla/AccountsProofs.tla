---------------------------- MODULE AccountsProofs ----------------------------
(***************************************************************************)
(* Proofs about Accounts, for any sessions, passwords, and finite numbers  *)
(* of links and workers.                                                   *)
(***************************************************************************)
EXTENDS Accounts, FiniteSetTheorems, TLAPS

(* The rows, apart from what workers carry.  More than TypeOK says of them:
   only the verified have sessions, and no password is newer than the newest. *)
RowsOK ==
    /\ user \in UserRows \union {NoUser}
    /\ lastPassword \in 0..MaxPassword
    /\ session \in [Sessions -> {"none", "active", "logged_out", "revoked"}]
    /\ blacklisted \subseteq Sessions
    /\ link \in [Links -> Kinds \union {"unborn", "gone"}]
    /\ user = NoUser => /\ \A s \in Sessions : ~Exists(s)
                        /\ \A l \in Links : link[l] = "unborn"
    /\ \A s \in blacklisted : Exists(s)
    /\ OnlyVerifiedInside
    /\ user # NoUser => user.password <= lastPassword

(* A request in hand fits the rows: the row it carries is of somebody who was
   let in, and the sessions it names exist. *)
Fits(r) ==
    /\ r \in Requests
    /\ r # Idle => user # NoUser
    /\ r.op = "login" => user.verified
    /\ r.op \in {"profile", "password"} =>
          r.row \in UserRows /\ r.row.verified /\ r.row.password <= lastPassword
    /\ r.op \in {"close", "blacklist"} => r.target \in Sessions /\ Exists(r.target)
    /\ r.op = "others" => r.targets \subseteq Sessions /\ \A t \in r.targets : Exists(t)

IInv ==
    /\ RowsOK
    /\ request \in [Procs -> Requests]
    /\ \A p \in Procs : Fits(request[p])

(* What no step takes back. *)
Grows ==
    /\ user # NoUser => user' # NoUser /\ (user.verified => user'.verified)
    /\ lastPassword <= lastPassword'
    /\ \A s \in Sessions : Exists(s) => Exists(s)'

LEMMA IdleFits == Fits(Idle)
BY DEF Fits, Requests, Idle

(* A step that keeps the rows in order and changes one worker's request. *)
LEMMA OneRequest ==
    ASSUME IInv, RowsOK', Grows, NEW p \in Procs, NEW r, Fits(r)',
           request' = [request EXCEPT ![p] = r]
    PROVE  IInv'
<1>1. r \in Requests
  BY DEF Fits
<1>2. request' \in [Procs -> Requests]
  BY <1>1 DEF IInv
<1>3. ASSUME NEW q \in Procs PROVE Fits(request[q])'
  <2>1. CASE q = p
    BY <2>1 DEF IInv
  <2>2. CASE q # p
    <3> DEFINE c == request[q]
    <3>1. request'[q] = c /\ Fits(c)
      BY <2>2 DEF IInv
    <3>2. lastPassword \in Nat /\ lastPassword' \in Nat
      BY AccountConstants DEF IInv, RowsOK
    <3> HIDE DEF c
    <3>3. c.op \in {"profile", "password"} => c.row.password <= lastPassword'
      BY <3>1, <3>2, AccountConstants DEF Fits, Grows, UserRows
    <3>4. /\ c \in Requests
          /\ c # Idle => user' # NoUser
          /\ c.op = "login" => user'.verified
          /\ c.op \in {"profile", "password"} => c.row \in UserRows /\ c.row.verified
          /\ c.op \in {"close", "blacklist"} => c.target \in Sessions /\ Exists(c.target)
          /\ c.op = "others" => c.targets \subseteq Sessions /\ \A t \in c.targets : Exists(t)
      BY <3>1 DEF Fits, Grows, Idle
    <3>5. /\ c.op \in {"close", "blacklist"} => session'[c.target] # "none"
          /\ c.op = "others" => \A t \in c.targets : session'[t] # "none"
      BY <3>4 DEF Grows, Exists
    <3> QED  BY <3>1, <3>3, <3>4, <3>5 DEF Fits, Exists
  <2> QED  BY <2>1, <2>2
<1> QED  BY <1>2, <1>3 DEF IInv

(* A step that leaves the rows alone. *)
LEMMA SameRows ==
    ASSUME IInv, UNCHANGED <<user, lastPassword, session, blacklisted, link>>
    PROVE  RowsOK' /\ Grows
BY AccountConstants DEF IInv, RowsOK, Grows, OnlyVerifiedInside, Exists

LEMMA RequestTaken ==
    ASSUME IInv, UNCHANGED <<user, lastPassword, session, blacklisted, link>>,
           NEW p \in Procs, NEW r, Fits(r), Take(p, r)
    PROVE  IInv'
<1>1. Fits(r)'
  BY DEF Fits, Exists
<1> QED  BY <1>1, SameRows, OneRequest DEF Take

(* A step on links alone that creates none for an account that is not there. *)
LEMMA LinksOnly ==
    ASSUME IInv, UNCHANGED <<user, lastPassword, session, blacklisted>>,
           link' \in [Links -> Kinds \union {"unborn", "gone"}],
           user # NoUser
    PROVE  RowsOK' /\ Grows
BY AccountConstants DEF IInv, RowsOK, Grows, OnlyVerifiedInside, Exists

(* A step on the user's row alone. *)
LEMMA UserOnly ==
    ASSUME IInv, UNCHANGED <<session, blacklisted, link>>,
           user' \in UserRows,
           lastPassword' \in 0..MaxPassword, lastPassword <= lastPassword',
           user'.password <= lastPassword',
           user # NoUser => (user.verified => user'.verified)
    PROVE  RowsOK' /\ Grows
<1>1. user' # NoUser
  BY AccountConstants
<1>2. OnlyVerifiedInside'
  BY DEF IInv, RowsOK, OnlyVerifiedInside, Exists
<1> QED
  BY <1>1, <1>2, AccountConstants DEF IInv, RowsOK, Grows, Exists

(* A step on sessions and their refresh tokens, of an account that is there. *)
LEMMA SessionsOnly ==
    ASSUME IInv, UNCHANGED <<user, lastPassword, link>>,
           session' \in [Sessions -> {"none", "active", "logged_out", "revoked"}],
           \A s \in Sessions : Exists(s) => Exists(s)',
           blacklisted' \subseteq Sessions,
           \A s \in blacklisted' : Exists(s)',
           user # NoUser, user.verified
    PROVE  RowsOK' /\ Grows
BY AccountConstants DEF IInv, RowsOK, Grows, OnlyVerifiedInside, Exists

LEMMA UserThere ==
    ASSUME IInv, NEW p \in Procs, request[p] # Idle
    PROVE  user # NoUser /\ user \in UserRows
BY DEF IInv, RowsOK, Fits

LEMMA PasswordSet ==
    ASSUME IInv, NewPassword
    PROVE  /\ lastPassword' = lastPassword + 1
           /\ lastPassword' \in 0..MaxPassword
           /\ lastPassword <= lastPassword'
BY AccountConstants DEF IInv, RowsOK, NewPassword

LEMMA InitIInv == Init => IInv
BY AccountConstants
DEF Init, IInv, RowsOK, Fits, Requests, Idle, Exists, OnlyVerifiedInside

LEMMA RegisterIInv ==
    ASSUME IInv, NEW p \in Procs, Register(p)
    PROVE  IInv'
<1> DEFINE r == [op |-> "send", kind |-> "verify"]
<1>1. /\ user' \in UserRows
      /\ user'.password <= lastPassword'
  BY PasswordSet DEF Register, UserRows
<1>2. RowsOK' /\ Grows
  BY <1>1, PasswordSet, UserOnly DEF Register
<1>3. Fits(r)'
  BY <1>1, AccountConstants DEF Fits, Requests, Kinds
<1> QED  BY <1>2, <1>3, OneRequest DEF Register, Take

LEMMA BeginLinkIInv ==
    ASSUME IInv, NEW p \in Procs, NEW kind \in Kinds, BeginLink(p, kind)
    PROVE  IInv'
<1> DEFINE r == [op |-> "send", kind |-> kind]
<1>1. Fits(r)
  BY DEF BeginLink, Fits, Requests
<1> QED  BY <1>1, RequestTaken DEF BeginLink

LEMMA DropLinksIInv ==
    ASSUME IInv, NEW p \in Procs, DropLinks(p)
    PROVE  IInv'
<1>1. request[p] # Idle /\ request[p].kind \in Kinds
  BY DEF DropLinks, IInv, Requests, Idle
<1>2. PICK kind \in Kinds : kind = request[p].kind
  BY <1>1
<1> DEFINE r == [op |-> "link", kind |-> kind]
<1>3. RowsOK' /\ Grows
  BY <1>1, UserThere, LinksOnly DEF DropLinks, Without, IInv, RowsOK
<1>4. Fits(r)'
  BY <1>1, UserThere DEF DropLinks, Fits, Requests
<1>5. request' = [request EXCEPT ![p] = r]
  BY <1>2 DEF DropLinks
<1> QED  BY <1>3, <1>4, <1>5, OneRequest

LEMMA CommitLinkIInv ==
    ASSUME IInv, NEW p \in Procs, CommitLink(p)
    PROVE  IInv'
<1>1. request[p] # Idle /\ request[p].kind \in Kinds
  BY DEF CommitLink, IInv, Requests, Idle
<1>2. link' \in [Links -> Kinds \union {"unborn", "gone"}]
  BY <1>1 DEF CommitLink, IInv, RowsOK
<1>3. RowsOK' /\ Grows
  BY <1>1, <1>2, UserThere, LinksOnly DEF CommitLink
<1>4. Fits(Idle)'
  BY DEF Fits, Requests, Idle
<1> QED  BY <1>3, <1>4, OneRequest DEF CommitLink, Done

LEMMA ExpireIInv ==
    ASSUME IInv, NEW l \in Links, Expire(l)
    PROVE  IInv'
<1>1. user # NoUser /\ link' \in [Links -> Kinds \union {"unborn", "gone"}]
  BY DEF Expire, IInv, RowsOK, Kinds
<1>2. RowsOK' /\ Grows
  BY <1>1, LinksOnly DEF Expire
<1>3. \A p \in Procs : Fits(request[p])'
  BY DEF Expire, IInv, Fits, Exists
<1> QED  BY <1>2, <1>3 DEF IInv, Expire

LEMMA BeginVerifyIInv ==
    ASSUME IInv, NEW p \in Procs, NEW l \in Links, BeginVerify(p, l)
    PROVE  IInv'
<1> DEFINE r == [op |-> "verify", link |-> l]
<1>1. user # NoUser
  BY DEF BeginVerify, IInv, RowsOK, Kinds
<1>2. Fits(r)
  BY <1>1 DEF Fits, Requests
<1> QED  BY <1>2, RequestTaken DEF BeginVerify

LEMMA CommitVerifyIInv ==
    ASSUME IInv, NEW p \in Procs, CommitVerify(p)
    PROVE  IInv'
<1>1. request[p] # Idle /\ request[p].link \in Links
  BY DEF CommitVerify, IInv, Requests, Idle
<1>2. PICK l \in Links : l = request[p].link
  BY <1>1
<1> DEFINE r == [op |-> "use", link |-> l]
<1>3. user # NoUser /\ user \in UserRows
  BY <1>1, UserThere
<1>4. user' \in UserRows /\ user'.password = user.password /\ user'.verified
  BY <1>3 DEF CommitVerify, UserRows
<1>5. lastPassword' = lastPassword /\ lastPassword \in 0..MaxPassword /\ lastPassword \in Nat
  BY AccountConstants DEF CommitVerify, IInv, RowsOK
<1>6. RowsOK' /\ Grows
  BY <1>3, <1>4, <1>5, UserOnly DEF CommitVerify, IInv, RowsOK
<1>7. Fits(r)'
  BY <1>4, AccountConstants DEF Fits, Requests
<1>8. request' = [request EXCEPT ![p] = r]
  BY <1>2 DEF CommitVerify
<1> QED  BY <1>6, <1>7, <1>8, OneRequest

LEMMA UseLinkIInv ==
    ASSUME IInv, NEW p \in Procs, UseLink(p)
    PROVE  IInv'
<1>1. request[p] # Idle
  BY DEF UseLink, Idle
<1>2. RowsOK' /\ Grows
  BY <1>1, UserThere, LinksOnly DEF UseLink, IInv, RowsOK
<1>3. Fits(Idle)'
  BY DEF Fits, Requests, Idle
<1> QED  BY <1>2, <1>3, OneRequest DEF UseLink, Done

LEMMA ConfirmResetIInv ==
    ASSUME IInv, NEW l \in Links, ConfirmReset(l)
    PROVE  IInv'
<1>1. user # NoUser /\ user \in UserRows
  BY DEF ConfirmReset, IInv, RowsOK, Kinds
<1>2. /\ user' \in UserRows /\ user'.password = lastPassword'
      /\ user' # NoUser /\ user'.verified = user.verified
      /\ lastPassword' \in 0..MaxPassword
      /\ lastPassword \in Nat /\ lastPassword' = lastPassword + 1
  BY <1>1, PasswordSet, AccountConstants DEF ConfirmReset, UserRows, IInv, RowsOK
<1>3. link' \in [Links -> Kinds \union {"unborn", "gone"}]
  BY DEF ConfirmReset, IInv, RowsOK
<1>4. RowsOK'
  BY <1>1, <1>2, <1>3, AccountConstants
  DEF ConfirmReset, IInv, RowsOK, OnlyVerifiedInside, Exists
<1>5. \A p \in Procs : Fits(request[p])'
  <2> SUFFICES ASSUME NEW p \in Procs PROVE Fits(request[p])'
    OBVIOUS
  <2> DEFINE c == request[p]
  <2>1. Fits(c) /\ request'[p] = c
    BY DEF ConfirmReset, IInv
  <2> HIDE DEF c
  <2>2. c.op \in {"profile", "password"} => c.row.password <= lastPassword'
    BY <1>2, <2>1 DEF Fits, UserRows
  <2> QED  BY <1>2, <2>1, <2>2 DEF ConfirmReset, Fits, Exists
<1> QED  BY <1>4, <1>5 DEF IInv, ConfirmReset

LEMMA BeginLoginIInv ==
    ASSUME IInv, NEW p \in Procs, BeginLogin(p)
    PROVE  IInv'
<1> DEFINE r == [op |-> "login"]
<1>1. Fits(r)
  BY DEF BeginLogin, Fits, Requests
<1> QED  BY <1>1, RequestTaken DEF BeginLogin

LEMMA BeginGoogleLoginIInv ==
    ASSUME IInv, NEW p \in Procs, BeginGoogleLogin(p)
    PROVE  IInv'
<1> DEFINE r == [op |-> "login"]
<1>1. lastPassword' = lastPassword /\ lastPassword \in 0..MaxPassword /\ lastPassword \in Nat
  BY AccountConstants DEF BeginGoogleLogin, IInv, RowsOK
<1>2. user' \in UserRows /\ user'.verified /\ user'.password <= lastPassword
  <2>1. CASE user = NoUser
    <3>1. user' = [active |-> TRUE, verified |-> TRUE, password |-> 0]
      BY <2>1 DEF BeginGoogleLogin
    <3>2. 0 \in 0..MaxPassword /\ 0 <= lastPassword
      BY <1>1, AccountConstants
    <3>3. /\ user'.verified = TRUE /\ user'.password = 0
          /\ user' \in UserRows
      BY <3>1, <3>2 DEF UserRows
    <3> QED  BY <3>2, <3>3
  <2>2. CASE user # NoUser
    <3>1. user \in UserRows /\ user.password <= lastPassword
      BY <2>2 DEF IInv, RowsOK
    <3>2. user' = [user EXCEPT !.verified = TRUE]
      BY <2>2 DEF BeginGoogleLogin
    <3> QED  BY <3>1, <3>2 DEF UserRows
  <2> QED  BY <2>1, <2>2
<1>3. RowsOK' /\ Grows
  BY <1>1, <1>2, UserOnly DEF BeginGoogleLogin
<1>4. Fits(r)'
  BY <1>2, AccountConstants DEF Fits, Requests
<1> QED  BY <1>3, <1>4, OneRequest DEF BeginGoogleLogin, Take

LEMMA CommitLoginIInv ==
    ASSUME IInv, NEW p \in Procs, CommitLogin(p)
    PROVE  IInv'
<1>1. request[p] # Idle /\ user.verified
  BY DEF CommitLogin, IInv, Fits, Idle
<1>2. PICK s \in Sessions : ~Exists(s) /\ session' = [session EXCEPT ![s] = "active"]
  BY DEF CommitLogin
<1>3. RowsOK' /\ Grows
  BY <1>1, <1>2, UserThere, SessionsOnly DEF CommitLogin, IInv, RowsOK, Exists
<1>4. Fits(Idle)'
  BY DEF Fits, Requests, Idle
<1> QED  BY <1>3, <1>4, OneRequest DEF CommitLogin, Done

(* Whoever is let in is verified. *)
LEMMA AdmittedVerified ==
    ASSUME IInv, NEW s \in Sessions, Admitted(s)
    PROVE  user # NoUser /\ user \in UserRows /\ user.verified /\ user.password <= lastPassword
BY DEF IInv, RowsOK, Admitted, Open, Exists

LEMMA BeginSaveIInv ==
    ASSUME IInv, NEW p \in Procs, NEW s \in Sessions, NEW op \in {"profile", "password"},
           BeginSave(p, s, op)
    PROVE  IInv'
<1>1. Admitted(s)
  BY DEF BeginSave
<1>2. PICK row \in UserRows : row = user
  BY <1>1, AdmittedVerified
<1> DEFINE r == [op |-> op, row |-> row]
<1>3. Fits(r)
  BY <1>1, <1>2, AdmittedVerified DEF Fits, Requests
<1>4. Take(p, r)
  BY <1>2 DEF BeginSave
<1> QED  BY <1>3, <1>4, RequestTaken DEF BeginSave

LEMMA CommitProfileIInv ==
    ASSUME IInv, NEW p \in Procs, CommitProfile(p)
    PROVE  IInv'
<1>1. user' \in UserRows /\ user'.verified /\ user'.password <= lastPassword
  BY DEF CommitProfile, IInv, Fits
<1>2. lastPassword' = lastPassword /\ lastPassword \in 0..MaxPassword /\ lastPassword \in Nat
  BY AccountConstants DEF CommitProfile, IInv, RowsOK
<1>3. RowsOK' /\ Grows
  BY <1>1, <1>2, UserOnly DEF CommitProfile
<1>4. Fits(Idle)'
  BY DEF Fits, Requests, Idle
<1> QED  BY <1>3, <1>4, OneRequest DEF CommitProfile, Done

LEMMA CommitPasswordIInv ==
    ASSUME IInv, NEW p \in Procs, CommitPassword(p)
    PROVE  IInv'
<1>1. request[p].row \in UserRows /\ request[p].row.verified
  BY DEF CommitPassword, IInv, Fits
<1>2. user' \in UserRows /\ user'.verified /\ user'.password = lastPassword'
  BY <1>1, PasswordSet DEF CommitPassword, UserRows
<1>3. user'.password <= lastPassword'
  BY <1>2, PasswordSet, AccountConstants DEF CommitPassword
<1>4. RowsOK' /\ Grows
  BY <1>2, <1>3, PasswordSet, UserOnly DEF CommitPassword
<1>5. Fits(Idle)'
  BY DEF Fits, Requests, Idle
<1> QED  BY <1>4, <1>5, OneRequest DEF CommitPassword, Done

LEMMA BeginDeleteIInv ==
    ASSUME IInv, NEW p \in Procs, NEW s \in Sessions, BeginDelete(p, s)
    PROVE  IInv'
<1> DEFINE r == [op |-> "delete"]
<1>1. Fits(r)
  BY AdmittedVerified DEF BeginDelete, Fits, Requests
<1> QED  BY <1>1, RequestTaken DEF BeginDelete

LEMMA CommitDeleteIInv ==
    ASSUME IInv, NEW p \in Procs, CommitDelete(p)
    PROVE  IInv'
<1>1. request[p] # Idle
  BY DEF CommitDelete, Idle
<1>2. user # NoUser /\ user \in UserRows
  BY <1>1, UserThere
<1>3. /\ user' \in UserRows /\ user' # NoUser
      /\ user'.verified = user.verified /\ user'.password = user.password
  BY <1>2, AccountConstants DEF CommitDelete, UserRows
<1>4. /\ blacklisted' \subseteq Sessions /\ \A s \in blacklisted' : Exists(s)
      /\ link' \in [Links -> Kinds \union {"unborn", "gone"}]
  BY DEF CommitDelete, Without, IInv, RowsOK
<1>5. RowsOK' /\ Grows
  BY <1>2, <1>3, <1>4, AccountConstants
  DEF CommitDelete, IInv, RowsOK, Grows, OnlyVerifiedInside, Exists
<1>6. Fits(Idle)'
  BY DEF Fits, Requests, Idle
<1> QED  BY <1>5, <1>6, OneRequest DEF CommitDelete, Done

LEMMA BeginLogoutIInv ==
    ASSUME IInv, NEW p \in Procs, NEW s \in Sessions, NEW t \in Sessions, BeginLogout(p, s, t)
    PROVE  IInv'
<1>1. user # NoUser /\ Exists(t)
  BY AdmittedVerified DEF BeginLogout
<1> DEFINE closing     == [op |-> "close", target |-> t, status |-> "logged_out"]
           blacklisting == [op |-> "blacklist", target |-> t]
<1>2. Fits(closing) /\ Fits(blacklisting)
  BY <1>1 DEF Fits, Requests
<1>3. Take(p, closing) \/ Take(p, blacklisting)
  BY DEF BeginLogout, Take
<1> HIDE DEF closing, blacklisting
<1> QED  BY <1>2, <1>3, RequestTaken DEF BeginLogout

LEMMA BeginRevokeIInv ==
    ASSUME IInv, NEW p \in Procs, NEW s \in Sessions, NEW t \in Sessions, BeginRevoke(p, s, t)
    PROVE  IInv'
<1> DEFINE r == [op |-> "close", target |-> t, status |-> "revoked"]
<1>1. Fits(r)
  BY AdmittedVerified DEF BeginRevoke, Open, Exists, Fits, Requests
<1> QED  BY <1>1, RequestTaken DEF BeginRevoke

LEMMA CommitCloseIInv ==
    ASSUME IInv, NEW p \in Procs, CommitClose(p)
    PROVE  IInv'
<1>1. /\ request[p] # Idle
      /\ request[p].target \in Sessions /\ Exists(request[p].target)
      /\ request[p].status \in {"logged_out", "revoked"}
  BY DEF CommitClose, IInv, Fits, Requests, Idle
<1>2. PICK t \in Sessions : t = request[p].target
  BY <1>1
<1> DEFINE r == [op |-> "blacklist", target |-> t]
<1>3. session' \in [Sessions -> {"none", "active", "logged_out", "revoked"}]
  BY <1>1 DEF CommitClose, IInv, RowsOK
<1>4. \A s \in Sessions : Exists(s) => Exists(s)'
  BY <1>1 DEF CommitClose, IInv, RowsOK, Exists
<1>5. user # NoUser /\ user.verified
  BY <1>1, UserThere DEF IInv, RowsOK, OnlyVerifiedInside
<1>6. blacklisted' \subseteq Sessions /\ \A s \in blacklisted' : Exists(s)'
  BY <1>4 DEF CommitClose, IInv, RowsOK
<1>7. RowsOK' /\ Grows
  BY <1>3, <1>4, <1>5, <1>6, SessionsOnly DEF CommitClose
<1>8. Fits(r)'
  BY <1>1, <1>2, <1>4, <1>5 DEF CommitClose, Fits, Requests
<1>9. request' = [request EXCEPT ![p] = r]
  BY <1>2 DEF CommitClose
<1> QED  BY <1>7, <1>8, <1>9, OneRequest

LEMMA CommitBlacklistIInv ==
    ASSUME IInv, NEW p \in Procs, CommitBlacklist(p)
    PROVE  IInv'
<1>1. request[p] # Idle /\ request[p].target \in Sessions /\ Exists(request[p].target)
  BY DEF CommitBlacklist, IInv, Fits, Idle
<1>2. user # NoUser /\ user.verified
  BY <1>1, UserThere DEF IInv, RowsOK, OnlyVerifiedInside
<1>3. blacklisted' \subseteq Sessions /\ \A s \in blacklisted' : Exists(s)
  BY <1>1 DEF CommitBlacklist, IInv, RowsOK
<1>4. RowsOK' /\ Grows
  BY <1>2, <1>3, SessionsOnly DEF CommitBlacklist, IInv, RowsOK, Exists
<1>5. Fits(Idle)'
  BY DEF Fits, Requests, Idle
<1> QED  BY <1>4, <1>5, OneRequest DEF CommitBlacklist, Done

LEMMA BeginRevokeOthersIInv ==
    ASSUME IInv, NEW p \in Procs, NEW s \in Sessions, BeginRevokeOthers(p, s)
    PROVE  IInv'
<1>1. PICK T \in SUBSET Sessions : T = {t \in Sessions \ {s} : Open(t)}
  OBVIOUS
<1> DEFINE r == [op |-> "others", targets |-> T]
<1>2. Fits(r)
  BY <1>1, AdmittedVerified DEF BeginRevokeOthers, Open, Exists, Fits, Requests
<1>3. Take(p, r)
  BY <1>1 DEF BeginRevokeOthers
<1> QED  BY <1>2, <1>3, RequestTaken DEF BeginRevokeOthers

LEMMA CommitRevokeOthersIInv ==
    ASSUME IInv, NEW p \in Procs, CommitRevokeOthers(p)
    PROVE  IInv'
<1>1. /\ request[p] # Idle
      /\ request[p].targets \subseteq Sessions
      /\ \A t \in request[p].targets : Exists(t)
  BY DEF CommitRevokeOthers, IInv, Fits, Idle
<1>2. session' \in [Sessions -> {"none", "active", "logged_out", "revoked"}]
  BY DEF CommitRevokeOthers, IInv, RowsOK
<1>3. \A s \in Sessions : Exists(s) => Exists(s)'
  BY DEF CommitRevokeOthers, Exists
<1>4. blacklisted' \subseteq Sessions /\ \A s \in blacklisted' : Exists(s)'
  BY <1>1, <1>3 DEF CommitRevokeOthers, IInv, RowsOK
<1>5. RowsOK' /\ Grows
  <2>1. CASE request[p].targets = {}
    <3>1. UNCHANGED <<user, lastPassword, session, blacklisted, link>>
      BY <2>1 DEF CommitRevokeOthers, IInv, RowsOK
    <3> QED  BY <3>1, SameRows
  <2>2. CASE request[p].targets # {}
    <3>1. user # NoUser /\ user.verified
      BY <1>1, <2>2, UserThere DEF IInv, RowsOK, OnlyVerifiedInside
    <3> QED  BY <1>2, <1>3, <1>4, <3>1, SessionsOnly DEF CommitRevokeOthers
  <2> QED  BY <2>1, <2>2
<1>6. Fits(Idle)'
  BY DEF Fits, Requests, Idle
<1> QED  BY <1>5, <1>6, OneRequest DEF CommitRevokeOthers, Done

LEMMA CrashIInv ==
    ASSUME IInv, NEW p \in Procs, Crash(p)
    PROVE  IInv'
<1>1. Fits(Idle)'
  BY DEF Fits, Requests, Idle
<1> QED  BY <1>1, SameRows, OneRequest DEF Crash, Done

LEMMA NextIInv ==
    ASSUME IInv, [Next]_vars
    PROVE  IInv'
<1>1. CASE UNCHANGED vars
  <2>1. RowsOK'
    BY <1>1, SameRows DEF vars
  <2>2. \A p \in Procs : Fits(request[p])'
    BY <1>1 DEF vars, IInv, Fits, Exists
  <2> QED  BY <1>1, <2>1, <2>2 DEF vars, IInv
<1>2. ASSUME NEW p \in Procs, Register(p) \/ BeginLogin(p) \/ BeginGoogleLogin(p)
      PROVE  IInv'
  BY <1>2, RegisterIInv, BeginLoginIInv, BeginGoogleLoginIInv
<1>3. ASSUME NEW p \in Procs, NEW kind \in Kinds, BeginLink(p, kind)
      PROVE  IInv'
  BY <1>3, BeginLinkIInv
<1>4. ASSUME NEW p \in Procs, NEW s \in Sessions,
             \/ \E op \in {"profile", "password"} : BeginSave(p, s, op)
             \/ BeginDelete(p, s)
             \/ BeginRevokeOthers(p, s)
             \/ \E t \in Sessions : BeginLogout(p, s, t) \/ BeginRevoke(p, s, t)
      PROVE  IInv'
  BY <1>4, BeginSaveIInv, BeginDeleteIInv, BeginRevokeOthersIInv, BeginLogoutIInv, BeginRevokeIInv
<1>5. ASSUME NEW p \in Procs,
             \/ \E l \in Links : BeginVerify(p, l)
             \/ DropLinks(p) \/ CommitVerify(p) \/ UseLink(p)
             \/ CommitLink(p) \/ CommitLogin(p) \/ CommitProfile(p) \/ CommitPassword(p)
             \/ CommitDelete(p) \/ CommitClose(p) \/ CommitBlacklist(p) \/ CommitRevokeOthers(p)
             \/ Crash(p)
      PROVE  IInv'
  BY <1>5, BeginVerifyIInv, DropLinksIInv, CommitVerifyIInv, UseLinkIInv, CommitLinkIInv,
     CommitLoginIInv, CommitProfileIInv, CommitPasswordIInv, CommitDeleteIInv, CommitCloseIInv,
     CommitBlacklistIInv, CommitRevokeOthersIInv, CrashIInv
<1>6. ASSUME NEW l \in Links, Expire(l) \/ ConfirmReset(l)
      PROVE  IInv'
  BY <1>6, ExpireIInv, ConfirmResetIInv
<1> QED  BY <1>1, <1>2, <1>3, <1>4, <1>5, <1>6 DEF Next

LEMMA InvariantIInv == Spec => []IInv
<1>1. Init => IInv
  BY InitIInv
<1>2. IInv /\ [Next]_vars => IInv'
  BY NextIInv
<1> QED  BY <1>1, <1>2, PTL DEF Spec

-----------------------------------------------------------------------------
(* Tokens end with their sessions, and a row that is saved whole was read when
   its account was there. *)
TokensOK ==
    /\ leftOver \subseteq Sessions
    /\ \A p \in Procs : request[p].op \in {"profile", "password"} => request[p].row.active
    /\ TokensEndWithSessions

Ending(s) == \E p \in Procs : request[p] = [op |-> "blacklist", target |-> s]

(* A step that leaves sessions and tokens alone and keeps the account, or the
   account's absence, and ends nobody's blacklisting. *)
LEMMA TokensLeftAlone ==
    ASSUME IInv, TokensOK, UNCHANGED <<session, blacklisted, leftOver>>,
           user # NoUser /\ user.active => user'.active,
           NEW p \in Procs, NEW r, request' = [request EXCEPT ![p] = r],
           request[p].op # "blacklist",
           r.op \in {"profile", "password"} => r.row.active
    PROVE  TokensOK'
<1>1. request'[p] = r /\ \A q \in Procs \ {p} : request'[q] = request[q]
  BY DEF IInv
<1>2. \A q \in Procs : (request[q].op \in {"profile", "password"} => request[q].row.active)'
  BY <1>1 DEF TokensOK
<1>3. ASSUME NEW s \in Sessions, Exists(s), s \notin blacklisted
      PROVE  ((Open(s) /\ user.active) \/ Ending(s) \/ s \in leftOver)'
  <2>1. user # NoUser
    BY <1>3 DEF IInv, RowsOK
  <2>2. CASE Open(s) /\ user.active
    BY <2>1, <2>2 DEF Open
  <2>3. CASE Ending(s)
    BY <1>1, <2>3 DEF Ending
  <2> QED  BY <1>3, <2>2, <2>3 DEF TokensOK, TokensEndWithSessions, Ending
<1>4. TokensEndWithSessions'
  BY <1>3 DEF TokensEndWithSessions, Exists, Ending
<1> QED  BY <1>2, <1>4 DEF TokensOK

LEMMA InitTokens == Init => TokensOK
BY DEF Init, TokensOK, TokensEndWithSessions, Exists, Idle

LEMMA TokensTaken ==
    ASSUME IInv, TokensOK, UNCHANGED <<user, session, blacklisted, leftOver>>,
           NEW p \in Procs, NEW r, Take(p, r),
           r.op \in {"profile", "password"} => r.row.active
    PROVE  TokensOK'
<1>1. request' = [request EXCEPT ![p] = r] /\ request[p].op # "blacklist"
  BY DEF Take, Idle
<1>2. user # NoUser /\ user.active => user'.active
  OBVIOUS
<1> QED  BY <1>1, <1>2, TokensLeftAlone

LEMMA TokensUserStep ==
    ASSUME IInv, TokensOK, NEW p \in Procs,
           \/ Register(p) \/ BeginLogin(p) \/ BeginGoogleLogin(p)
           \/ \E kind \in Kinds : BeginLink(p, kind)
           \/ \E l \in Links : BeginVerify(p, l)
           \/ DropLinks(p) \/ CommitVerify(p) \/ UseLink(p) \/ CommitLink(p)
           \/ CommitProfile(p) \/ CommitPassword(p)
    PROVE  TokensOK'
<1>1. CASE Register(p)
  <2> DEFINE r == [op |-> "send", kind |-> "verify"]
  <2>1. /\ user = NoUser /\ UNCHANGED <<session, blacklisted, leftOver>>
        /\ request' = [request EXCEPT ![p] = r] /\ request[p].op # "blacklist"
    BY <1>1 DEF Register, Take, Idle
  <2>2. r.op = "send"
    OBVIOUS
  <2> HIDE DEF r
  <2> QED  BY <2>1, <2>2, TokensLeftAlone
<1>2. CASE BeginLogin(p)
  BY <1>2, TokensTaken DEF BeginLogin
<1>3. CASE BeginGoogleLogin(p)
  <2>1. user # NoUser /\ user.active => user'.active
    BY <1>3 DEF BeginGoogleLogin, IInv, RowsOK, UserRows
  <2> DEFINE r == [op |-> "login"]
  <2>2. /\ UNCHANGED <<session, blacklisted, leftOver>>
        /\ request' = [request EXCEPT ![p] = r] /\ request[p].op # "blacklist"
    BY <1>3 DEF BeginGoogleLogin, Take, Idle
  <2>3. r.op = "login"
    OBVIOUS
  <2> HIDE DEF r
  <2> QED  BY <2>1, <2>2, <2>3, TokensLeftAlone
<1>4. ASSUME NEW kind \in Kinds, BeginLink(p, kind) PROVE TokensOK'
  BY <1>4, TokensTaken DEF BeginLink
<1>5. ASSUME NEW l \in Links, BeginVerify(p, l) PROVE TokensOK'
  BY <1>5, TokensTaken DEF BeginVerify
<1>6. CASE DropLinks(p)
  BY <1>6, TokensLeftAlone DEF DropLinks
<1>7. CASE CommitVerify(p)
  <2>1. user # NoUser /\ user.active => user'.active
    BY <1>7 DEF CommitVerify, IInv, RowsOK, UserRows
  <2> QED  BY <1>7, <2>1, TokensLeftAlone DEF CommitVerify
<1>8. CASE UseLink(p)
  BY <1>8, TokensLeftAlone DEF UseLink, Done, Idle
<1>9. CASE CommitLink(p)
  BY <1>9, TokensLeftAlone DEF CommitLink, Done, Idle
<1>10. CASE CommitProfile(p)
  <2>1. user'.active
    BY <1>10 DEF CommitProfile, TokensOK
  <2> QED  BY <1>10, <2>1, TokensLeftAlone DEF CommitProfile, Done, Idle
<1>11. CASE CommitPassword(p)
  <2>1. request[p].row \in UserRows /\ request[p].row.active
    BY <1>11 DEF CommitPassword, TokensOK, IInv, Fits
  <2>2. user'.active
    BY <1>11, <2>1 DEF CommitPassword, UserRows
  <2> QED  BY <1>11, <2>2, TokensLeftAlone DEF CommitPassword, Done, Idle
<1> QED  BY <1>1, <1>2, <1>3, <1>4, <1>5, <1>6, <1>7, <1>8, <1>9, <1>10, <1>11

LEMMA TokensSessionBegin ==
    ASSUME IInv, TokensOK, NEW p \in Procs, NEW s \in Sessions,
           \/ \E op \in {"profile", "password"} : BeginSave(p, s, op)
           \/ BeginDelete(p, s) \/ BeginRevokeOthers(p, s)
           \/ \E t \in Sessions : BeginLogout(p, s, t) \/ BeginRevoke(p, s, t)
    PROVE  TokensOK'
<1>1. ASSUME NEW op \in {"profile", "password"}, BeginSave(p, s, op) PROVE TokensOK'
  BY <1>1, TokensTaken DEF BeginSave, Admitted
<1>2. CASE BeginDelete(p, s)
  BY <1>2, TokensTaken DEF BeginDelete
<1>3. CASE BeginRevokeOthers(p, s)
  BY <1>3, TokensTaken DEF BeginRevokeOthers
<1>4. ASSUME NEW t \in Sessions, BeginLogout(p, s, t) PROVE TokensOK'
  <2> DEFINE closing      == [op |-> "close", target |-> t, status |-> "logged_out"]
             blacklisting == [op |-> "blacklist", target |-> t]
  <2>1. Take(p, closing) \/ Take(p, blacklisting)
    BY <1>4 DEF BeginLogout, Take
  <2>2. closing.op = "close" /\ blacklisting.op = "blacklist"
    OBVIOUS
  <2> HIDE DEF closing, blacklisting
  <2> QED  BY <1>4, <2>1, <2>2, TokensTaken DEF BeginLogout
<1>5. ASSUME NEW t \in Sessions, BeginRevoke(p, s, t) PROVE TokensOK'
  BY <1>5, TokensTaken DEF BeginRevoke
<1> QED  BY <1>1, <1>2, <1>3, <1>4, <1>5

(* A step on sessions and tokens: each session that gets or keeps a good token
   has a reason to. *)
LEMMA TokensMove ==
    ASSUME IInv, TokensOK, leftOver' \subseteq Sessions,
           NEW p \in Procs, NEW r, request' = [request EXCEPT ![p] = r],
           r.op \notin {"profile", "password"},
           \A s \in Sessions : Exists(s)' /\ s \notin blacklisted' =>
               ((Open(s) /\ user.active) \/ Ending(s) \/ s \in leftOver)'
    PROVE  TokensOK'
<1>1. request'[p] = r /\ \A q \in Procs \ {p} : request'[q] = request[q]
  BY DEF IInv
<1>2. \A q \in Procs : (request[q].op \in {"profile", "password"} => request[q].row.active)'
  BY <1>1 DEF TokensOK
<1>3. TokensEndWithSessions'
  BY DEF TokensEndWithSessions, Ending
<1> QED  BY <1>2, <1>3 DEF TokensOK

LEMMA TokensSessionStep ==
    ASSUME IInv, TokensOK, NEW p \in Procs,
           \/ CommitLogin(p) \/ CommitDelete(p) \/ CommitClose(p) \/ CommitBlacklist(p)
           \/ CommitRevokeOthers(p) \/ Crash(p)
    PROVE  TokensOK'
<1>1. \A s \in Sessions : Exists(s) /\ s \notin blacklisted =>
          (Open(s) /\ user.active) \/ Ending(s) \/ s \in leftOver
  BY DEF TokensOK, TokensEndWithSessions, Ending
<1>2. session \in [Sessions -> {"none", "active", "logged_out", "revoked"}] /\ blacklisted \subseteq Sessions
  BY DEF IInv, RowsOK
<1>3. ASSUME NEW q \in Procs, request[q].op # "blacklist", \A w \in Procs \ {q} : request'[w] = request[w]
      PROVE  \A s \in Sessions : Ending(s) => Ending(s)'
  BY <1>3 DEF Ending
<1>4. CASE CommitLogin(p)
  <2>1. PICK s \in Sessions : /\ ~Exists(s)
                              /\ session' = [session EXCEPT ![s] = "active"]
                              /\ leftOver' = IF user.active THEN leftOver ELSE leftOver \union {s}
    BY <1>4 DEF CommitLogin
  <2>2. /\ request[p].op = "login" /\ request' = [request EXCEPT ![p] = Idle]
        /\ UNCHANGED <<user, blacklisted>>
    BY <1>4 DEF CommitLogin, Done
  <2>3. \A t \in Sessions : Ending(t) => Ending(t)'
    BY <1>3, <2>2 DEF IInv
  <2>4. leftOver' \subseteq Sessions /\ leftOver \subseteq leftOver'
    BY <2>1 DEF TokensOK
  <2>5. ASSUME NEW t \in Sessions, Exists(t)', t \notin blacklisted'
        PROVE  ((Open(t) /\ user.active) \/ Ending(t) \/ t \in leftOver)'
    <3>1. CASE t = s
      BY <1>2, <2>1, <2>2, <3>1 DEF Open
    <3>2. CASE t # s
      <4>1. session'[t] = session[t]
        BY <1>2, <2>1, <3>2
      <4>2. (Open(t) /\ user.active) \/ Ending(t) \/ t \in leftOver
        BY <1>1, <2>2, <2>5, <4>1 DEF Exists
      <4>3. Open(t) /\ user.active => (Open(t) /\ user.active)'
        BY <2>2, <4>1 DEF Open
      <4> QED  BY <2>3, <2>4, <4>2, <4>3
    <3> QED  BY <3>1, <3>2
  <2> QED  BY <2>2, <2>4, <2>5, TokensMove DEF Idle
<1>5. CASE CommitDelete(p)
  <2>1. /\ request[p].op = "delete" /\ request' = [request EXCEPT ![p] = Idle]
        /\ UNCHANGED <<session, leftOver>>
    BY <1>5 DEF CommitDelete, Done
  <2>2. \A t \in Sessions : Ending(t) => Ending(t)'
    BY <1>3, <2>1 DEF IInv
  <2>3. ASSUME NEW t \in Sessions, Exists(t)', t \notin blacklisted'
        PROVE  ((Open(t) /\ user.active) \/ Ending(t) \/ t \in leftOver)'
    <3>1. Exists(t)
      BY <2>1, <2>3 DEF Exists
    <3>2. ~user.active /\ UNCHANGED <<user, blacklisted>>
      BY <1>5, <2>3, <3>1 DEF CommitDelete
    <3> QED  BY <1>1, <2>1, <2>2, <2>3, <3>1, <3>2
  <2> QED  BY <2>1, <2>3, TokensMove DEF TokensOK, Idle
<1>6. CASE CommitClose(p)
  <2>1. PICK u \in Sessions : u = request[p].target
    BY <1>6 DEF CommitClose, IInv, Fits
  <2>2. PICK st : st = request[p].status
    OBVIOUS
  <2> DEFINE b == [op |-> "blacklist", target |-> u]
  <2>3. /\ request[p].op = "close" /\ request' = [request EXCEPT ![p] = b]
        /\ session' = [session EXCEPT ![u] = st]
        /\ UNCHANGED <<user, blacklisted, leftOver>>
    BY <1>6, <2>1, <2>2 DEF CommitClose
  <2>4. request'[p] = b /\ b.op = "blacklist" /\ \A w \in Procs \ {p} : request'[w] = request[w]
    BY <2>3 DEF IInv
  <2>5. \A t \in Sessions : Ending(t) => Ending(t)'
    BY <1>3, <2>3, <2>4
  <2>6. Ending(u)'
    BY <2>4 DEF Ending
  <2>7. ASSUME NEW t \in Sessions, Exists(t)', t \notin blacklisted'
        PROVE  ((Open(t) /\ user.active) \/ Ending(t) \/ t \in leftOver)'
    <3>1. CASE t = u
      BY <2>6, <3>1
    <3>2. CASE t # u
      <4>1. session'[t] = session[t]
        BY <1>2, <2>3, <3>2
      <4>2. (Open(t) /\ user.active) \/ Ending(t) \/ t \in leftOver
        BY <1>1, <2>3, <2>7, <4>1 DEF Exists
      <4>3. Open(t) /\ user.active => (Open(t) /\ user.active)'
        BY <2>3, <4>1 DEF Open
      <4> QED  BY <2>3, <2>5, <4>2, <4>3
    <3> QED  BY <3>1, <3>2
  <2>8. leftOver' \subseteq Sessions
    BY <2>3 DEF TokensOK
  <2> HIDE DEF b
  <2> QED  BY <2>3, <2>4, <2>7, <2>8, TokensMove
<1>7. CASE CommitBlacklist(p) \/ Crash(p)
  <2>1. request' = [request EXCEPT ![p] = Idle] /\ UNCHANGED <<user, session>>
    BY <1>7 DEF CommitBlacklist, Crash, Done
  <2>2. \A w \in Procs \ {p} : request'[w] = request[w]
    BY <2>1 DEF IInv
  <2>3. request[p].op = "blacklist" => request[p].target \in Sessions
    BY DEF IInv, Fits
  <2>4. leftOver' \subseteq Sessions /\ leftOver \subseteq leftOver' /\ blacklisted \subseteq blacklisted'
    BY <1>7, <2>3 DEF CommitBlacklist, Crash, TokensOK
  <2>5. ASSUME NEW t \in Sessions, Exists(t)', t \notin blacklisted'
        PROVE  ((Open(t) /\ user.active) \/ Ending(t) \/ t \in leftOver)'
    <3>1. CASE request[p] = [op |-> "blacklist", target |-> t]
      BY <1>7, <2>5, <3>1 DEF CommitBlacklist, Crash
    <3>2. CASE request[p] # [op |-> "blacklist", target |-> t]
      <4>1. Ending(t) => Ending(t)'
        BY <2>2, <3>2 DEF Ending
      <4>2. (Open(t) /\ user.active) \/ Ending(t) \/ t \in leftOver
        BY <1>1, <2>1, <2>4, <2>5 DEF Exists
      <4>3. Open(t) /\ user.active => (Open(t) /\ user.active)'
        BY <2>1 DEF Open
      <4> QED  BY <2>4, <4>1, <4>2, <4>3
    <3> QED  BY <3>1, <3>2
  <2> QED  BY <2>1, <2>4, <2>5, TokensMove DEF Idle
<1>8. CASE CommitRevokeOthers(p)
  <2>1. PICK T \in SUBSET Sessions : T = request[p].targets
    BY <1>8 DEF CommitRevokeOthers, IInv, Fits
  <2>2. /\ request[p].op = "others" /\ request' = [request EXCEPT ![p] = Idle]
        /\ session' = [t \in Sessions |-> IF t \in T THEN "revoked" ELSE session[t]]
        /\ blacklisted' = blacklisted \union T
        /\ UNCHANGED <<user, leftOver>>
    BY <1>8, <2>1 DEF CommitRevokeOthers, Done
  <2>3. \A t \in Sessions : Ending(t) => Ending(t)'
    BY <1>3, <2>2 DEF IInv
  <2>4. ASSUME NEW t \in Sessions, Exists(t)', t \notin blacklisted'
        PROVE  ((Open(t) /\ user.active) \/ Ending(t) \/ t \in leftOver)'
    <3>1. session'[t] = session[t] /\ t \notin blacklisted
      BY <2>2, <2>4
    <3>2. (Open(t) /\ user.active) \/ Ending(t) \/ t \in leftOver
      BY <1>1, <2>4, <3>1 DEF Exists
    <3>3. Open(t) /\ user.active => (Open(t) /\ user.active)'
      BY <2>2, <3>1 DEF Open
    <3> QED  BY <2>2, <2>3, <3>2, <3>3
  <2> QED  BY <2>2, <2>4, TokensMove DEF TokensOK, Idle
<1> QED  BY <1>4, <1>5, <1>6, <1>7, <1>8

LEMMA NextTokens ==
    ASSUME IInv, TokensOK, [Next]_vars
    PROVE  TokensOK'
<1>1. CASE UNCHANGED vars
  BY <1>1 DEF vars, TokensOK, TokensEndWithSessions, Exists, Open
<1>2. ASSUME NEW l \in Links, Expire(l) \/ ConfirmReset(l) PROVE TokensOK'
  <2>1. UNCHANGED <<session, blacklisted, request, leftOver>>
    BY <1>2 DEF Expire, ConfirmReset
  <2>2. user # NoUser /\ user.active => user'.active
    BY <1>2 DEF Expire, ConfirmReset, IInv, RowsOK, UserRows
  <2>3. \A s \in Sessions : Exists(s) => user # NoUser
    BY DEF IInv, RowsOK
  <2> QED  BY <2>1, <2>2, <2>3 DEF TokensOK, TokensEndWithSessions, Exists, Open
<1>3. ASSUME NEW p \in Procs, NEW s \in Sessions,
             \/ \E op \in {"profile", "password"} : BeginSave(p, s, op)
             \/ BeginDelete(p, s) \/ BeginRevokeOthers(p, s)
             \/ \E t \in Sessions : BeginLogout(p, s, t) \/ BeginRevoke(p, s, t)
      PROVE  TokensOK'
  BY <1>3, TokensSessionBegin
<1>4. ASSUME NEW p \in Procs,
             \/ Register(p) \/ BeginLogin(p) \/ BeginGoogleLogin(p)
             \/ \E kind \in Kinds : BeginLink(p, kind)
             \/ \E l \in Links : BeginVerify(p, l)
             \/ DropLinks(p) \/ CommitVerify(p) \/ UseLink(p) \/ CommitLink(p)
             \/ CommitProfile(p) \/ CommitPassword(p)
      PROVE  TokensOK'
  BY <1>4, TokensUserStep
<1>5. ASSUME NEW p \in Procs,
             \/ CommitLogin(p) \/ CommitDelete(p) \/ CommitClose(p) \/ CommitBlacklist(p)
             \/ CommitRevokeOthers(p) \/ Crash(p)
      PROVE  TokensOK'
  BY <1>5, TokensSessionStep
<1> QED  BY <1>1, <1>2, <1>3, <1>4, <1>5 DEF Next

LEMMA InvariantTokens == Spec => []TokensOK
<1>1. Init => TokensOK
  BY InitTokens
<1>2. IInv /\ TokensOK /\ [Next]_vars => TokensOK'
  BY NextTokens
<1> QED  BY <1>1, <1>2, InvariantIInv, PTL DEF Spec

(* For any number of workers and sessions: a refresh token that is still good
   belongs to an open session of an account that is there, but for those left
   over by a worker's death or by a login that a deletion overtook. *)
THEOREM TokensEnd == Spec => []TokensEndWithSessions
<1>1. TokensOK => TokensEndWithSessions
  BY DEF TokensOK
<1> QED  BY <1>1, InvariantTokens, PTL

-----------------------------------------------------------------------------
(* Rows and requests keep their types, and nothing exists before the account
   does. *)
THEOREM TypeCorrect == Spec => []TypeOK
<1>1. IInv /\ TokensOK => TypeOK
  BY DEF IInv, RowsOK, Fits, TokensOK, TypeOK
<1> QED  BY <1>1, InvariantIInv, InvariantTokens, PTL

(* Whatever overlaps, sessions belong to an account whose address was
   verified: a row saved whole was read after somebody verified was let in. *)
THEOREM SessionsOfTheVerified == Spec => []OnlyVerifiedInside
<1>1. IInv => OnlyVerifiedInside
  BY DEF IInv, RowsOK
<1> QED  BY <1>1, InvariantIInv, PTL

(* For any number of workers: a session that has ended does not begin again,
   and a blacklisted refresh token stays so. *)
THEOREM EndedForGood == Spec => EndedSessionsStayEnded
<1> DEFINE A == \A s \in Sessions : Closed(s) => Closed(s)' /\ (s \in blacklisted => s \in blacklisted')
<1>1. ASSUME IInv, [Next]_vars PROVE [A]_vars
  <2>1. session \in [Sessions -> {"none", "active", "logged_out", "revoked"}]
    BY <1>1 DEF IInv, RowsOK
  <2>2. CASE UNCHANGED <<session, blacklisted>>
    BY <2>2 DEF Closed, Open, Exists
  <2>3. ASSUME NEW p \in Procs, CommitLogin(p) PROVE A
    BY <2>1, <2>3 DEF CommitLogin, Closed, Open, Exists
  <2>4. ASSUME NEW p \in Procs, CommitDelete(p) PROVE A
    BY <1>1, <2>1, <2>4 DEF CommitDelete, Closed, Open, Exists, IInv, RowsOK
  <2>5. ASSUME NEW p \in Procs, CommitClose(p) PROVE A
    <3>1. request[p].status \in {"logged_out", "revoked"}
      BY <1>1, <2>5 DEF CommitClose, IInv, Requests, Idle
    <3> QED  BY <2>1, <2>5, <3>1 DEF CommitClose, Closed, Open, Exists
  <2>6. ASSUME NEW p \in Procs, CommitBlacklist(p) PROVE A
    BY <2>6 DEF CommitBlacklist, Closed, Open, Exists
  <2>7. ASSUME NEW p \in Procs, CommitRevokeOthers(p) PROVE A
    BY <2>1, <2>7 DEF CommitRevokeOthers, Closed, Open, Exists
  <2>8. \/ UNCHANGED <<session, blacklisted>>
        \/ \E p \in Procs : \/ CommitLogin(p) \/ CommitDelete(p) \/ CommitClose(p)
                             \/ CommitBlacklist(p) \/ CommitRevokeOthers(p)
    BY <1>1
    DEF Next, vars, Register, BeginLogin, BeginGoogleLogin, BeginLink, BeginSave, BeginDelete,
        BeginRevokeOthers, BeginLogout, BeginRevoke, BeginVerify, DropLinks, CommitVerify,
        UseLink, CommitLink, CommitProfile, CommitPassword, Crash, Expire, ConfirmReset
  <2> HIDE DEF A
  <2> QED  BY <2>2, <2>3, <2>4, <2>5, <2>6, <2>7, <2>8
<1> QED  BY <1>1, InvariantIInv, PTL DEF Spec, EndedSessionsStayEnded

(* For any number of workers: only a profile edit or a change of password that
   carries an old row brings a deleted account or an older password back. *)
THEOREM UndoneOnlyByStaleSaves == Spec => OnlyStaleSavesUndo
<1> DEFINE undone == user # NoUser /\ ((~user.active /\ user'.active) \/ user'.password < user.password)
           stale  == \E p \in Procs : /\ request[p].op \in {"profile", "password"}
                                      /\ request[p].row # user
                                      /\ request'[p] = Idle
<1>1. ASSUME IInv, [Next]_vars PROVE [undone => stale]_vars
  <2> SUFFICES ASSUME undone PROVE stale
    OBVIOUS
  <2>1. /\ user \in UserRows /\ user.password <= lastPassword
        /\ user.password \in Nat /\ lastPassword \in Nat
    BY <1>1, AccountConstants DEF IInv, RowsOK, UserRows
  <2>2. ASSUME NEW p \in Procs, Register(p) PROVE FALSE
    BY <2>2 DEF Register
  <2>3. ASSUME NEW p \in Procs, BeginGoogleLogin(p) PROVE FALSE
    BY <2>1, <2>3 DEF BeginGoogleLogin, UserRows
  <2>4. ASSUME NEW p \in Procs, CommitVerify(p) PROVE FALSE
    BY <2>1, <2>4 DEF CommitVerify, UserRows
  <2>5. ASSUME NEW p \in Procs, CommitDelete(p) PROVE FALSE
    BY <2>1, <2>5 DEF CommitDelete, UserRows
  <2>6. ASSUME NEW l \in Links, ConfirmReset(l) PROVE FALSE
    BY <2>1, <2>6 DEF ConfirmReset, NewPassword, UserRows
  <2>7. ASSUME NEW p \in Procs, CommitProfile(p) PROVE stale
    <3>1. request[p].row # user
      BY <2>1, <2>7 DEF CommitProfile
    <3> QED  BY <1>1, <2>7, <3>1 DEF CommitProfile, Done, IInv
  <2>8. ASSUME NEW p \in Procs, CommitPassword(p) PROVE stale
    <3>1. request[p].row \in UserRows
      BY <1>1, <2>8 DEF CommitPassword, IInv, Fits
    <3>2. user'.password = lastPassword + 1 /\ user'.active = request[p].row.active
      BY <2>8, <3>1 DEF CommitPassword, NewPassword, UserRows
    <3>3. request[p].row # user
      BY <2>1, <3>2
    <3> QED  BY <1>1, <2>8, <3>3 DEF CommitPassword, Done, IInv
  <2>9. \/ UNCHANGED user
        \/ \E p \in Procs : \/ Register(p) \/ BeginGoogleLogin(p) \/ CommitVerify(p)
                             \/ CommitDelete(p) \/ CommitProfile(p) \/ CommitPassword(p)
        \/ \E l \in Links : ConfirmReset(l)
    BY <1>1
    DEF Next, vars, BeginLogin, BeginLink, BeginSave, BeginDelete, BeginRevokeOthers, BeginLogout,
        BeginRevoke, BeginVerify, DropLinks, UseLink, CommitLink, CommitLogin, CommitClose,
        CommitBlacklist, CommitRevokeOthers, Crash, Expire
  <2>10. CASE UNCHANGED user
    BY <2>1, <2>10
  <2> HIDE DEF stale
  <2> QED  BY <2>2, <2>3, <2>4, <2>5, <2>6, <2>7, <2>8, <2>9, <2>10
<1> QED  BY <1>1, InvariantIInv, PTL DEF Spec, OnlyStaleSavesUndo

(* Workers about to create a link of a kind. *)
Creating(kind) == {p \in Procs : request[p] = [op |-> "link", kind |-> kind]}

LEMMA FewFinite ==
    ASSUME NEW kind \in Kinds
    PROVE  /\ IsFiniteSet(Live(kind)) /\ Cardinality(Live(kind)) \in Nat
           /\ IsFiniteSet(Creating(kind)) /\ Cardinality(Creating(kind)) \in Nat
           /\ Cardinality(Creating(kind)) <= Cardinality(Procs)
           /\ Cardinality(Procs) \in Nat
<1>1. Live(kind) \subseteq Links /\ Creating(kind) \subseteq Procs
  BY DEF Live, Creating
<1>2. IsFiniteSet(Live(kind))
  BY <1>1, FS_Subset, AccountConstants
<1>3. IsFiniteSet(Creating(kind)) /\ Cardinality(Creating(kind)) <= Cardinality(Procs)
  BY <1>1, FS_Subset, AccountConstants
<1> QED  BY <1>2, <1>3, FS_CardinalityType, AccountConstants

(* Steps after which there are no more of either. *)
LEMMA NoMoreLinks ==
    ASSUME NEW kind \in Kinds,
           Cardinality(Live(kind)) + Cardinality(Creating(kind)) <= Cardinality(Procs),
           Live(kind)' \subseteq Live(kind), Creating(kind)' \subseteq Creating(kind)
    PROVE  Cardinality(Live(kind)') + Cardinality(Creating(kind)') <= Cardinality(Procs)
<1>1. /\ IsFiniteSet(Live(kind)') /\ Cardinality(Live(kind)') <= Cardinality(Live(kind))
      /\ IsFiniteSet(Creating(kind)') /\ Cardinality(Creating(kind)') <= Cardinality(Creating(kind))
  BY FewFinite, FS_Subset
<1>2. Cardinality(Live(kind)') \in Nat /\ Cardinality(Creating(kind)') \in Nat
  BY <1>1, FS_CardinalityType
<1> QED  BY <1>1, <1>2, FewFinite

LEMMA LinksStayFew ==
    ASSUME IInv, [Next]_vars, NEW kind \in Kinds,
           Cardinality(Live(kind)) + Cardinality(Creating(kind)) <= Cardinality(Procs)
    PROVE  Cardinality(Live(kind)') + Cardinality(Creating(kind)') <= Cardinality(Procs)
<1> DEFINE mine == [op |-> "link", kind |-> kind]
<1>1. link \in [Links -> Kinds \union {"unborn", "gone"}] /\ request \in [Procs -> Requests]
  BY DEF IInv, RowsOK
<1>2. CASE Live(kind)' \subseteq Live(kind) /\ Creating(kind)' \subseteq Creating(kind)
  BY <1>2, NoMoreLinks
<1>3. ASSUME NEW p \in Procs, DropLinks(p), request[p].kind = kind
      PROVE  Cardinality(Live(kind)') + Cardinality(Creating(kind)') <= Cardinality(Procs)
  <2>1. Live(kind)' = {}
    BY <1>1, <1>3 DEF DropLinks, Without, Live, Kinds
  <2>2. Creating(kind)' \subseteq Procs
    BY DEF Creating
  <2>3. IsFiniteSet(Creating(kind)') /\ Cardinality(Creating(kind)') <= Cardinality(Procs)
    BY <2>2, FS_Subset, AccountConstants
  <2>4. Cardinality(Live(kind)') = 0
    BY <2>1, FS_EmptySet
  <2>5. Cardinality(Creating(kind)') \in Nat
    BY <2>3, FS_CardinalityType
  <2> QED  BY <2>3, <2>4, <2>5, FewFinite
<1>4. ASSUME NEW p \in Procs, CommitLink(p), request[p].kind = kind,
             NEW l \in Links, link[l] = "unborn", link' = [link EXCEPT ![l] = kind]
      PROVE  Cardinality(Live(kind)') + Cardinality(Creating(kind)') <= Cardinality(Procs)
  <2>1. request[p] = mine
    BY <1>1, <1>4 DEF CommitLink, Requests, Idle
  <2>2. l \notin Live(kind) /\ Live(kind)' = Live(kind) \union {l}
    BY <1>1, <1>4 DEF Live, Kinds
  <2>3. p \in Creating(kind) /\ Creating(kind)' = Creating(kind) \ {p}
    BY <1>1, <1>4, <2>1 DEF CommitLink, Done, Creating, Idle
  <2>4. Cardinality(Live(kind) \union {l}) = Cardinality(Live(kind)) + 1
    BY <2>2, FewFinite, FS_AddElement
  <2>5. Cardinality(Creating(kind) \ {p}) = Cardinality(Creating(kind)) - 1
    BY <2>3, FewFinite, FS_RemoveElement
  <2>6. /\ Cardinality(Live(kind)') = Cardinality(Live(kind)) + 1
        /\ Cardinality(Creating(kind)') = Cardinality(Creating(kind)) - 1
    BY <2>2, <2>3, <2>4, <2>5
  <2> QED  BY <2>6, FewFinite
<1>5. \/ Live(kind)' \subseteq Live(kind) /\ Creating(kind)' \subseteq Creating(kind)
      \/ \E p \in Procs : DropLinks(p) /\ request[p].kind = kind
      \/ \E p \in Procs, l \in Links :
            /\ CommitLink(p) /\ request[p].kind = kind
            /\ link[l] = "unborn" /\ link' = [link EXCEPT ![l] = kind]
  <2> DEFINE fewer == Live(kind)' \subseteq Live(kind) /\ Creating(kind)' \subseteq Creating(kind)
  <2>1. ASSUME UNCHANGED link,
               \A q \in Procs : request'[q] = request[q] \/ request'[q].op # "link"
        PROVE  fewer
    BY <2>1 DEF Live, Creating
  <2>2. ASSUME NEW p \in Procs, DropLinks(p), request[p].kind # kind PROVE fewer
    <3>1. Live(kind)' \subseteq Live(kind)
      BY <1>1, <2>2 DEF DropLinks, Without, Live, Kinds
    <3>2. \A q \in Procs : request'[q] = mine => request[q] = mine
      BY <1>1, <2>2 DEF DropLinks
    <3> QED  BY <3>1, <3>2 DEF Creating
  <2>3. ASSUME NEW p \in Procs, CommitLink(p), request[p].kind # kind \/ UNCHANGED link PROVE fewer
    <3>1. Live(kind)' \subseteq Live(kind)
      BY <1>1, <2>3 DEF CommitLink, Live
    <3>2. \A q \in Procs : request'[q] = mine => request[q] = mine
      BY <1>1, <2>3 DEF CommitLink, Done, Idle
    <3> QED  BY <3>1, <3>2 DEF Creating
  <2>4. ASSUME NEW p \in Procs, UseLink(p) \/ CommitDelete(p) PROVE fewer
    <3>1. Live(kind)' \subseteq Live(kind)
      BY <1>1, <2>4 DEF UseLink, CommitDelete, Without, Live, Kinds
    <3>2. \A q \in Procs : request'[q] = mine => request[q] = mine
      BY <1>1, <2>4 DEF UseLink, CommitDelete, Done, Idle
    <3> QED  BY <3>1, <3>2 DEF Creating
  <2>5. ASSUME NEW l \in Links, Expire(l) \/ ConfirmReset(l) PROVE fewer
    BY <1>1, <2>5 DEF Expire, ConfirmReset, Live, Creating, Kinds
  <2>6. UNCHANGED vars => fewer
    BY DEF vars, Live, Creating
  <2>7. ASSUME NEW p \in Procs, NEW s \in Sessions, NEW t \in Sessions,
               BeginLogout(p, s, t) \/ BeginRevoke(p, s, t)
        PROVE  fewer
    BY <1>1, <2>1, <2>7 DEF BeginLogout, BeginRevoke, Take
  <2>8. ASSUME NEW p \in Procs, NEW s \in Sessions,
               \/ \E op \in {"profile", "password"} : BeginSave(p, s, op)
               \/ BeginDelete(p, s) \/ BeginRevokeOthers(p, s)
        PROVE  fewer
    BY <1>1, <2>1, <2>8 DEF BeginSave, BeginDelete, BeginRevokeOthers, Take
  <2>9. ASSUME NEW p \in Procs,
               \/ Register(p) \/ BeginLogin(p) \/ BeginGoogleLogin(p)
               \/ \E k \in Kinds : BeginLink(p, k)
               \/ \E l \in Links : BeginVerify(p, l)
        PROVE  fewer
    BY <1>1, <2>1, <2>9 DEF Register, BeginLogin, BeginGoogleLogin, BeginLink, BeginVerify, Take
  <2>10. ASSUME NEW p \in Procs,
                \/ CommitVerify(p) \/ CommitLogin(p) \/ CommitProfile(p) \/ CommitPassword(p)
                \/ CommitClose(p) \/ CommitBlacklist(p) \/ CommitRevokeOthers(p) \/ Crash(p)
         PROVE  fewer
    BY <1>1, <2>1, <2>10
    DEF CommitVerify, CommitLogin, CommitProfile, CommitPassword, CommitClose, CommitBlacklist,
        CommitRevokeOthers, Crash, Done, Idle
  <2>11. ASSUME NEW p \in Procs, CommitLink(p)
         PROVE  \/ request[p].kind # kind \/ UNCHANGED link
                \/ \E l \in Links : link[l] = "unborn" /\ link' = [link EXCEPT ![l] = kind]
    BY <2>11 DEF CommitLink
  <2> DEFINE dropped == \E p \in Procs : DropLinks(p) /\ request[p].kind = kind
             created == \E p \in Procs, l \in Links :
                           /\ CommitLink(p) /\ request[p].kind = kind
                           /\ link[l] = "unborn" /\ link' = [link EXCEPT ![l] = kind]
  <2>12. ASSUME NEW p \in Procs, DropLinks(p) PROVE fewer \/ dropped
    BY <2>2, <2>12
  <2>13. ASSUME NEW p \in Procs, CommitLink(p) PROVE fewer \/ created
    BY <2>3, <2>11, <2>13
  <2> HIDE DEF fewer, dropped, created
  <2>14. ASSUME \E p \in Procs :
                   \/ CommitVerify(p) \/ CommitLogin(p) \/ CommitProfile(p) \/ CommitPassword(p)
                   \/ CommitClose(p) \/ CommitBlacklist(p) \/ CommitRevokeOthers(p) \/ Crash(p)
                   \/ DropLinks(p) \/ CommitLink(p) \/ UseLink(p) \/ CommitDelete(p)
         PROVE  fewer \/ dropped \/ created
    BY <2>4, <2>10, <2>12, <2>13, <2>14
  <2>15. ASSUME \E p \in Procs, s \in Sessions :
                   \/ \E op \in {"profile", "password"} : BeginSave(p, s, op)
                   \/ BeginDelete(p, s) \/ BeginRevokeOthers(p, s)
                   \/ \E t \in Sessions : BeginLogout(p, s, t) \/ BeginRevoke(p, s, t)
         PROVE  fewer \/ dropped \/ created
    BY <2>7, <2>8, <2>15
  <2>16. ASSUME \E p \in Procs :
                   \/ Register(p) \/ BeginLogin(p) \/ BeginGoogleLogin(p)
                   \/ \E k \in Kinds : BeginLink(p, k)
                   \/ \E l \in Links : BeginVerify(p, l)
         PROVE  fewer \/ dropped \/ created
    BY <2>9, <2>16
  <2>17. fewer \/ dropped \/ created
    BY <2>5, <2>6, <2>14, <2>15, <2>16 DEF Next
  <2> QED  BY <2>17 DEF fewer, dropped, created
<1> QED  BY <1>2, <1>3, <1>4, <1>5

(* For any finite numbers of links and workers: no more links of a kind are
   live than there are workers, a worker about to create one counted. *)
THEOREM FewLinks == Spec => []LinksAreFew
<1> DEFINE Few(kind) == Cardinality(Live(kind)) + Cardinality(Creating(kind)) <= Cardinality(Procs)
           AllFew    == \A kind \in Kinds : Few(kind)
<1>1. Init => AllFew
  <2> SUFFICES ASSUME Init, NEW kind \in Kinds PROVE Few(kind)
    OBVIOUS
  <2>1. Live(kind) = {} /\ Creating(kind) = {}
    BY DEF Init, Live, Creating, Idle, Kinds
  <2>2. Cardinality(Live(kind)) = 0 /\ Cardinality(Creating(kind)) = 0
    BY <2>1, FS_EmptySet
  <2> QED  BY <2>2, FewFinite
<1>2. IInv /\ AllFew /\ [Next]_vars => AllFew'
  BY LinksStayFew
<1>3. AllFew => LinksAreFew
  BY DEF LinksAreFew, Creating
<1> QED  BY <1>1, <1>2, <1>3, InvariantIInv, PTL DEF Spec

=============================================================================
