---------------------------- MODULE LedgerProofs ----------------------------
(***************************************************************************)
(* Proofs about the money of a group, for any group, any number of workers *)
(* and any amounts and splits:                                             *)
(*                                                                         *)
(*   - sums over finite sets, which everything else rests on,              *)
(*   - splits (SplitShares, SplitRequests),                                *)
(*   - suggested settlements (DebtMatching, SettleUp),                     *)
(*   - the tables of a group and who writes them (Ledger),                 *)
(*   - balances and what they promise (Ledger, GroupAccounts),             *)
(*   - friends and reminders (FriendBalances, ReminderTargets).            *)
(*                                                                         *)
(* Sums and matchings are computed recursively.  What is said of every one *)
(* of them is proved with sets of good arguments: the arguments for which  *)
(* it holds are a set, and a smallest one outside of it does not exist.    *)
(***************************************************************************)
EXTENDS ReminderTargets, SettleUp, SplitRequests, FiniteSetTheorems, TLAPS

-----------------------------------------------------------------------------
(* Induction and sums. *)

(* A set that is good whenever all its strict subsets are: induction on finite
   sets, with the good ones as a set. *)
LEMMA SubsetInduction ==
    ASSUME NEW S, IsFiniteSet(S), NEW Good,
           \A T \in SUBSET S : (\A U \in SUBSET T : U # T => U \in Good) => T \in Good
    PROVE  S \in Good
<1> DEFINE Bad == {T \in FiniteSubsetsOf(S) : T \notin Good}
<1>1. FiniteSubsetsOf(S) = SUBSET S
  BY FS_FiniteSubsetsOfFinite
<1>2. IsWellFoundedOn(StrictSubsetOrdering(S), FiniteSubsetsOf(S))
  BY FS_StrictSubsetOrderingWellFounded
<1> SUFFICES ASSUME Bad # {} PROVE FALSE
  BY <1>1
<1>3. PICK T \in Bad : \A U \in Bad : <<U, T>> \notin StrictSubsetOrdering(S)
  <2> HIDE DEF Bad
  <2>1. Bad \subseteq FiniteSubsetsOf(S)
    BY DEF Bad
  <2> QED  BY <1>2, <2>1, WFMin
<1>4. \A U \in SUBSET T : U # T => U \in Good
  BY <1>1, <1>3 DEF StrictSubsetOrdering
<1> QED  BY <1>1, <1>3, <1>4

(* The same, one element at a time. *)
LEMMA ElementInduction ==
    ASSUME NEW S, IsFiniteSet(S), NEW Good, {} \in Good,
           \A T \in SUBSET S : \A x \in S : T \in Good /\ x \notin T => T \union {x} \in Good
    PROVE  S \in Good
<1>1. ASSUME NEW T \in SUBSET S, \A U \in SUBSET T : U # T => U \in Good
      PROVE  T \in Good
  <2>1. CASE T = {}
    BY <2>1
  <2>2. CASE T # {}
    <3>1. PICK x \in T : TRUE
      BY <2>2
    <3>2. T \ {x} \in Good /\ T = (T \ {x}) \union {x}
      BY <1>1, <3>1
    <3> QED  BY <3>1, <3>2
  <2> QED  BY <2>1, <2>2
<1> QED  BY <1>1, SubsetInduction

(* The same for the natural numbers. *)
LEMMA StrongInduction ==
    ASSUME NEW Good,
           \A n \in Nat : (\A m \in Nat : m < n => m \in Good) => n \in Good
    PROVE  Nat \subseteq Good
<1> DEFINE Bad == Nat \ Good
<1> SUFFICES ASSUME Bad # {} PROVE FALSE
  OBVIOUS
<1>1. PICK n \in Bad : \A m \in Bad : <<m, n>> \notin OpToRel(<, Nat)
  <2> HIDE DEF Bad
  <2>1. Bad \subseteq Nat
    BY DEF Bad
  <2> QED  BY <2>1, NatLessThanWellFounded, WFMin
<1>2. \A m \in Nat : m < n => m \in Good
  BY <1>1 DEF OpToRel
<1> QED  BY <1>1, <1>2

-----------------------------------------------------------------------------
Pick(s) == CHOOSE x \in s : TRUE

Adds(f, S, g) ==
    g = [s \in SUBSET S |-> IF s = {} THEN 0 ELSE f[Pick(s)] + g[s \ {Pick(s)}]]

(* SumFunctionOnSet takes its value from the function Adds describes... *)
LEMMA SumIsAdds ==
    ASSUME NEW f, NEW S
    PROVE  SumFunctionOnSet(f, S) = (CHOOSE g : Adds(f, S, g))[S]
BY DEF SumFunctionOnSet, FoldFunctionOnSet, MapThenFoldSet, Adds, Pick

(* ... which is the only one... *)
LEMMA AddsUnique ==
    ASSUME NEW f, NEW S, NEW T, NEW g, NEW h, Adds(f, S, g), Adds(f, T, h),
           NEW U, IsFiniteSet(U), U \subseteq S, U \subseteq T
    PROVE  g[U] = h[U]
<1> DEFINE Good == {V \in SUBSET U : g[V] = h[V]}
<1>1. ASSUME NEW V \in SUBSET U, \A W \in SUBSET V : W # V => W \in Good
      PROVE  V \in Good
  <2>1. CASE V = {}
    BY <2>1 DEF Adds
  <2>2. CASE V # {}
    <3>1. Pick(V) \in V
      BY <2>2 DEF Pick
    <3>2. g[V \ {Pick(V)}] = h[V \ {Pick(V)}]
      BY <1>1, <3>1
    <3>3. /\ g[V] = f[Pick(V)] + g[V \ {Pick(V)}]
          /\ h[V] = f[Pick(V)] + h[V \ {Pick(V)}]
      BY <2>2 DEF Adds
    <3> QED  BY <3>2, <3>3
  <2> QED  BY <2>1, <2>2
<1>2. U \in Good
  <2> HIDE DEF Good
  <2> QED  BY <1>1, SubsetInduction
<1> QED  BY <1>2

(* ... and which exists. *)
LEMMA AddsExists ==
    ASSUME NEW f, NEW S, IsFiniteSet(S)
    PROVE  \E g : Adds(f, S, g)
<1> DEFINE Good == {T \in SUBSET S : \E g : Adds(f, T, g)}
<1>1. ASSUME NEW T \in SUBSET S, \A U \in SUBSET T : U # T => U \in Good
      PROVE  T \in Good
  <2> DEFINE part(U) == CHOOSE g : Adds(f, U, g)
             G == [s \in SUBSET T |->
                      IF s = {} THEN 0 ELSE f[Pick(s)] + part(s \ {Pick(s)})[s \ {Pick(s)}]]
  <2>1. ASSUME NEW U \in SUBSET T, U # T PROVE Adds(f, U, part(U))
    BY <1>1, <2>1
  <2>2. ASSUME NEW s \in SUBSET T, s # {} PROVE part(s \ {Pick(s)})[s \ {Pick(s)}] = G[s \ {Pick(s)}]
    <3> DEFINE u == s \ {Pick(s)}
    <3>1. Pick(s) \in s /\ u \in SUBSET T /\ u # T
      BY <2>2 DEF Pick
    <3>2. Adds(f, u, part(u))
      BY <2>1, <3>1
    <3>3. CASE u = {}
      <4> HIDE DEF part
      <4> QED  BY <3>1, <3>2, <3>3 DEF Adds
    <3>4. CASE u # {}
      <4> DEFINE w == u \ {Pick(u)}
      <4>1. Pick(u) \in u /\ w \in SUBSET T /\ w # T /\ w \subseteq u
        BY <3>1, <3>4 DEF Pick
      <4>2. Adds(f, w, part(w))
        BY <2>1, <4>1
      <4>3. IsFiniteSet(w)
        BY <4>1, FS_Subset
      <4> HIDE DEF part, w, u
      <4>4. part(u)[w] = part(w)[w]
        BY <3>2, <4>1, <4>2, <4>3, AddsUnique
      <4>5. part(u)[u] = f[Pick(u)] + part(u)[u \ {Pick(u)}]
        BY <3>2, <3>4 DEF Adds
      <4>6. G[u] = f[Pick(u)] + part(u \ {Pick(u)})[u \ {Pick(u)}]
        BY <3>1, <3>4
      <4> HIDE DEF G
      <4>7. part(u)[u] = G[u]
        BY <4>4, <4>5, <4>6 DEF w
      <4> QED  BY <4>7 DEF u
    <3> QED  BY <3>3, <3>4
  <2>3. Adds(f, T, G)
    <3> HIDE DEF part
    <3> QED  BY <2>2 DEF Adds
  <2> QED  BY <2>3
<1>2. S \in Good
  <2> HIDE DEF Good
  <2> QED  BY <1>1, SubsetInduction
<1> QED  BY <1>2

(* Nothing adds up to zero. *)
LEMMA SumOnEmpty ==
    ASSUME NEW f
    PROVE  SumFunctionOnSet(f, {}) = 0
<1>1. Adds(f, {}, CHOOSE g : Adds(f, {}, g))
  BY AddsExists, FS_EmptySet
<1> QED  BY <1>1, SumIsAdds DEF Adds

(* The first step of the recursion. *)
LEMMA SumOnPick ==
    ASSUME NEW f, NEW S, IsFiniteSet(S), S # {}
    PROVE  /\ Pick(S) \in S
           /\ SumFunctionOnSet(f, S) = f[Pick(S)] + SumFunctionOnSet(f, S \ {Pick(S)})
<1> DEFINE x == Pick(S)
           g == CHOOSE g : Adds(f, S, g)
           h == CHOOSE h : Adds(f, S \ {x}, h)
<1>1. x \in S
  BY DEF Pick
<1>2. Adds(f, S, g)
  BY AddsExists
<1>3. IsFiniteSet(S \ {x})
  BY FS_Subset
<1>4. Adds(f, S \ {x}, h)
  BY <1>3, AddsExists
<1> HIDE DEF g, h
<1>5. g[S \ {x}] = h[S \ {x}]
  BY <1>2, <1>3, <1>4, AddsUnique
<1>6. g[S] = f[x] + g[S \ {x}]
  BY <1>2 DEF Adds
<1>7. g[S] = SumFunctionOnSet(f, S) /\ h[S \ {x}] = SumFunctionOnSet(f, S \ {x})
  BY SumIsAdds DEF g, h
<1> QED  BY <1>1, <1>5, <1>6, <1>7

(* A sum of integers is one. *)
LEMMA SumOnType ==
    ASSUME NEW f, NEW S, IsFiniteSet(S), \A x \in S : f[x] \in Int
    PROVE  SumFunctionOnSet(f, S) \in Int
<1> DEFINE Good == {T \in SUBSET S : SumFunctionOnSet(f, T) \in Int}
<1>1. ASSUME NEW T \in SUBSET S, \A U \in SUBSET T : U # T => U \in Good
      PROVE  T \in Good
  <2>1. CASE T = {}
    BY <2>1, SumOnEmpty
  <2>2. CASE T # {}
    <3>1. IsFiniteSet(T)
      BY FS_Subset
    <3>2. /\ Pick(T) \in T
          /\ SumFunctionOnSet(f, T) = f[Pick(T)] + SumFunctionOnSet(f, T \ {Pick(T)})
      BY <2>2, <3>1, SumOnPick
    <3>3. SumFunctionOnSet(f, T \ {Pick(T)}) \in Int
      BY <1>1, <3>2
    <3> QED  BY <3>2, <3>3
  <2> QED  BY <2>1, <2>2
<1>2. S \in Good
  <2> HIDE DEF Good
  <2> QED  BY <1>1, SubsetInduction
<1> QED  BY <1>2

(* Functions that agree on a set have the same sum over it. *)
LEMMA SumOnSame ==
    ASSUME NEW f, NEW g, NEW S, IsFiniteSet(S), \A x \in S : f[x] = g[x]
    PROVE  SumFunctionOnSet(f, S) = SumFunctionOnSet(g, S)
<1> DEFINE Good == {T \in SUBSET S : SumFunctionOnSet(f, T) = SumFunctionOnSet(g, T)}
<1>1. ASSUME NEW T \in SUBSET S, \A U \in SUBSET T : U # T => U \in Good
      PROVE  T \in Good
  <2>1. CASE T = {}
    BY <2>1, SumOnEmpty
  <2>2. CASE T # {}
    <3>1. IsFiniteSet(T)
      BY FS_Subset
    <3>2. /\ Pick(T) \in T
          /\ SumFunctionOnSet(f, T) = f[Pick(T)] + SumFunctionOnSet(f, T \ {Pick(T)})
          /\ SumFunctionOnSet(g, T) = g[Pick(T)] + SumFunctionOnSet(g, T \ {Pick(T)})
      BY <2>2, <3>1, SumOnPick
    <3>3. SumFunctionOnSet(f, T \ {Pick(T)}) = SumFunctionOnSet(g, T \ {Pick(T)})
      BY <1>1, <3>2
    <3> QED  BY <3>2, <3>3
  <2> QED  BY <2>1, <2>2
<1>2. S \in Good
  <2> HIDE DEF Good
  <2> QED  BY <1>1, SubsetInduction
<1> QED  BY <1>2

(* Any term may be the first one. *)
LEMMA SumOnTakeOut ==
    ASSUME NEW f, NEW S, IsFiniteSet(S), \A x \in S : f[x] \in Int, NEW x \in S
    PROVE  SumFunctionOnSet(f, S) = f[x] + SumFunctionOnSet(f, S \ {x})
<1> DEFINE Good == {T \in SUBSET S :
                       \A z \in T : SumFunctionOnSet(f, T) = f[z] + SumFunctionOnSet(f, T \ {z})}
<1>1. ASSUME NEW T \in SUBSET S, \A U \in SUBSET T : U # T => U \in Good
      PROVE  T \in Good
  <2>1. SUFFICES ASSUME NEW z \in T
                 PROVE  SumFunctionOnSet(f, T) = f[z] + SumFunctionOnSet(f, T \ {z})
    OBVIOUS
  <2> DEFINE y == Pick(T)
  <2>2. IsFiniteSet(T)
    BY FS_Subset
  <2>3. y \in T /\ SumFunctionOnSet(f, T) = f[y] + SumFunctionOnSet(f, T \ {y})
    BY <2>1, <2>2, SumOnPick
  <2>4. CASE y = z
    BY <2>3, <2>4
  <2>5. CASE y # z
    <3> DEFINE R == (T \ {y}) \ {z}
    <3> HIDE DEF y
    <3>1. SumFunctionOnSet(f, T \ {y}) = f[z] + SumFunctionOnSet(f, R)
      BY <1>1, <2>3, <2>5
    <3>2. SumFunctionOnSet(f, T \ {z}) = f[y] + SumFunctionOnSet(f, (T \ {z}) \ {y})
      BY <1>1, <2>3, <2>5
    <3>3. (T \ {z}) \ {y} = R
      OBVIOUS
    <3>4. IsFiniteSet(R) /\ \A v \in R : f[v] \in Int
      BY <2>2, FS_Subset
    <3>5. SumFunctionOnSet(f, R) \in Int /\ f[y] \in Int /\ f[z] \in Int
      BY <2>3, <3>4, SumOnType
    <3> DEFINE all == SumFunctionOnSet(f, T)
               noY == SumFunctionOnSet(f, T \ {y})
               noZ == SumFunctionOnSet(f, T \ {z})
               rest == SumFunctionOnSet(f, R)
    <3>6. all = f[y] + noY /\ noY = f[z] + rest /\ noZ = f[y] + rest
      BY <2>3, <3>1, <3>2, <3>3
    <3>7. rest \in Int
      BY <3>5
    <3> HIDE DEF all, noY, noZ, rest
    <3>8. all = f[z] + noZ
      BY <3>5, <3>6, <3>7
    <3> QED  BY <3>8 DEF all, noZ
  <2> QED  BY <2>4, <2>5
<1>2. S \in Good
  <2> HIDE DEF Good
  <2> QED  BY <1>1, SubsetInduction
<1> QED  BY <1>2

(* One term more. *)
LEMMA SumOnAdd ==
    ASSUME NEW f, NEW S, IsFiniteSet(S), \A x \in S : f[x] \in Int,
           NEW x, x \notin S, f[x] \in Int
    PROVE  SumFunctionOnSet(f, S \union {x}) = f[x] + SumFunctionOnSet(f, S)
<1>1. IsFiniteSet(S \union {x})
  BY FS_AddElement
<1>2. (S \union {x}) \ {x} = S
  OBVIOUS
<1>3. \A y \in S \union {x} : f[y] \in Int
  OBVIOUS
<1>4. SumFunctionOnSet(f, S \union {x}) = f[x] + SumFunctionOnSet(f, (S \union {x}) \ {x})
  BY <1>1, <1>3, SumOnTakeOut
<1> QED  BY <1>2, <1>4

(* The same for SumFunction, and what follows. *)
LEMMA SumType ==
    ASSUME NEW S, IsFiniteSet(S), NEW f \in [S -> Int]
    PROVE  SumFunction(f) \in Int
BY SumOnType DEF SumFunction

(* The sum over no terms. *)
LEMMA SumNone ==
    ASSUME NEW f, DOMAIN f = {}
    PROVE  SumFunction(f) = 0
BY SumOnEmpty DEF SumFunction

(* One term, and the sum of the others. *)
LEMMA SumTakeOut ==
    ASSUME NEW S, IsFiniteSet(S), NEW f \in [S -> Int], NEW x \in S
    PROVE  SumFunction(f) = f[x] + SumFunction([y \in S \ {x} |-> f[y]])
<1> DEFINE g == [y \in S \ {x} |-> f[y]]
<1>1. SumFunctionOnSet(f, S) = f[x] + SumFunctionOnSet(f, S \ {x})
  BY SumOnTakeOut
<1>2. SumFunctionOnSet(f, S \ {x}) = SumFunctionOnSet(g, S \ {x})
  <2>1. IsFiniteSet(S \ {x}) /\ \A y \in S \ {x} : f[y] = g[y]
    BY FS_Subset
  <2> HIDE DEF g
  <2> QED  BY <2>1, SumOnSame
<1>3. DOMAIN f = S /\ DOMAIN g = S \ {x}
  OBVIOUS
<1> QED  BY <1>1, <1>2, <1>3 DEF SumFunction

(* The sum of sums, term by term. *)
LEMMA SumPlus ==
    ASSUME NEW S, IsFiniteSet(S), NEW f \in [S -> Int], NEW g \in [S -> Int],
           NEW h \in [S -> Int], \A x \in S : h[x] = f[x] + g[x]
    PROVE  SumFunction(h) = SumFunction(f) + SumFunction(g)
<1> DEFINE Good == {T \in SUBSET S : SumFunctionOnSet(h, T)
                                        = SumFunctionOnSet(f, T) + SumFunctionOnSet(g, T)}
<1>1. {} \in Good
  BY SumOnEmpty
<1>2. ASSUME NEW T \in SUBSET S, NEW x \in S, T \in Good, x \notin T
      PROVE  T \union {x} \in Good
  <2>1. IsFiniteSet(T)
    BY FS_Subset
  <2>2. /\ SumFunctionOnSet(f, T) \in Int
        /\ SumFunctionOnSet(g, T) \in Int
    BY <2>1, SumOnType
  <2>3. /\ SumFunctionOnSet(f, T \union {x}) = f[x] + SumFunctionOnSet(f, T)
        /\ SumFunctionOnSet(g, T \union {x}) = g[x] + SumFunctionOnSet(g, T)
        /\ SumFunctionOnSet(h, T \union {x}) = h[x] + SumFunctionOnSet(h, T)
    BY <1>2, <2>1, SumOnAdd
  <2> QED  BY <1>2, <2>2, <2>3
<1>3. S \in Good
  <2> HIDE DEF Good
  <2> QED  BY <1>1, <1>2, ElementInduction
<1>4. DOMAIN f = S /\ DOMAIN g = S /\ DOMAIN h = S
  OBVIOUS
<1> QED  BY <1>3, <1>4 DEF SumFunction

(* The sum of differences. *)
LEMMA SumMinus ==
    ASSUME NEW S, IsFiniteSet(S), NEW f \in [S -> Int], NEW g \in [S -> Int],
           NEW h \in [S -> Int], \A x \in S : h[x] = f[x] - g[x]
    PROVE  SumFunction(h) = SumFunction(f) - SumFunction(g)
<1>1. SumFunction(f) = SumFunction(h) + SumFunction(g)
  <2>1. \A x \in S : f[x] = h[x] + g[x]
    OBVIOUS
  <2> QED  BY <2>1, SumPlus
<1> QED  BY <1>1, SumType

(* Larger terms, larger sum. *)
LEMMA SumMonotone ==
    ASSUME NEW S, IsFiniteSet(S), NEW f \in [S -> Int], NEW g \in [S -> Int],
           \A x \in S : f[x] <= g[x]
    PROVE  SumFunction(f) <= SumFunction(g)
<1> DEFINE Good == {T \in SUBSET S : SumFunctionOnSet(f, T) <= SumFunctionOnSet(g, T)}
<1>1. {} \in Good
  BY SumOnEmpty
<1>2. ASSUME NEW T \in SUBSET S, NEW x \in S, T \in Good, x \notin T
      PROVE  T \union {x} \in Good
  <2>1. IsFiniteSet(T)
    BY FS_Subset
  <2>2. /\ SumFunctionOnSet(f, T) \in Int
        /\ SumFunctionOnSet(g, T) \in Int
    BY <2>1, SumOnType
  <2>3. /\ SumFunctionOnSet(f, T \union {x}) = f[x] + SumFunctionOnSet(f, T)
        /\ SumFunctionOnSet(g, T \union {x}) = g[x] + SumFunctionOnSet(g, T)
    BY <1>2, <2>1, SumOnAdd
  <2> QED  BY <1>2, <2>2, <2>3
<1>3. S \in Good
  <2> HIDE DEF Good
  <2> QED  BY <1>1, <1>2, ElementInduction
<1>4. DOMAIN f = S /\ DOMAIN g = S
  OBVIOUS
<1> QED  BY <1>3, <1>4 DEF SumFunction

(* Zeros add up to zero. *)
LEMMA SumOfZeros ==
    ASSUME NEW S, IsFiniteSet(S), NEW f, DOMAIN f = S, \A x \in S : f[x] = 0
    PROVE  SumFunction(f) = 0
<1> DEFINE Good == {T \in SUBSET S : SumFunctionOnSet(f, T) = 0}
<1>1. {} \in Good
  BY SumOnEmpty
<1>2. ASSUME NEW T \in SUBSET S, NEW x \in S, T \in Good, x \notin T
      PROVE  T \union {x} \in Good
  <2>1. IsFiniteSet(T)
    BY FS_Subset
  <2>2. SumFunctionOnSet(f, T \union {x}) = f[x] + SumFunctionOnSet(f, T)
    BY <1>2, <2>1, SumOnAdd
  <2> QED  BY <1>2, <2>2
<1>3. S \in Good
  <2> HIDE DEF Good
  <2> QED  BY <1>1, <1>2, ElementInduction
<1> QED  BY <1>3 DEF SumFunction

(* One term changed. *)
LEMMA SumUpdate ==
    ASSUME NEW S, IsFiniteSet(S), NEW f \in [S -> Int], NEW g \in [S -> Int], NEW x \in S,
           \A y \in S \ {x} : g[y] = f[y]
    PROVE  SumFunction(g) = SumFunction(f) - f[x] + g[x]
<1>1. SumFunction(g) = g[x] + SumFunction([y \in S \ {x} |-> g[y]])
  BY SumTakeOut
<1>2. SumFunction(f) = f[x] + SumFunction([y \in S \ {x} |-> f[y]])
  BY SumTakeOut
<1>3. [y \in S \ {x} |-> g[y]] = [y \in S \ {x} |-> f[y]]
  OBVIOUS
<1>4. SumFunction([y \in S \ {x} |-> f[y]]) \in Int
  BY SumType, FS_Subset
<1> QED  BY <1>1, <1>2, <1>3, <1>4

(* Sums over rows and over columns agree. *)
LEMMA SumSwap ==
    ASSUME NEW S, IsFiniteSet(S), NEW T, IsFiniteSet(T), NEW m \in [S -> [T -> Int]]
    PROVE  SumFunction([x \in S |-> SumFunction(m[x])])
               = SumFunction([y \in T |-> SumFunction([x \in S |-> m[x][y]])])
<1> DEFINE rows == [x \in S |-> SumFunction(m[x])]
           cols(R) == [y \in T |-> SumFunctionOnSet([x \in S |-> m[x][y]], R)]
           Good == {R \in SUBSET S : SumFunctionOnSet(rows, R) = SumFunction(cols(R))}
<1>1. rows \in [S -> Int]
  BY SumType
<1>2. \A R \in SUBSET S : cols(R) \in [T -> Int]
  <2> SUFFICES ASSUME NEW R \in SUBSET S, NEW y \in T
               PROVE  SumFunctionOnSet([x \in S |-> m[x][y]], R) \in Int
    OBVIOUS
  <2> DEFINE c == [x \in S |-> m[x][y]]
  <2>1. IsFiniteSet(R) /\ \A x \in R : c[x] \in Int
    BY FS_Subset
  <2> HIDE DEF c
  <2>2. SumFunctionOnSet(c, R) \in Int
    BY <2>1, SumOnType
  <2> QED  BY <2>2 DEF c
<1>3. {} \in Good
  <2>1. DOMAIN cols({}) = T /\ \A y \in T : cols({})[y] = 0
    BY SumOnEmpty
  <2> HIDE DEF cols
  <2>2. SumFunction(cols({})) = 0
    BY <2>1, SumOfZeros
  <2> QED  BY <2>2, SumOnEmpty
<1>4. ASSUME NEW R \in SUBSET S, NEW x \in S, R \in Good, x \notin R
      PROVE  R \union {x} \in Good
  <2>1. IsFiniteSet(R)
    BY FS_Subset
  <2>2. SumFunctionOnSet(rows, R \union {x}) = SumFunction(m[x]) + SumFunctionOnSet(rows, R)
    BY <1>1, <1>4, <2>1, SumOnAdd
  <2>3. \A y \in T : cols(R \union {x})[y] = m[x][y] + cols(R)[y]
    <3> SUFFICES ASSUME NEW y \in T
                 PROVE  cols(R \union {x})[y] = m[x][y] + cols(R)[y]
      OBVIOUS
    <3> DEFINE c == [z \in S |-> m[z][y]]
    <3>1. (\A z \in R : c[z] \in Int) /\ c[x] \in Int /\ c[x] = m[x][y]
      OBVIOUS
    <3> HIDE DEF c
    <3>2. SumFunctionOnSet(c, R \union {x}) = c[x] + SumFunctionOnSet(c, R)
      BY <1>4, <2>1, <3>1, SumOnAdd
    <3> QED  BY <3>1, <3>2 DEF c
  <2> DEFINE more == cols(R \union {x})
             fewer == cols(R)
  <2>4. more \in [T -> Int] /\ fewer \in [T -> Int] /\ m[x] \in [T -> Int]
    <3> HIDE DEF cols
    <3> QED  BY <1>2
  <2> HIDE DEF cols, more, fewer
  <2>5. \A y \in T : more[y] = m[x][y] + fewer[y]
    BY <2>3 DEF more, fewer
  <2>6. SumFunction(more) = SumFunction(m[x]) + SumFunction(fewer)
    BY <2>4, <2>5, SumPlus
  <2> QED  BY <1>4, <2>2, <2>6 DEF more, fewer
<1>5. S \in Good
  <2> HIDE DEF Good
  <2> QED  BY <1>3, <1>4, ElementInduction
<1> QED  BY <1>5 DEF SumFunction

(* A sum is the same in whatever order, and under whatever names, its terms
   are given. *)
LEMMA SumRenamed ==
    ASSUME NEW S, NEW T, IsFiniteSet(T), NEW p \in Bijection(T, S),
           NEW f \in [S -> Int], NEW g \in [T -> Int], \A x \in T : g[x] = f[p[x]]
    PROVE  SumFunction(g) = SumFunction(f)
<1>0. /\ p \in [T -> S]
      /\ \A x, y \in T : p[x] = p[y] => x = y
      /\ \A z \in S : \E x \in T : p[x] = z
  BY DEF Bijection, Injection, Surjection, IsInjective
<1> DEFINE image(R) == {p[x] : x \in R}
           Good == {R \in SUBSET T : /\ IsFiniteSet(image(R))
                                     /\ SumFunctionOnSet(g, R) = SumFunctionOnSet(f, image(R))}
<1>1. {} \in Good
  <2>1. image({}) = {}
    OBVIOUS
  <2> QED  BY <2>1, SumOnEmpty, FS_EmptySet
<1>2. ASSUME NEW R \in SUBSET T, NEW x \in T, R \in Good, x \notin R
      PROVE  R \union {x} \in Good
  <2>1. IsFiniteSet(R) /\ IsFiniteSet(image(R))
    BY <1>2, FS_Subset
  <2>2. SumFunctionOnSet(g, R \union {x}) = g[x] + SumFunctionOnSet(g, R)
    BY <1>2, <2>1, SumOnAdd
  <2>3. image(R \union {x}) = image(R) \union {p[x]}
    OBVIOUS
  <2>4. p[x] \notin image(R) /\ \A z \in image(R) : f[z] \in Int
    BY <1>0, <1>2
  <2>5. IsFiniteSet(image(R) \union {p[x]})
    BY <2>1, FS_AddElement
  <2>6. SumFunctionOnSet(f, image(R) \union {p[x]}) = f[p[x]] + SumFunctionOnSet(f, image(R))
    <3> HIDE DEF image
    <3>1. f[p[x]] \in Int
      BY <1>0
    <3> QED  BY <2>1, <2>4, <3>1, SumOnAdd
  <2> QED  BY <1>2, <2>2, <2>3, <2>5, <2>6
<1>3. T \in Good
  <2> HIDE DEF Good
  <2> QED  BY <1>1, <1>2, ElementInduction
<1>4. image(T) = S
  BY <1>0
<1>5. DOMAIN f = S /\ DOMAIN g = T
  OBVIOUS
<1> HIDE DEF image
<1> QED  BY <1>3, <1>4, <1>5 DEF SumFunction

(* Terms that are zero do not count. *)
LEMMA SumWithoutZeros ==
    ASSUME NEW S, IsFiniteSet(S), NEW f \in [S -> Int], NEW T \in SUBSET S,
           \A x \in S \ T : f[x] = 0
    PROVE  SumFunction(f) = SumFunction([x \in T |-> f[x]])
<1> DEFINE Good == {R \in SUBSET S : SumFunctionOnSet(f, R) = SumFunctionOnSet(f, R \intersect T)}
<1>1. {} \in Good
  <2>1. {} \intersect T = {}
    OBVIOUS
  <2> QED  BY <2>1
<1>2. ASSUME NEW R \in SUBSET S, NEW x \in S, R \in Good, x \notin R
      PROVE  R \union {x} \in Good
  <2>1. IsFiniteSet(R) /\ IsFiniteSet(R \intersect T)
    BY FS_Subset
  <2>2. SumFunctionOnSet(f, R \union {x}) = f[x] + SumFunctionOnSet(f, R)
    BY <1>2, <2>1, SumOnAdd
  <2>3. SumFunctionOnSet(f, R) \in Int
    BY <2>1, SumOnType
  <2>4. CASE x \in T
    <3>1. (R \union {x}) \intersect T = (R \intersect T) \union {x}
      BY <2>4
    <3>2. SumFunctionOnSet(f, (R \intersect T) \union {x}) = f[x] + SumFunctionOnSet(f, R \intersect T)
      <4>1. x \notin R \intersect T /\ \A y \in R \intersect T : f[y] \in Int
        BY <1>2
      <4> QED  BY <2>1, <4>1, SumOnAdd
    <3>3. SumFunctionOnSet(f, R) = SumFunctionOnSet(f, R \intersect T)
      BY <1>2
    <3>4. SumFunctionOnSet(f, R \union {x}) = SumFunctionOnSet(f, (R \union {x}) \intersect T)
      BY <2>2, <3>1, <3>2, <3>3, Zenon
    <3> QED  BY <3>4
  <2>5. CASE x \notin T
    <3>1. (R \union {x}) \intersect T = R \intersect T
      BY <2>5
    <3>2. f[x] = 0
      BY <2>5
    <3>3. SumFunctionOnSet(f, R) = SumFunctionOnSet(f, R \intersect T)
      BY <1>2
    <3>4. 0 + SumFunctionOnSet(f, R) = SumFunctionOnSet(f, R)
      BY <2>3
    <3>5. SumFunctionOnSet(f, R \union {x}) = SumFunctionOnSet(f, (R \union {x}) \intersect T)
      BY <2>2, <3>1, <3>2, <3>3, <3>4, Zenon
    <3> QED  BY <3>5
  <2> QED  BY <2>4, <2>5
<1>3. S \in Good
  <2> HIDE DEF Good
  <2> QED  BY <1>1, <1>2, ElementInduction
<1> DEFINE g == [x \in T |-> f[x]]
<1>4. SumFunctionOnSet(f, T) = SumFunctionOnSet(g, T)
  <2>1. IsFiniteSet(T) /\ \A x \in T : f[x] = g[x]
    BY FS_Subset
  <2> HIDE DEF g
  <2> QED  BY <2>1, SumOnSame
<1>5. S \intersect T = T /\ DOMAIN f = S /\ DOMAIN g = T
  OBVIOUS
<1> QED  BY <1>3, <1>4, <1>5 DEF SumFunction

-----------------------------------------------------------------------------
(* Splits: calculate_expense_shares. *)

(* Constant times a sum. *)
LEMMA SumTimes ==
    ASSUME NEW S, IsFiniteSet(S), NEW c \in Int, NEW f \in [S -> Int], NEW g \in [S -> Int],
           \A x \in S : g[x] = c * f[x]
    PROVE  SumFunction(g) = c * SumFunction(f)
<1> DEFINE Good == {T \in SUBSET S : SumFunctionOnSet(g, T) = c * SumFunctionOnSet(f, T)}
<1>1. {} \in Good
  BY SumOnEmpty
<1>2. ASSUME NEW T \in SUBSET S, NEW x \in S, T \in Good, x \notin T
      PROVE  T \union {x} \in Good
  <2>1. IsFiniteSet(T)
    BY FS_Subset
  <2>2. /\ SumFunctionOnSet(f, T) \in Int
        /\ SumFunctionOnSet(g, T) = c * SumFunctionOnSet(f, T)
    BY <1>2, <2>1, SumOnType
  <2>3. /\ SumFunctionOnSet(f, T \union {x}) = f[x] + SumFunctionOnSet(f, T)
        /\ SumFunctionOnSet(g, T \union {x}) = g[x] + SumFunctionOnSet(g, T)
    BY <1>2, <2>1, SumOnAdd
  <2> DEFINE old == SumFunctionOnSet(f, T)
             new == SumFunctionOnSet(f, T \union {x})
             oldG == SumFunctionOnSet(g, T)
             newG == SumFunctionOnSet(g, T \union {x})
  <2>4. /\ old \in Int /\ oldG = c * old /\ new = f[x] + old /\ newG = g[x] + oldG
        /\ f[x] \in Int /\ g[x] = c * f[x]
    BY <2>2, <2>3
  <2> HIDE DEF old, new, oldG, newG
  <2>5. newG = c * new
    BY <2>4
  <2> QED  BY <2>5 DEF new, newG
<1>3. S \in Good
  <2> HIDE DEF Good
  <2> QED  BY <1>1, <1>2, ElementInduction
<1>4. DOMAIN f = S /\ DOMAIN g = S
  OBVIOUS
<1> QED  BY <1>3, <1>4 DEF SumFunction

(* A sum of terms no greater than c is at most c for each of them. *)
LEMMA SumBounded ==
    ASSUME NEW S, IsFiniteSet(S), NEW c \in Int, NEW f \in [S -> Int],
           \A x \in S : f[x] <= c
    PROVE  SumFunction(f) <= c * Cardinality(S)
<1> DEFINE Good == {T \in SUBSET S : SumFunctionOnSet(f, T) <= c * Cardinality(T)}
<1>1. {} \in Good
  BY SumOnEmpty, FS_EmptySet
<1>2. ASSUME NEW T \in SUBSET S, NEW x \in S, T \in Good, x \notin T
      PROVE  T \union {x} \in Good
  <2>1. IsFiniteSet(T)
    BY FS_Subset
  <2>2. SumFunctionOnSet(f, T \union {x}) = f[x] + SumFunctionOnSet(f, T)
    BY <1>2, <2>1, SumOnAdd
  <2>3. Cardinality(T) \in Nat /\ Cardinality(T \union {x}) = Cardinality(T) + 1
    BY <1>2, <2>1, FS_AddElement, FS_CardinalityType
  <2> DEFINE old == SumFunctionOnSet(f, T)
             new == SumFunctionOnSet(f, T \union {x})
             size == Cardinality(T)
             larger == Cardinality(T \union {x})
  <2>4. /\ old \in Int /\ new = f[x] + old /\ old <= c * size
        /\ size \in Nat /\ larger = size + 1 /\ f[x] \in Int /\ f[x] <= c
    BY <1>2, <2>1, <2>2, <2>3, SumOnType
  <2> HIDE DEF old, new, size, larger
  <2>5. new <= c * larger
    BY <2>4
  <2> QED  BY <2>5 DEF new, larger
<1>3. S \in Good
  <2> HIDE DEF Good
  <2> QED  BY <1>1, <1>2, ElementInduction
<1> QED  BY <1>3 DEF SumFunction

(* The sum of the opposites. *)
LEMMA SumNegated ==
    ASSUME NEW S, IsFiniteSet(S), NEW f \in [S -> Int], NEW g \in [S -> Int],
           \A x \in S : g[x] = -f[x]
    PROVE  SumFunction(g) = -SumFunction(f)
<1>1. \A x \in S : g[x] = (-1) * f[x]
  OBVIOUS
<1>2. SumFunction(g) = (-1) * SumFunction(f)
  BY <1>1, SumTimes
<1> QED  BY <1>2, SumType

-----------------------------------------------------------------------------

(* The participants are a list, whose length may be counted on. *)
LEMMA ParticipantsCounted ==
    ASSUME NEW m, IsFiniteSet(m), NEW t, NEW d \in Seq(Items)
    PROVE  /\ Len(Participants(m, t, d)) \in Nat
           /\ DOMAIN Participants(m, t, d) = 1..Len(Participants(m, t, d))
<1>1. Cardinality(m) \in Nat
  BY FS_CardinalityType
<1>2. CASE t = "EQUAL" /\ d = << >>
  <2>1. Participants(m, t, d) = InOrder(m)
    BY <1>2 DEF Participants
  <2>2. InOrder(m) = [i \in 1..Cardinality(m) |->
                         CHOOSE u \in m : Cardinality({v \in m : v < u}) = i - 1]
    BY DEF InOrder
  <2> DEFINE pick(i) == CHOOSE u \in m : Cardinality({v \in m : v < u}) = i - 1
  <2> HIDE DEF pick
  <2>3. Len([i \in 1..Cardinality(m) |-> pick(i)]) = Cardinality(m)
    BY <1>1
  <2> QED  BY <1>1, <2>1, <2>2, <2>3 DEF pick
<1>3. CASE ~(t = "EQUAL" /\ d = << >>)
  <2>1. Participants(m, t, d) = [i \in 1..Len(d) |-> d[i].user]
    BY <1>3 DEF Participants
  <2> QED  BY <2>1
<1> QED  BY <1>2, <1>3

(* What Accepts asks of the participants: no more than this is used below. *)
Fits(n, a, t, d) ==
    /\ n \in Nat \ {0} /\ a \in Nat \ {0} /\ d \in Seq(Items)
    /\ t = "EQUAL" \/ t = "EXACT" \/ t = "PERCENT"
    /\ t # "EQUAL" => n = Len(d)
    /\ t = "EXACT" => Carries(d, "amount") /\ TotalValue(d) = 10 * a
    /\ t = "PERCENT" => Carries(d, "percentage") /\ TotalValue(d) = 100000

(* An accepted split fits. *)
LEMMA AcceptedFits ==
    ASSUME NEW m, IsFiniteSet(m), NEW a \in Int, NEW t \in SplitTypes,
           NEW d \in Seq(Items), Accepts(m, a, t, d)
    PROVE  Fits(Len(Participants(m, t, d)), a, t, d)
<1> DEFINE who == Participants(m, t, d)
<1>1. Len(who) \in Nat /\ DOMAIN who = 1..Len(who)
  BY ParticipantsCounted
<1>2. who # << >> /\ a > 0
  BY DEF Accepts
<1>3. Len(who) # 0
  <2> SUFFICES ASSUME Len(who) = 0 PROVE FALSE
    OBVIOUS
  <2>1. DOMAIN who = {}
    BY <1>1
  <2>2. CASE t = "EQUAL" /\ d = << >>
    <3>1. who = [i \in 1..Cardinality(m) |->
                    CHOOSE u \in m : Cardinality({v \in m : v < u}) = i - 1]
      BY <2>2 DEF Participants, InOrder
    <3>2. 1..Cardinality(m) = {}
      BY <2>1, <3>1
    <3> HIDE DEF who
    <3>3. who = << >>
      BY <3>1, <3>2
    <3> QED  BY <1>2, <3>3
  <2>3. CASE ~(t = "EQUAL" /\ d = << >>)
    <3>1. who = [i \in 1..Len(d) |-> d[i].user]
      BY <2>3 DEF Participants
    <3>2. 1..Len(d) = {}
      BY <2>1, <3>1
    <3> HIDE DEF who
    <3>3. who = << >>
      BY <3>1, <3>2
    <3> QED  BY <1>2, <3>3
  <2> QED  BY <2>2, <2>3
<1>4. t # "EQUAL" => Len(who) = Len(d)
  <2>1. t # "EQUAL" => who = [i \in 1..Len(d) |-> d[i].user]
    BY DEF Participants
  <2> HIDE DEF who
  <2> QED  BY <2>1
<1> HIDE DEF who
<1> QED  BY <1>1, <1>2, <1>3, <1>4 DEF Accepts, Fits, SplitTypes, who

-----------------------------------------------------------------------------

(* The value of an item is an integer. *)
LEMMA ItemValue ==
    ASSUME NEW d \in Seq(Items), NEW i \in 1..Len(d)
    PROVE  d[i].value \in Int /\ d[i].user \in Int
<1>1. d[i] \in Items
  OBVIOUS
<1> QED  BY <1>1 DEF Items

(* Equal shares: whole cents, not negative, the leftover handed out. *)
LEMMA EqualCentsAddUp ==
    ASSUME NEW n \in Nat \ {0}, NEW a \in Nat
    PROVE  /\ EqualCents(n, a) \in [1..n -> Int]
           /\ \A i \in 1..n : EqualCents(n, a)[i] >= 0
           /\ SumFunction(EqualCents(n, a)) = a
<1> DEFINE q == a \div n
           r == a % n
           c == EqualCents(n, a)
           low(k) == IF k <= r THEN k ELSE r
           Good == {k \in Nat : k <= n => SumFunctionOnSet(c, 1..k) = k * q + low(k)}
<1>1. q \in Nat /\ r \in 0..(n - 1) /\ a = n * q + r
  OBVIOUS
<1>2. c = [i \in 1..n |-> q + (IF i <= r THEN 1 ELSE 0)]
  BY DEF EqualCents
<1> HIDE DEF q, r, c
<1>3. \A i \in 1..n : c[i] \in Int /\ c[i] >= 0
  BY <1>1, <1>2
<1>4. ASSUME NEW k \in Nat, \A j \in Nat : j < k => j \in Good
      PROVE  k \in Good
  <2>1. CASE k = 0
    <3>1. 1..k = {} /\ low(k) = 0 /\ k * q = 0
      BY <1>1, <2>1
    <3> QED  BY <2>1, <3>1, SumOnEmpty
  <2>2. CASE k # 0
    <3> SUFFICES ASSUME k <= n PROVE SumFunctionOnSet(c, 1..k) = k * q + low(k)
      OBVIOUS
    <3> DEFINE j == k - 1
    <3>1. j \in Nat /\ j < k /\ k = j + 1 /\ k \in 1..n
      BY <2>2
    <3> HIDE DEF j
    <3>2. SumFunctionOnSet(c, 1..j) = j * q + low(j)
      BY <1>4, <3>1
    <3>3. 1..k = (1..j) \union {k} /\ k \notin 1..j /\ 1..j \subseteq 1..n
      BY <3>1
    <3>4. IsFiniteSet(1..j)
      BY <3>1, FS_Interval
    <3>5. SumFunctionOnSet(c, 1..k) = c[k] + SumFunctionOnSet(c, 1..j)
      <4>1. \A i \in 1..j : c[i] \in Int
        BY <1>3, <3>3
      <4>2. c[k] \in Int
        BY <1>3, <3>1
      <4>3. SumFunctionOnSet(c, (1..j) \union {k}) = c[k] + SumFunctionOnSet(c, 1..j)
        BY <3>3, <3>4, <4>1, <4>2, SumOnAdd
      <4> QED  BY <3>3, <4>3
    <3>6. c[k] = q + low(k) - low(j)
      BY <1>1, <1>2, <3>1
    <3>7. k * q = j * q + q
      BY <1>1, <3>1
    <3>8. low(k) \in Int /\ low(j) \in Int /\ j * q \in Int
      BY <1>1, <3>1
    <3> DEFINE jq == j * q
               kq == k * q
    <3>9. c[k] + (jq + low(j)) = kq + low(k)
      <4>1. jq \in Int /\ kq = jq + q
        BY <3>7, <3>8
      <4> HIDE DEF jq, kq, low
      <4> QED  BY <1>1, <3>6, <3>8, <4>1
    <3> QED  BY <3>2, <3>5, <3>9
  <2> QED  BY <2>1, <2>2
<1>5. n \in Good
  <2> HIDE DEF Good
  <2> QED  BY <1>4, StrongInduction
<1>6. low(n) = r
  BY <1>1
<1>7. DOMAIN c = 1..n
  BY <1>2
<1>8. SumFunction(c) = a
  BY <1>1, <1>5, <1>6, <1>7 DEF SumFunction
<1>9. c \in [1..n -> Int]
  BY <1>2, <1>3
<1> QED  BY <1>3, <1>8, <1>9 DEF c

(* Exact shares: the amounts asked for, which were checked to add up. *)
LEMMA ExactCentsAddUp ==
    ASSUME NEW d \in Seq(Items), NEW a \in Int,
           Carries(d, "amount"), TotalValue(d) = 10 * a
    PROVE  /\ ExactCents(d) \in [1..Len(d) -> Int]
           /\ \A i \in 1..Len(d) : ExactCents(d)[i] >= 0
           /\ SumFunction(ExactCents(d)) = a
<1> DEFINE c == ExactCents(d)
           v == [i \in DOMAIN d |-> d[i].value]
           S == 1..Len(d)
<1>1. DOMAIN d = S /\ IsFiniteSet(S)
  BY FS_Interval
<1>2. \A i \in S : /\ d[i].value \in Int /\ d[i].value >= 0 /\ d[i].value % 10 = 0
  <2>1. \A i \in S : d[i].value \in Int
    BY ItemValue
  <2>2. \A i \in S : IsMinorUnits(d[i].value)
    BY <1>1 DEF Carries
  <2> QED  BY <2>1, <2>2 DEF IsMinorUnits
<1>3. c = [i \in S |-> d[i].value \div 10]
  BY <1>1 DEF ExactCents
<1>4. v = [i \in S |-> d[i].value]
  BY <1>1
<1> HIDE DEF c, v, S
<1>5. \A i \in S : c[i] \in Int /\ c[i] >= 0 /\ v[i] \in Int /\ v[i] = 10 * c[i]
  <2> SUFFICES ASSUME NEW i \in S
               PROVE  c[i] \in Int /\ c[i] >= 0 /\ v[i] \in Int /\ v[i] = 10 * c[i]
    OBVIOUS
  <2>1. \A x \in Int : x >= 0 /\ x % 10 = 0
            => x \div 10 \in Int /\ x \div 10 >= 0 /\ x = 10 * (x \div 10)
    OBVIOUS
  <2> QED  BY <1>2, <1>3, <1>4, <2>1
<1>6. c \in [S -> Int] /\ v \in [S -> Int]
  BY <1>3, <1>4, <1>5
<1>7. SumFunction(v) = 10 * SumFunction(c)
  <2>1. 10 \in Int /\ \A i \in S : v[i] = 10 * c[i]
    BY <1>5
  <2> QED  BY <1>1, <1>6, <2>1, SumTimes, Zenon
<1>8. SumFunction(v) = 10 * a
  BY DEF TotalValue, v
<1>9. SumFunction(c) = a
  BY <1>1, <1>6, <1>7, <1>8, SumType
<1> QED  BY <1>5, <1>6, <1>9 DEF c, S

(* Half-even rounding is off by half a unit at most. *)
LEMMA HalfEvenIsClose ==
    ASSUME NEW x \in Int, NEW c \in Nat \ {0}
    PROVE  /\ HalfEven(x, c) \in Int
           /\ 2 * (HalfEven(x, c) * c - x) <= c
           /\ -c <= 2 * (HalfEven(x, c) * c - x)
<1> DEFINE q == x \div c
           r == x % c
           h == HalfEven(x, c)
<1>1. q \in Int /\ r \in Int /\ 0 <= r /\ r < c /\ x = (c * q) + r
  OBVIOUS
<1>2. h = IF 2 * r > c \/ (2 * r = c /\ q % 2 = 1) THEN q + 1 ELSE q
  BY DEF HalfEven
<1> HIDE DEF q, r, h
<1>3. (h = q /\ 2 * r <= c) \/ (h = q + 1 /\ 2 * r >= c)
  BY <1>1, <1>2
<1> DEFINE p == c * q
<1>4. p \in Int
  BY <1>1
<1>5. q * c = p /\ (q + 1) * c = p + c
  BY <1>1
<1>6. CASE h = q /\ 2 * r <= c
  <2>1. h * c = p
    BY <1>5, <1>6
  <2>2. h \in Int /\ x = p + r
    BY <1>1, <1>6
  <2> HIDE DEF p
  <2> QED  BY <1>1, <1>4, <1>6, <2>1, <2>2 DEF h
<1>7. CASE h = q + 1 /\ 2 * r >= c
  <2>1. h * c = p + c
    BY <1>5, <1>7
  <2>2. h \in Int /\ x = p + r
    BY <1>1, <1>7
  <2> HIDE DEF p
  <2> QED  BY <1>1, <1>4, <1>7, <2>1, <2>2 DEF h
<1> QED  BY <1>3, <1>6, <1>7

(* Percentages: the last share takes what rounding left. *)
LEMMA PercentCentsAddUp ==
    ASSUME NEW d \in Seq(Items), NEW a \in Int, Len(d) # 0
    PROVE  /\ PercentCents(a, d) \in [1..Len(d) -> Int]
           /\ SumFunction(PercentCents(a, d)) = a
<1> DEFINE n == Len(d)
           rounded == [i \in 1..n |-> HalfEven(a * d[i].value, 100000)]
           c == PercentCents(a, d)
<1>1. n \in Nat /\ n \in 1..n /\ IsFiniteSet(1..n)
  BY FS_Interval
<1>2. \A i \in 1..n : HalfEven(a * d[i].value, 100000) \in Int
  <2> SUFFICES ASSUME NEW i \in 1..n PROVE HalfEven(a * d[i].value, 100000) \in Int
    OBVIOUS
  <2>1. d[i].value \in Int
    BY ItemValue
  <2> DEFINE x == a * d[i].value
  <2>2. x \in Int
    BY <2>1
  <2> HIDE DEF x
  <2>3. HalfEven(x, 100000) \in Int
    BY <2>2, HalfEvenIsClose, SMT
  <2> QED  BY <2>3 DEF x
<1>3. c = [rounded EXCEPT ![n] = @ + a - SumFunction(rounded)]
  BY DEF PercentCents
<1>4. rounded \in [1..n -> Int]
  BY <1>2
<1> HIDE DEF n, rounded, c
<1>5. SumFunction(rounded) \in Int /\ rounded[n] \in Int
  BY <1>1, <1>4, SumType
<1>6. /\ c \in [1..n -> Int]
      /\ c[n] = rounded[n] + a - SumFunction(rounded)
      /\ \A i \in (1..n) \ {n} : c[i] = rounded[i]
  BY <1>1, <1>3, <1>4, <1>5
<1>7. SumFunction(c) = SumFunction(rounded) - rounded[n] + c[n]
  BY <1>1, <1>4, <1>6, SumUpdate
<1>8. SumFunction(c) = a
  BY <1>5, <1>6, <1>7
<1> QED  BY <1>6, <1>8 DEF c, n

(* So the cents of every split that fits add up to the amount. *)
LEMMA CentsAddUp ==
    ASSUME NEW n, NEW a, NEW t, NEW d, Fits(n, a, t, d)
    PROVE  /\ Cents(n, a, t, d) \in [1..n -> Int]
           /\ SumFunction(Cents(n, a, t, d)) = a
           /\ t # "PERCENT" => \A i \in 1..n : Cents(n, a, t, d)[i] >= 0
<1> DEFINE c == Cents(n, a, t, d)
<1>1. CASE t = "EQUAL"
  <2> DEFINE e == EqualCents(n, a)
  <2>1. c = e
    BY <1>1 DEF Cents
  <2>2. n \in Nat \ {0} /\ a \in Nat
    BY DEF Fits
  <2>3. e \in [1..n -> Int] /\ SumFunction(e) = a /\ \A i \in 1..n : e[i] >= 0
    BY <2>2, EqualCentsAddUp
  <2> HIDE DEF c, e
  <2>4. c \in [1..n -> Int] /\ SumFunction(c) = a /\ \A i \in 1..n : c[i] >= 0
    BY <2>1, <2>3
  <2> QED  BY <2>4 DEF c
<1>2. CASE t = "EXACT"
  <2> DEFINE e == ExactCents(d)
  <2>1. c = e
    BY <1>2 DEF Cents
  <2>2. /\ d \in Seq(Items) /\ a \in Int /\ n = Len(d)
        /\ Carries(d, "amount") /\ TotalValue(d) = 10 * a
    BY <1>2 DEF Fits
  <2>3. e \in [1..n -> Int] /\ SumFunction(e) = a /\ \A i \in 1..n : e[i] >= 0
    BY <2>2, ExactCentsAddUp
  <2> HIDE DEF c, e
  <2>4. c \in [1..n -> Int] /\ SumFunction(c) = a /\ \A i \in 1..n : c[i] >= 0
    BY <2>1, <2>3
  <2> QED  BY <2>4 DEF c
<1>3. CASE t = "PERCENT"
  <2> DEFINE e == PercentCents(a, d)
  <2>1. c = e
    BY <1>3 DEF Cents
  <2>2. d \in Seq(Items) /\ a \in Int /\ n = Len(d) /\ Len(d) # 0
    BY <1>3 DEF Fits
  <2>3. e \in [1..n -> Int] /\ SumFunction(e) = a
    BY <2>2, PercentCentsAddUp
  <2> HIDE DEF c, e
  <2>4. c \in [1..n -> Int] /\ SumFunction(c) = a
    BY <2>1, <2>3
  <2> QED  BY <1>3, <2>4 DEF c
<1> QED  BY <1>1, <1>2, <1>3 DEF Fits

-----------------------------------------------------------------------------
(* The shares of an accepted split are whole cents, one for each participant,
   and add up to the amount; only a PERCENT split has negative ones. *)
LEMMA SharesByUser ==
    ASSUME NEW m, IsFiniteSet(m), NEW a \in Int, NEW t \in SplitTypes,
           NEW d \in Seq(Items), Accepts(m, a, t, d)
    PROVE  LET who == Participants(m, t, d)
           IN  /\ DOMAIN Shares(m, a, t, d) = Range(who)
               /\ \A i \in DOMAIN who :
                     Shares(m, a, t, d)[who[i]] = Cents(Len(who), a, t, d)[i]
<1> DEFINE who == Participants(m, t, d)
           cents == Cents(Len(who), a, t, d)
<1>1. Shares(m, a, t, d) = [u \in Range(who) |-> cents[CHOOSE i \in DOMAIN who : who[i] = u]]
  BY DEF Shares
<1>2. \A i, j \in DOMAIN who : who[i] = who[j] => i = j
  BY DEF Accepts, IsInjective
<1> HIDE DEF who, cents
<1>3. ASSUME NEW i \in DOMAIN who
      PROVE  (CHOOSE j \in DOMAIN who : who[j] = who[i]) = i /\ who[i] \in Range(who)
  BY <1>2 DEF Range
<1> QED  BY <1>1, <1>3 DEF who, cents

(* And so do the shares, by user. *)
LEMMA SharesAddUpToAmount ==
    ASSUME NEW m, IsFiniteSet(m), NEW a \in Int, NEW t \in SplitTypes,
           NEW d \in Seq(Items), Accepts(m, a, t, d)
    PROVE  /\ DOMAIN Shares(m, a, t, d) \subseteq m
           /\ Shares(m, a, t, d) \in [DOMAIN Shares(m, a, t, d) -> Int]
           /\ SumFunction(Shares(m, a, t, d)) = a
           /\ t # "PERCENT" =>
                 \A u \in DOMAIN Shares(m, a, t, d) : Shares(m, a, t, d)[u] >= 0
<1> DEFINE who == Participants(m, t, d)
           n == Len(who)
           cents == Cents(n, a, t, d)
           share == Shares(m, a, t, d)
<1>1. DOMAIN share = Range(who) /\ \A i \in DOMAIN who : share[who[i]] = cents[i]
  BY SharesByUser
<1>2. n \in Nat /\ DOMAIN who = 1..n /\ IsFiniteSet(1..n)
  BY ParticipantsCounted, FS_Interval
<1>3. /\ cents \in [1..n -> Int]
      /\ SumFunction(cents) = a
      /\ t # "PERCENT" => \A i \in 1..n : cents[i] >= 0
  BY AcceptedFits, CentsAddUp
<1>4. (\A i, j \in DOMAIN who : who[i] = who[j] => i = j) /\ Range(who) \subseteq m
  BY DEF Accepts, IsInjective
<1>5. share = [u \in DOMAIN share |-> share[u]]
  BY DEF Shares
<1> HIDE DEF who, n, cents, share
<1>6. \A u \in DOMAIN share : \E i \in 1..n : who[i] = u
  BY <1>1, <1>2 DEF Range
<1>7. \A u \in DOMAIN share : share[u] \in Int
  BY <1>1, <1>2, <1>3, <1>6
<1>8. share \in [DOMAIN share -> Int]
  BY <1>5, <1>7
<1>9. \A i \in 1..n : who[i] \in DOMAIN share
  BY <1>1, <1>2 DEF Range
<1> DEFINE p == [i \in 1..n |-> who[i]]
<1>10. /\ p \in [1..n -> DOMAIN share]
       /\ \A i, j \in 1..n : p[i] = p[j] => i = j
       /\ \A u \in DOMAIN share : \E i \in 1..n : p[i] = u
       /\ \A i \in 1..n : cents[i] = share[p[i]]
  BY <1>1, <1>2, <1>4, <1>6, <1>9
<1> HIDE DEF p
<1>11. SumFunction(cents) = SumFunction(share)
  <2> DEFINE S == DOMAIN share
             T == 1..n
  <2>1. p \in Bijection(T, S)
    BY <1>10 DEF Bijection, Injection, Surjection, IsInjective
  <2>2. /\ cents \in [T -> Int] /\ share \in [S -> Int] /\ IsFiniteSet(T)
        /\ \A i \in T : cents[i] = share[p[i]]
    BY <1>2, <1>3, <1>8, <1>10
  <2> HIDE DEF S, T
  <2> QED  BY <2>1, <2>2, SumRenamed
<1>12. t # "PERCENT" => \A u \in DOMAIN share : share[u] >= 0
  BY <1>1, <1>2, <1>3, <1>6
<1> QED  BY <1>1, <1>3, <1>4, <1>8, <1>11, <1>12 DEF share

(* What the users of an EQUAL split pay goes down along the split, by a cent
   and once at most. *)
LEMMA EqualSharesFair ==
    ASSUME NEW m, IsFiniteSet(m), NEW a \in Int, NEW d \in Seq(Items), Accepts(m, a, "EQUAL", d)
    PROVE  LET who == Participants(m, "EQUAL", d)
               share == Shares(m, a, "EQUAL", d)
           IN  \A i, j \in DOMAIN who : i < j => share[who[i]] - share[who[j]] \in {0, 1}
<1> DEFINE who == Participants(m, "EQUAL", d)
           n == Len(who)
           share == Shares(m, a, "EQUAL", d)
<1>1. "EQUAL" \in SplitTypes
  BY DEF SplitTypes
<1>2. \A i \in DOMAIN who : share[who[i]] = Cents(n, a, "EQUAL", d)[i]
  BY <1>1, SharesByUser
<1>3. n \in Nat /\ DOMAIN who = 1..n
  BY ParticipantsCounted
<1>4. n # 0 /\ a \in Nat
  <2>1. Fits(n, a, "EQUAL", d)
    BY <1>1, AcceptedFits
  <2> QED  BY <2>1 DEF Fits
<1>5. Cents(n, a, "EQUAL", d) = EqualCents(n, a)
  BY DEF Cents
<1> HIDE DEF who, n, share
<1> DEFINE q == a \div n
           r == a % n
<1>6. q \in Int /\ r \in Int
  BY <1>3, <1>4
<1>7. EqualCents(n, a) = [i \in 1..n |-> q + (IF i <= r THEN 1 ELSE 0)]
  BY DEF EqualCents
<1> HIDE DEF q, r
<1>8. \A i \in DOMAIN who : share[who[i]] = q + (IF i <= r THEN 1 ELSE 0)
  BY <1>2, <1>3, <1>5, <1>7
<1>9. \A i, j \in DOMAIN who : i < j => share[who[i]] - share[who[j]] \in {0, 1}
  BY <1>3, <1>6, <1>8
<1> QED  BY <1>9 DEF who, share

(* Off by b / 2 at most each, all but one together are off by b / 2 times their
   number at most. *)
LEMMA AllButOneOff ==
    ASSUME NEW T, IsFiniteSet(T), NEW last \in T, NEW off \in [T -> Int], NEW b \in Int,
           \A k \in T : 2 * off[k] <= b /\ 2 * (-off[k]) <= b
    PROVE  LET left == SumFunction(off) - off[last]
           IN  /\ left \in Int
               /\ 2 * left <= b * (Cardinality(T) - 1)
               /\ 2 * (-left) <= b * (Cardinality(T) - 1)
<1> DEFINE S == T \ {last}
           rest == [k \in S |-> off[k]]
           twice == [k \in S |-> 2 * off[k]]
           back == [k \in S |-> -(2 * off[k])]
<1>1. IsFiniteSet(S) /\ Cardinality(S) = Cardinality(T) - 1
  BY FS_RemoveElement
<1>2. SumFunction(off) = off[last] + SumFunction(rest)
  BY SumTakeOut
<1>3. rest \in [S -> Int]
  OBVIOUS
<1>4. twice \in [S -> Int]
  OBVIOUS
<1>5. back \in [S -> Int]
  OBVIOUS
<1>6. \A k \in S : twice[k] = 2 * rest[k]
  OBVIOUS
<1>7. \A k \in S : back[k] = -twice[k]
  OBVIOUS
<1>8. \A k \in S : twice[k] <= b
  OBVIOUS
<1>9. \A k \in S : back[k] <= b
  <2> SUFFICES ASSUME NEW k \in S PROVE -(2 * off[k]) <= b
    OBVIOUS
  <2>1. off[k] \in Int /\ 2 * (-off[k]) <= b
    OBVIOUS
  <2> DEFINE x == off[k]
  <2> HIDE DEF x
  <2>2. -(2 * x) = 2 * (-x)
    BY <2>1 DEF x
  <2> QED  BY <2>1, <2>2 DEF x
<1>10. off[last] \in Int
  OBVIOUS
<1> HIDE DEF S, rest, twice, back
<1>11. SumFunction(rest) \in Int
  BY <1>1, <1>3, SumType
<1>12. SumFunction(twice) = 2 * SumFunction(rest)
  <2>1. 2 \in Int
    OBVIOUS
  <2> QED  BY <1>1, <1>3, <1>4, <1>6, <2>1, SumTimes
<1>13. SumFunction(back) = -SumFunction(twice)
  BY <1>1, <1>4, <1>5, <1>7, SumNegated
<1>14. SumFunction(twice) <= b * Cardinality(S)
  BY <1>1, <1>4, <1>8, SumBounded
<1>15. SumFunction(back) <= b * Cardinality(S)
  BY <1>1, <1>5, <1>9, SumBounded
<1> DEFINE left == SumFunction(rest)
           all == b * Cardinality(S)
<1>16. left \in Int /\ 2 * left <= all /\ -(2 * left) <= all
  BY <1>11, <1>12, <1>13, <1>14, <1>15
<1>17. left = SumFunction(off) - off[last]
  BY <1>2, <1>10, <1>11
<1>18. all = b * (Cardinality(T) - 1)
  BY <1>1
<1> HIDE DEF left, all
<1>19. 2 * (-left) <= all
  BY <1>16
<1> QED  BY <1>16, <1>17, <1>18, <1>19

(* SumPlus, for a context in which the function sets would be in the way. *)
IntValued(f, S) == f \in [S -> Int]

(* The same, for such functions. *)
LEMMA SumPlusOf ==
    \A S, f, g, h : /\ IsFiniteSet(S) /\ IntValued(f, S) /\ IntValued(g, S) /\ IntValued(h, S)
                    /\ \A x \in S : h[x] = f[x] + g[x]
                    => SumFunction(h) = SumFunction(f) + SumFunction(g)
BY SumPlus DEF IntValued

(* Every PERCENT share is off by half a cent at most, the last one by half a
   cent for each of the others. *)
LEMMA PercentSharesFair ==
    ASSUME NEW m, IsFiniteSet(m), NEW a \in Int, NEW d \in Seq(Items), Accepts(m, a, "PERCENT", d),
           NEW i \in 1..Len(d)
    PROVE  LET miss == Shares(m, a, "PERCENT", d)[d[i].user] * 100000 - a * d[i].value
               slack == 100000 * (IF i < Len(d) THEN 1 ELSE Len(d) - 1)
           IN  miss \in Int /\ 2 * miss <= slack /\ 2 * (-miss) <= slack
<1> DEFINE c == 100000
           who == Participants(m, "PERCENT", d)
           share == Shares(m, a, "PERCENT", d)
           n == Len(d)
           T == 1..n
           cents == PercentCents(a, d)
           value == [k \in T |-> d[k].value]
           due == [k \in T |-> a * d[k].value]
           rounded == [k \in T |-> HalfEven(a * d[k].value, c)]
           scaled == [k \in T |-> c * rounded[k]]
           off == [k \in T |-> scaled[k] - due[k]]
<1>1. "PERCENT" \in SplitTypes
  BY DEF SplitTypes
<1>2. who = [k \in 1..n |-> d[k].user] /\ Len(who) = n /\ DOMAIN who = T
  <2>1. who = [k \in 1..Len(d) |-> d[k].user]
    BY DEF Participants
  <2> HIDE DEF who
  <2> QED  BY <2>1
<1>3. \A k \in T : share[d[k].user] = cents[k]
  <2>1. \A k \in DOMAIN who : share[who[k]] = Cents(Len(who), a, "PERCENT", d)[k]
    BY <1>1, SharesByUser
  <2>2. Cents(Len(who), a, "PERCENT", d) = cents
    BY DEF Cents
  <2> HIDE DEF who, cents, share, n
  <2> QED  BY <1>2, <2>1, <2>2
<1>4. n \in Nat /\ n # 0 /\ n \in T /\ i \in T /\ ~(n < i)
  OBVIOUS
<1>f. IsFiniteSet(T)
  BY FS_Interval
<1>g. Cardinality(T) = n
  <2>1. 1 \in Int /\ n \in Int /\ ~(1 > n) /\ n - 1 + 1 = n
    OBVIOUS
  <2> HIDE DEF n
  <2> QED  BY <2>1, FS_Interval
<1>5. c \in Nat \ {0}
  OBVIOUS
<1> HIDE DEF c
<1>6. value \in [T -> Int] /\ SumFunction(value) = c
  <2>1. \A k \in T : d[k].value \in Int
    BY ItemValue
  <2>2. TotalValue(d) = c
    BY SMT DEF Accepts, c
  <2>3. value = [k \in DOMAIN d |-> d[k].value]
    OBVIOUS
  <2> QED  BY <2>1, <2>2, <2>3 DEF TotalValue
<1>7. due \in [T -> Int] /\ \A k \in T : due[k] = a * value[k]
  BY <1>6
<1>8. /\ rounded \in [T -> Int]
      /\ \A k \in T : 2 * (rounded[k] * c - due[k]) <= c /\ -c <= 2 * (rounded[k] * c - due[k])
  <2> SUFFICES ASSUME NEW k \in T
               PROVE  /\ HalfEven(due[k], c) \in Int
                      /\ 2 * (HalfEven(due[k], c) * c - due[k]) <= c
                      /\ -c <= 2 * (HalfEven(due[k], c) * c - due[k])
    OBVIOUS
  <2> DEFINE x == due[k]
  <2>1. x \in Int
    BY <1>7
  <2> HIDE DEF x
  <2>2. /\ HalfEven(x, c) \in Int
        /\ 2 * (HalfEven(x, c) * c - x) <= c
        /\ -c <= 2 * (HalfEven(x, c) * c - x)
    BY <1>5, <2>1, HalfEvenIsClose
  <2> QED  BY <2>2 DEF x
<1>9. cents = [rounded EXCEPT ![n] = @ + a - SumFunction(rounded)]
  BY SMT DEF PercentCents, c
<1>10. due[i] = a * d[i].value
  BY <1>4
<1> HIDE DEF T
<1>11. scaled \in [T -> Int] /\ \A k \in T : scaled[k] = c * rounded[k]
  <2> HIDE DEF rounded
  <2> QED  BY <1>5, <1>8
<1>12. off \in [T -> Int]
  <2> HIDE DEF scaled, due
  <2> QED  BY <1>7, <1>11
<1>13. \A k \in T : off[k] = scaled[k] - due[k]
  <2> HIDE DEF scaled, due
  <2> QED  OBVIOUS
<1> HIDE DEF value, due, rounded, scaled, off, cents, share, who
<1>14. \A k \in T : off[k] = c * rounded[k] - due[k]
  BY <1>11, <1>13
<1>15. \A k \in T : 2 * off[k] <= c /\ 2 * (-off[k]) <= c
  <2> SUFFICES ASSUME NEW k \in T PROVE 2 * off[k] <= c /\ 2 * (-off[k]) <= c
    OBVIOUS
  <2> DEFINE x == off[k]
             y == rounded[k] * c
             z == due[k]
  <2>1. /\ y \in Int /\ z \in Int
    BY <1>5, <1>7, <1>8
  <2>2. x = y - z
    <3>1. rounded[k] \in Int
      BY <1>8
    <3>2. c * rounded[k] = rounded[k] * c
      BY <1>5, <3>1
    <3> QED  BY <1>14, <3>2
  <2>3. 2 * (y - z) <= c /\ -c <= 2 * (y - z)
    BY <1>8
  <2> HIDE DEF x, y, z
  <2>4. 2 * x <= c /\ 2 * (-x) <= c
    BY <1>5, <2>1, <2>2, <2>3
  <2> QED  BY <2>4 DEF x
<1> DEFINE all == SumFunction(rounded)
           left == SumFunction(off) - off[n]
<1>16. all \in Int
  BY <1>f, <1>8, SumType
<1>17. SumFunction(off) = c * all - c * a
  <2>a. value \in [T -> Int]
    BY <1>6
  <2>b. due \in [T -> Int]
    BY <1>7
  <2>c. rounded \in [T -> Int]
    BY <1>8
  <2>d. scaled \in [T -> Int]
    BY <1>11
  <2>e. \A k \in T : due[k] = a * value[k]
    BY <1>7
  <2>f. \A k \in T : scaled[k] = c * rounded[k]
    BY <1>11
  <2>1. SumFunction(scaled) = c * SumFunction(rounded)
    BY <1>f, <1>5, <2>c, <2>d, <2>f, SumTimes
  <2>2. SumFunction(due) = a * SumFunction(value)
    BY <1>f, <2>a, <2>b, <2>e, SumTimes
  <2>3. SumFunction(off) = SumFunction(scaled) - SumFunction(due)
    <3>1. \A k \in T : scaled[k] = off[k] + due[k]
      BY <1>12, <1>13, <2>b, <2>d
    <3>2. SumFunction(scaled) = SumFunction(off) + SumFunction(due)
      <4>1. IntValued(off, T) /\ IntValued(due, T) /\ IntValued(scaled, T)
        BY <1>12, <2>b, <2>d DEF IntValued
      <4> QED  BY <1>f, <3>1, <4>1, SumPlusOf
    <3>3. SumFunction(off) \in Int /\ SumFunction(due) \in Int
      BY <1>f, <1>12, <2>b, SumType
    <3> QED  BY <3>2, <3>3
  <2>4. SumFunction(due) = c * a
    BY <1>5, <1>6, <2>2
  <2> QED  BY <2>1, <2>3, <2>4
<1>18. left \in Int /\ 2 * left <= c * (n - 1) /\ 2 * (-left) <= c * (n - 1)
  <2>1. n \in T /\ c \in Int
    BY <1>4, <1>5
  <2>2. /\ left \in Int
        /\ 2 * left <= c * (Cardinality(T) - 1)
        /\ 2 * (-left) <= c * (Cardinality(T) - 1)
    <3> HIDE DEF n
    <3> QED  BY <1>f, <1>12, <1>15, <2>1, AllButOneOff
  <2> QED  BY <1>g, <2>2
<1>19. \A k \in T \ {n} : cents[k] = rounded[k]
  BY <1>8, <1>9
<1>20. cents[n] = rounded[n] + a - all
  BY <1>4, <1>8, <1>9
<1> DEFINE miss == share[d[i].user] * c - due[i]
<1>21. rounded[i] \in Int /\ due[i] \in Int /\ off[i] \in Int
  BY <1>4, <1>7, <1>8, <1>12
<1>22. CASE i # n
  <2>1. cents[i] = rounded[i]
    BY <1>4, <1>19, <1>22
  <2>2. miss = off[i]
    <3>1. miss = rounded[i] * c - due[i]
      BY <1>3, <1>4, <2>1
    <3>2. off[i] = c * rounded[i] - due[i]
      BY <1>4, <1>14
    <3> HIDE DEF miss
    <3> QED  BY <1>5, <1>21, <3>1, <3>2
  <2>3. i < n
    BY <1>4, <1>22
  <2>4. miss \in Int /\ 2 * miss <= c * 1 /\ 2 * (-miss) <= c * 1
    BY <1>4, <1>5, <1>15, <1>21, <2>2
  <2> HIDE DEF miss
  <2>5. c * (IF i < n THEN 1 ELSE n - 1) = c * 1
    BY <2>3
  <2> HIDE DEF n
  <2> QED  BY <1>10, <2>4, <2>5, SMT DEF miss, share, n, c
<1>23. CASE i = n
  <2>1. miss = (rounded[i] + a - all) * c - due[i]
    BY <1>3, <1>4, <1>20, <1>23
  <2>2. off[i] = c * rounded[i] - due[i]
    BY <1>4, <1>14
  <2>3. off[i] + left = c * all - c * a
    <3>1. SumFunction(off) \in Int
      BY <1>f, <1>12, SumType
    <3>2. left = SumFunction(off) - off[i]
      BY <1>23
    <3> HIDE DEF left
    <3>3. off[i] + left = SumFunction(off)
      BY <1>21, <3>1, <3>2
    <3> QED  BY <1>17, <3>3
  <2> DEFINE x == rounded[i]
             y == due[i]
             z == off[i]
  <2>a. x \in Int /\ y \in Int /\ z \in Int /\ left \in Int
    BY <1>18, <1>21
  <2> HIDE DEF miss, all, left, x, y, z
  <2>b. miss = (x + a - all) * c - y /\ z = c * x - y /\ z + left = c * all - c * a
    BY <2>1, <2>2, <2>3 DEF x, y, z
  <2>4. miss = -left
    BY <1>5, <1>16, <2>a, <2>b
  <2>5. miss \in Int /\ 2 * miss <= c * (n - 1) /\ 2 * (-miss) <= c * (n - 1)
    BY <1>18, <2>4
  <2>6. c * (IF i < n THEN 1 ELSE n - 1) = c * (n - 1)
    BY <1>4, <1>23
  <2> HIDE DEF n
  <2> QED  BY <1>10, <2>5, <2>6, SMT DEF miss, share, n, c
<1> QED  BY <1>22, <1>23

(* The split stored with an accepted request names the same users in the same
   order, whoever has joined, and asks for the same cents. *)
LEMMA StoredSplitSame ==
    ASSUME NEW m, IsFiniteSet(m), m \subseteq Nat, NEW later, m \subseteq later,
           NEW a \in Int, NEW t \in SplitTypes, NEW d \in Seq(Items), Accepts(m, a, t, d)
    PROVE  LET stored == StoredSplit(m, t, d)
           IN  /\ Accepts(later, a, t, stored)
               /\ Shares(later, a, t, stored) = Shares(m, a, t, d)
<1> DEFINE who == Participants(m, t, d)
           stored == StoredSplit(m, t, d)
<1>1. /\ a > 0 /\ who # << >> /\ IsInjective(who) /\ Range(who) \subseteq m
      /\ \A i \in DOMAIN d : d[i].user \in Nat
  BY DEF Accepts
<1>2. CASE d # << >>
  <2>1. stored = d
    BY <1>2 DEF StoredSplit
  <2>2. Participants(later, t, d) = who
    BY <1>2 DEF Participants
  <2>3. Range(who) \subseteq later
    BY <1>1
  <2>4. Accepts(later, a, t, d)
    BY <2>2, <2>3 DEF Accepts
  <2>5. Shares(later, a, t, d) = Shares(m, a, t, d)
    BY <2>2 DEF Shares
  <2> HIDE DEF stored
  <2> QED  BY <2>1, <2>4, <2>5 DEF stored
<1>3. CASE d = << >>
  <2>1. t = "EQUAL"
    <3>1. SUFFICES ASSUME t # "EQUAL" PROVE FALSE
      OBVIOUS
    <3>2. who = [i \in DOMAIN d |-> d[i].user]
      BY <3>1 DEF Participants
    <3>3. [i \in DOMAIN d |-> d[i].user] = << >>
      BY <1>3
    <3> QED  BY <1>1, <3>2, <3>3
  <2>2. stored = [i \in DOMAIN who |-> Item(who[i], "id", 0)]
    BY <1>3 DEF StoredSplit
  <2>3. Len(who) \in Nat /\ DOMAIN who = 1..Len(who)
    BY ParticipantsCounted
  <2>4. who = [i \in DOMAIN who |-> who[i]]
    <3>1. who = InOrder(m)
      BY <1>3, <2>1 DEF Participants
    <3> QED  BY <3>1 DEF InOrder
  <2> HIDE DEF who, stored
  <2>5. DOMAIN stored = DOMAIN who /\ \A i \in DOMAIN who : stored[i].user = who[i]
    BY <2>2 DEF Item
  <2>6. stored # << >>
    <3>1. SUFFICES ASSUME stored = << >> PROVE FALSE
      OBVIOUS
    <3>2. DOMAIN who = {}
      BY <2>5, <3>1
    <3>3. who = << >>
      BY <2>4, <3>2
    <3> QED  BY <1>1, <3>3
  <2>7. Participants(later, t, stored) = who
    <3>1. Participants(later, t, stored) = [i \in DOMAIN stored |-> stored[i].user]
      BY <2>6 DEF Participants
    <3> QED  BY <2>4, <2>5, <3>1
  <2>8. \A i \in DOMAIN who : who[i] \in Nat
    BY <1>1 DEF Range
  <2>9. Accepts(later, a, t, stored)
    <3>1. Range(who) \subseteq later
      BY <1>1
    <3>2. \A i \in DOMAIN stored : stored[i].user \in Nat
      BY <2>5, <2>8
    <3>3. t # "EXACT" /\ t # "PERCENT"
      BY <2>1
    <3> HIDE DEF who, stored
    <3>4. LET w == Participants(later, t, stored)
          IN  a > 0 /\ w # << >> /\ IsInjective(w) /\ Range(w) \subseteq later
      BY <1>1, <2>7, <3>1
    <3> QED  BY <3>2, <3>3, <3>4 DEF Accepts
  <2>10. Cents(Len(who), a, t, stored) = Cents(Len(who), a, t, d)
    BY <2>1 DEF Cents
  <2>11. Shares(later, a, t, stored) = Shares(m, a, t, d)
    BY <2>7, <2>10 DEF Shares, who
  <2> QED  BY <2>9, <2>11 DEF stored
<1> QED  BY <1>2, <1>3

-----------------------------------------------------------------------------
(* What is true of every call and of its answer. *)
Answered ==
    /\ call \in Calls
    /\ Accepted => /\ Accepts(Members, call.amount, call.type, call.data)
                   /\ answer = Shares(Members, call.amount, call.type, call.data)

(* A call that was answered was answered so. *)
LEMMA AnsweredAlways == SplitSpec => []Answered
<1>1. SplitInit => Answered
  BY DEF SplitInit, Answered, Accepted
<1>2. ASSUME Answered, [SplitNext]_<<call, status, answer>>
      PROVE  Answered'
  <2>1. CASE Accept
    BY <1>2, <2>1 DEF Answered, Accepted, Accept
  <2>2. CASE Refuse
    BY <1>2, <2>2 DEF Answered, Accepted, Refuse
  <2>3. CASE UNCHANGED <<call, status, answer>>
    BY <1>2, <2>3 DEF Answered, Accepted
  <2> QED  BY <1>2, <2>1, <2>2, <2>3 DEF SplitNext
<1> QED  BY <1>1, <1>2, PTL DEF SplitSpec

(* What a call asks. *)
LEMMA CallType ==
    ASSUME call \in Calls
    PROVE  call.amount \in Int /\ call.type \in SplitTypes /\ call.data \in Seq(Items)
BY SplitConstants

(* Nobody but a current member is ever given a share. *)
LEMMA SharesGoToMembers ==
    ASSUME NEW m, NEW a, NEW t, NEW d, Accepts(m, a, t, d)
    PROVE  DOMAIN Shares(m, a, t, d) \subseteq m
BY DEF Shares, Accepts

(* Every accepted split hands out the amount, to the cent, to members only, and
   no negative EQUAL or EXACT share: calculate_expense_shares for any group and
   any request. *)
THEOREM SharesAlwaysAddUp == SplitSpec => []SharesAddUp
<1>1. Answered => SharesAddUp
  <2> SUFFICES ASSUME Answered, Accepted PROVE SharesAddUp
    BY DEF SharesAddUp
  <2> DEFINE a == call.amount
             t == call.type
             d == call.data
  <2>1. a \in Int /\ t \in SplitTypes /\ d \in Seq(Items)
    BY CallType DEF Answered
  <2>2. Accepts(Members, a, t, d) /\ answer = Shares(Members, a, t, d) /\ IsFiniteSet(Members)
    BY SplitConstants DEF Answered
  <2> HIDE DEF a, t, d
  <2>3. /\ SumFunction(answer) = a
        /\ t # "PERCENT" => \A u \in DOMAIN answer : answer[u] >= 0
    BY <2>1, <2>2, SharesAddUpToAmount
  <2>4. DOMAIN answer \subseteq Members
    BY <2>2, SharesGoToMembers
  <2> QED  BY <2>3, <2>4 DEF SharesAddUp, a, t
<1> QED  BY <1>1, AnsweredAlways, PTL

(* Rounding is fair for any group and any request: EQUAL shares are a cent apart
   at most, the extra cents first, and a PERCENT share misses its percentage by
   half a cent, the last one by half a cent for each of the others. *)
THEOREM RoundingIsAlwaysFair == SplitSpec => []RoundingIsFair
<1>1. Answered => RoundingIsFair
  <2> SUFFICES ASSUME Answered, Accepted PROVE RoundingIsFair
    BY DEF RoundingIsFair
  <2> DEFINE a == call.amount
             t == call.type
             d == call.data
  <2>1. a \in Int /\ t \in SplitTypes /\ d \in Seq(Items)
    BY CallType DEF Answered
  <2>2. Accepts(Members, a, t, d) /\ answer = Shares(Members, a, t, d) /\ IsFiniteSet(Members)
    BY SplitConstants DEF Answered
  <2>3. CASE t = "EQUAL"
    <3> DEFINE who == Participants(Members, "EQUAL", d)
    <3> HIDE DEF a, d
    <3>1. \A i, j \in DOMAIN who : i < j => answer[who[i]] - answer[who[j]] \in {0, 1}
      <4>1. Accepts(Members, a, "EQUAL", d) /\ answer = Shares(Members, a, "EQUAL", d)
        BY <2>2, <2>3
      <4> QED  BY <2>1, <2>2, <4>1, EqualSharesFair
    <3> QED  BY <2>3, <3>1 DEF RoundingIsFair, d
  <2>4. CASE t = "PERCENT"
    <3>1. SUFFICES ASSUME NEW i \in 1..Len(d)
                   PROVE  2 * AbsError(i) <= 100000 * (IF i < Len(d) THEN 1 ELSE Len(d) - 1)
      BY <2>4 DEF RoundingIsFair
    <3> DEFINE miss == Error(i)
               slack == 100000 * (IF i < Len(d) THEN 1 ELSE Len(d) - 1)
    <3>2. miss = answer[d[i].user] * 100000 - a * d[i].value
      BY DEF Error
    <3> HIDE DEF a, d
    <3>3. Accepts(Members, a, "PERCENT", d) /\ answer = Shares(Members, a, "PERCENT", d)
      BY <2>2, <2>4
    <3>4. miss \in Int /\ 2 * miss <= slack /\ 2 * (-miss) <= slack
      BY <2>1, <2>2, <3>2, <3>3, PercentSharesFair, SMT
    <3>5. AbsError(i) = IF miss < 0 THEN -miss ELSE miss
      BY DEF AbsError
    <3> HIDE DEF miss, slack
    <3>6. 2 * AbsError(i) <= slack
      BY <3>4, <3>5
    <3> QED  BY <3>6, SMT DEF slack
  <2>5. CASE t # "EQUAL" /\ t # "PERCENT"
    BY <2>5 DEF RoundingIsFair
  <2> QED  BY <2>3, <2>4, <2>5
<1> QED  BY <1>1, AnsweredAlways, PTL

(* Replaying a stored split charges the same users the same cents, whoever has
   joined: an edit of the amount alone relies on it (update_group_expense). *)
THEOREM StoredSplitAlwaysReplays == SplitSpec => []StoredSplitReplays
<1>1. Answered => StoredSplitReplays
  <2> SUFFICES ASSUME Answered, Accepted, NEW joined \in SUBSET Outsiders
               PROVE  LET stored == StoredSplit(Members, call.type, call.data)
                          later == Members \union joined
                      IN  /\ Accepts(later, call.amount, call.type, stored)
                          /\ Shares(later, call.amount, call.type, stored) = answer
    BY DEF StoredSplitReplays
  <2> DEFINE a == call.amount
             t == call.type
             d == call.data
  <2>1. a \in Int /\ t \in SplitTypes /\ d \in Seq(Items)
    BY CallType DEF Answered
  <2>2. Accepts(Members, a, t, d) /\ answer = Shares(Members, a, t, d)
    BY DEF Answered
  <2>3. IsFiniteSet(Members) /\ Members \subseteq Nat
    BY SplitConstants
  <2> HIDE DEF a, t, d
  <2> DEFINE later == Members \union joined
  <2>a. Members \subseteq later
    OBVIOUS
  <2> HIDE DEF later
  <2>4. /\ Accepts(later, a, t, StoredSplit(Members, t, d))
        /\ Shares(later, a, t, StoredSplit(Members, t, d)) = answer
    <3>1. LET stored == StoredSplit(Members, t, d)
          IN  /\ Accepts(later, a, t, stored)
              /\ Shares(later, a, t, stored) = Shares(Members, a, t, d)
      BY <2>1, <2>2, <2>3, <2>a, StoredSplitSame
    <3> QED  BY <2>2, <3>1
  <2> QED  BY <2>4 DEF a, t, d, later
<1> QED  BY <1>1, AnsweredAlways, PTL

-----------------------------------------------------------------------------
(* Suggested settlements: _match_debts. *)

(* The entries of a plan, what is left when nothing more is suggested, and the
   balances after the first match. *)
Entries == [from : Users, to : Users, amount : Int]

Done(b) == Debtors(b) = {} \/ Creditors(b) = {}

After(b) == Settled(b, TopMatch(b).from, TopMatch(b).to, TopMatch(b).amount)

(* The users who still take part. *)
Active(b) == Debtors(b) \union Creditors(b)

(* The largest of a pool is one of it. *)
LEMMA LargestIsMember ==
    ASSUME NEW b \in Balances, NEW pool \in SUBSET Users, pool # {}
    PROVE  Largest(pool, b) \in pool
<1> DEFINE Leads(u, v) == \/ Abs(b[v]) < Abs(b[u])
                          \/ Abs(b[v]) = Abs(b[u]) /\ v <= u
           Good == {T \in SUBSET pool : T = {} \/ \E u \in T : \A v \in T : Leads(u, v)}
<1>1. \A u \in Users : u \in Int /\ Abs(b[u]) \in Int
  BY UserIds DEF Balances, Abs
<1>2. \A u, v \in Users : Leads(u, v) \/ Leads(v, u)
  BY <1>1
<1>3. \A u, v, w \in Users : Leads(u, v) /\ Leads(v, w) => Leads(u, w)
  BY <1>1
<1> HIDE DEF Leads
<1>4. IsFiniteSet(pool)
  BY UserIds, FS_Subset
<1>5. {} \in Good
  OBVIOUS
<1>6. ASSUME NEW T \in SUBSET pool, NEW x \in pool, T \in Good, x \notin T
      PROVE  T \union {x} \in Good
  <2>1. Leads(x, x)
    BY <1>2
  <2>2. CASE T = {}
    BY <2>1, <2>2
  <2>3. CASE T # {}
    <3>1. PICK u \in T : \A v \in T : Leads(u, v)
      BY <1>6, <2>3
    <3>2. CASE Leads(u, x)
      BY <3>1, <3>2
    <3>3. CASE Leads(x, u)
      <4>1. \A v \in T : Leads(x, v)
        BY <1>3, <3>1, <3>3
      <4> QED  BY <2>1, <4>1
    <3> QED  BY <1>2, <3>2, <3>3
  <2> QED  BY <2>2, <2>3
<1> HIDE DEF Good
<1>7. pool \in Good
  BY <1>4, <1>5, <1>6, ElementInduction
<1>8. \E u \in pool : \A v \in pool : Leads(u, v)
  BY <1>7 DEF Good
<1> QED  BY <1>8 DEF Largest, Leads

(* The first match pairs a debtor with a creditor, for the smaller of the debt
   and the credit. *)
LEMMA TopMatchFacts ==
    ASSUME NEW b \in Balances, ~Done(b)
    PROVE  LET m == TopMatch(b)
           IN  /\ m \in Entries
               /\ m.from \in Debtors(b) /\ m.to \in Creditors(b) /\ m.from # m.to
               /\ 0 < m.amount /\ m.amount <= -b[m.from] /\ m.amount <= b[m.to]
               /\ m.amount = -b[m.from] \/ m.amount = b[m.to]
<1> DEFINE d == Largest(Debtors(b), b)
           c == Largest(Creditors(b), b)
           a == Smaller(Abs(b[d]), b[c])
<1>1. d \in Debtors(b) /\ c \in Creditors(b)
  BY LargestIsMember DEF Done, Debtors, Creditors
<1>2. TopMatch(b) = [from |-> d, to |-> c, amount |-> a]
  BY DEF TopMatch
<1> HIDE DEF d, c
<1>3. /\ d \in Users /\ c \in Users /\ b[d] \in Int /\ b[c] \in Int
      /\ b[d] < -1 /\ b[c] > 1
  BY <1>1 DEF Debtors, Creditors, Balances
<1>4. a \in Int /\ 0 < a /\ a <= -b[d] /\ a <= b[c] /\ (a = -b[d] \/ a = b[c]) /\ d # c
  BY <1>3 DEF Smaller, Abs
<1> HIDE DEF a
<1>5. TopMatch(b) \in Entries
  BY <1>2, <1>3, <1>4 DEF Entries
<1> QED  BY <1>1, <1>2, <1>4, <1>5

(* After it the debts and the credits are smaller, and one of the two is gone. *)
LEMMA AfterFacts ==
    ASSUME NEW b \in Balances, ~Done(b)
    PROVE  LET m == TopMatch(b)
               next == After(b)
           IN  /\ next \in Balances
               /\ next[m.from] = b[m.from] + m.amount
               /\ next[m.to] = b[m.to] - m.amount
               /\ \A u \in Users : u # m.from /\ u # m.to => next[u] = b[u]
               /\ Debtors(next) \subseteq Debtors(b)
               /\ Creditors(next) \subseteq Creditors(b)
               /\ m.from \notin Debtors(next) \/ m.to \notin Creditors(next)
<1> DEFINE m == TopMatch(b)
           d == m.from
           c == m.to
           a == m.amount
           next == After(b)
<1>1. /\ d \in Debtors(b) /\ c \in Creditors(b) /\ d # c /\ d \in Users /\ c \in Users
      /\ a \in Int /\ 0 < a /\ a <= -b[d] /\ a <= b[c] /\ (a = -b[d] \/ a = b[c])
  BY TopMatchFacts DEF Entries
<1>2. next = [b EXCEPT ![d] = @ + a, ![c] = @ - a]
  BY DEF After, Settled
<1> HIDE DEF m
<1>3. b \in [Users -> Int] /\ b[d] < -1 /\ b[c] > 1
  BY <1>1 DEF Balances, Debtors, Creditors
<1> HIDE DEF d, c, a, next
<1>4. next[d] = b[d] + a /\ next[c] = b[c] - a
  BY <1>1, <1>2, <1>3
<1>5. \A u \in Users : u # d /\ u # c => next[u] = b[u]
  BY <1>1, <1>2, <1>3
<1>6. next \in [Users -> Int]
  BY <1>1, <1>2, <1>3
<1>7. \A u \in Users : next[u] < -1 => b[u] < -1
  BY <1>1, <1>3, <1>4, <1>5
<1>8. \A u \in Users : next[u] > 1 => b[u] > 1
  BY <1>1, <1>3, <1>4, <1>5
<1>9. ~(next[d] < -1) \/ ~(next[c] > 1)
  BY <1>1, <1>3, <1>4
<1>10. /\ Debtors(next) \subseteq Debtors(b) /\ Creditors(next) \subseteq Creditors(b)
       /\ d \notin Debtors(next) \/ c \notin Creditors(next)
  BY <1>7, <1>8, <1>9 DEF Debtors, Creditors
<1>11. next \in Balances
  BY <1>6 DEF Balances
<1> QED  BY <1>4, <1>5, <1>10, <1>11 DEF m, d, c, a, next

(* Each match takes a user out, and there is none with fewer than two. *)
LEMMA FewerActive ==
    ASSUME NEW b \in Balances
    PROVE  /\ IsFiniteSet(Active(b)) /\ Cardinality(Active(b)) \in Nat
           /\ Cardinality(Active(b)) <= Cardinality(Users)
           /\ ~Done(b) => /\ Cardinality(Active(After(b))) \in Nat
                          /\ Cardinality(Active(After(b))) < Cardinality(Active(b))
                          /\ Cardinality(Active(b)) >= 2
<1>1. Active(b) \subseteq Users
  BY DEF Active, Debtors, Creditors
<1>2. IsFiniteSet(Active(b)) /\ Cardinality(Active(b)) \in Nat /\ Cardinality(Active(b)) <= Cardinality(Users)
  BY <1>1, UserIds, FS_Subset, FS_CardinalityType
<1>3. ASSUME ~Done(b)
      PROVE  /\ Cardinality(Active(After(b))) \in Nat
             /\ Cardinality(Active(After(b))) < Cardinality(Active(b))
             /\ Cardinality(Active(b)) >= 2
  <2> DEFINE m == TopMatch(b)
             next == After(b)
  <2>1. m.from \in Debtors(b) /\ m.to \in Creditors(b) /\ m.from # m.to
    BY <1>3, TopMatchFacts
  <2>2. /\ next \in Balances
        /\ Debtors(next) \subseteq Debtors(b) /\ Creditors(next) \subseteq Creditors(b)
        /\ m.from \notin Debtors(next) \/ m.to \notin Creditors(next)
    BY <1>3, AfterFacts
  <2> HIDE DEF m, next
  <2>3. Debtors(b) \intersect Creditors(b) = {}
    BY DEF Debtors, Creditors, Balances
  <2>4. Active(next) \subseteq Active(b) /\ Active(next) # Active(b)
    BY <2>1, <2>2, <2>3 DEF Active
  <2>5. Cardinality(Active(next)) \in Nat /\ Cardinality(Active(next)) < Cardinality(Active(b))
    BY <1>2, <2>4, FS_Subset, FS_CardinalityType
  <2>6. {m.from, m.to} \subseteq Active(b)
    BY <2>1 DEF Active
  <2>7. Cardinality({m.from, m.to}) = 2
    <3>1. IsFiniteSet({m.from}) /\ Cardinality({m.from}) = 1
      BY FS_Singleton
    <3>2. Cardinality({m.from} \union {m.to}) = 2
      BY <2>1, <3>1, FS_AddElement
    <3>3. {m.from} \union {m.to} = {m.from, m.to}
      OBVIOUS
    <3> QED  BY <3>2, <3>3
  <2>8. Cardinality(Active(b)) >= 2
    BY <1>2, <2>6, <2>7, FS_Subset
  <2> QED  BY <2>5, <2>8 DEF next
<1> QED  BY <1>2, <1>3

(* MatchDebts exists: it is built one match at a time, first for the balances
   with few active users, then for all.  Plans(f, k) is its equation, where
   fewer than k users are active. *)
Level(k) == {b \in Balances : Cardinality(Active(b)) < k}

Plans(f, k) ==
    f = [b \in Level(k) |-> IF Done(b) THEN << >> ELSE <<TopMatch(b)>> \o f[After(b)]]

(* For as many matches as there are users, the recursion has a value. *)
LEMMA PlansExist ==
    ASSUME NEW n \in Nat
    PROVE  \E f : Plans(f, n)
<1> DEFINE Good == {k \in Nat : \E f : Plans(f, k)}
<1>1. ASSUME NEW k \in Nat, \A j \in Nat : j < k => j \in Good
      PROVE  k \in Good
  <2>1. CASE k = 0
    <3>1. Level(k) = {}
      BY <2>1, FewerActive DEF Level
    <3> DEFINE f == [b \in Level(k) |-> << >>]
    <3>2. f = [b \in Level(k) |-> IF Done(b) THEN << >> ELSE <<TopMatch(b)>> \o f[After(b)]]
      BY <3>1
    <3>3. Plans(f, k)
      BY <3>2 DEF Plans
    <3> HIDE DEF f
    <3> QED  BY <3>3
  <2>2. CASE k # 0
    <3> DEFINE j == k - 1
    <3>1. j \in Nat /\ j < k
      BY <2>2
    <3>2. PICK f : Plans(f, j)
      BY <1>1, <3>1
    <3> DEFINE g == [b \in Level(k) |-> IF Done(b) THEN << >> ELSE <<TopMatch(b)>> \o f[After(b)]]
    <3>3. \A b \in Level(k) : ~Done(b) => After(b) \in Level(j)
      <4> SUFFICES ASSUME NEW b \in Level(k), ~Done(b) PROVE After(b) \in Level(j)
        OBVIOUS
      <4>1. b \in Balances /\ Cardinality(Active(b)) < k
        BY DEF Level
      <4>2. After(b) \in Balances
        BY <4>1, AfterFacts
      <4>3. /\ Cardinality(Active(b)) \in Nat /\ Cardinality(Active(After(b))) \in Nat
            /\ Cardinality(Active(After(b))) < Cardinality(Active(b))
        BY <4>1, FewerActive
      <4>4. Cardinality(Active(After(b))) < j
        BY <4>1, <4>3
      <4> QED  BY <4>2, <4>4 DEF Level
    <3>4. Level(j) \subseteq Level(k)
      <4> SUFFICES ASSUME NEW b \in Level(j) PROVE b \in Level(k)
        OBVIOUS
      <4>1. b \in Balances /\ Cardinality(Active(b)) < j /\ Cardinality(Active(b)) \in Nat
        BY FewerActive DEF Level
      <4> QED  BY <3>1, <4>1 DEF Level
    <3>5. \A b \in Level(j) : f[b] = g[b]
      <4>1. f = [b \in Level(j) |-> IF Done(b) THEN << >> ELSE <<TopMatch(b)>> \o f[After(b)]]
        BY <3>2 DEF Plans
      <4> QED  BY <3>4, <4>1
    <3>6. \A b \in Level(k) : g[b] = IF Done(b) THEN << >> ELSE <<TopMatch(b)>> \o g[After(b)]
      BY <3>3, <3>5
    <3>7. g = [b \in Level(k) |-> IF Done(b) THEN << >> ELSE <<TopMatch(b)>> \o g[After(b)]]
      <4>1. g = [b \in Level(k) |-> g[b]]
        OBVIOUS
      <4> HIDE DEF g
      <4> QED  BY <3>6, <4>1
    <3>8. Plans(g, k)
      BY <3>7 DEF Plans
    <3> HIDE DEF g
    <3> QED  BY <3>8
  <2> QED  BY <2>1, <2>2
<1> HIDE DEF Good
<1>2. Nat \subseteq Good
  BY <1>1, StrongInduction
<1> QED  BY <1>2 DEF Good

(* One round of the loop, then the rest. *)
LEMMA MatchDebtsStep ==
    ASSUME NEW b \in Balances
    PROVE  MatchDebts[b] = IF Done(b) THEN << >> ELSE <<TopMatch(b)>> \o MatchDebts[After(b)]
<1> DEFINE n == Cardinality(Users) + 1
           Is(f) == f = [c \in Balances |->
                            IF Debtors(c) = {} \/ Creditors(c) = {}
                            THEN << >>
                            ELSE LET m == TopMatch(c)
                                 IN  <<m>> \o f[Settled(c, m.from, m.to, m.amount)]]
<1>1. n \in Nat
  BY UserIds, FS_CardinalityType
<1>2. Level(n) = Balances
  <2>1. \A c \in Balances : Cardinality(Active(c)) < n
    <3> SUFFICES ASSUME NEW c \in Balances PROVE Cardinality(Active(c)) < n
      OBVIOUS
    <3>1. Cardinality(Active(c)) \in Nat /\ Cardinality(Active(c)) <= Cardinality(Users)
      BY FewerActive
    <3>2. Cardinality(Users) \in Nat
      BY UserIds, FS_CardinalityType
    <3> QED  BY <3>1, <3>2
  <2> QED  BY <2>1 DEF Level
<1>3. PICK f : Plans(f, n)
  BY <1>1, PlansExist
<1>4. Is(f)
  BY <1>2, <1>3 DEF Plans, Done, After
<1>5. Is(CHOOSE g : Is(g))
  <2> HIDE DEF Is
  <2> QED  BY <1>4
<1>6. MatchDebts = CHOOSE g : Is(g)
  BY DEF MatchDebts
<1>7. Is(MatchDebts)
  <2> HIDE DEF Is
  <2> QED  BY <1>5, <1>6
<1> QED  BY <1>7 DEF Done, After

(* What holds of balances that are done, and of those one match earlier, holds
   of all. *)
LEMMA MatchInduction ==
    ASSUME NEW Good, \A b \in Balances : (Done(b) \/ After(b) \in Good) => b \in Good
    PROVE  Balances \subseteq Good
<1> DEFINE Fine == {n \in Nat : \A b \in Balances : Cardinality(Active(b)) = n => b \in Good}
<1>1. ASSUME NEW n \in Nat, \A k \in Nat : k < n => k \in Fine
      PROVE  n \in Fine
  <2> SUFFICES ASSUME NEW b \in Balances, Cardinality(Active(b)) = n, ~Done(b)
               PROVE  After(b) \in Good
    OBVIOUS
  <2>1. After(b) \in Balances
    BY AfterFacts
  <2>2. Cardinality(Active(After(b))) \in Nat /\ Cardinality(Active(After(b))) < n
    BY FewerActive
  <2> QED  BY <1>1, <2>1, <2>2
<1> HIDE DEF Fine
<1>2. Nat \subseteq Fine
  BY <1>1, StrongInduction
<1>3. \A b \in Balances : Cardinality(Active(b)) \in Nat
  BY FewerActive
<1> QED  BY <1>2, <1>3 DEF Fine

(* A list with an element before it. *)
LEMMA ConsFacts ==
    ASSUME NEW E, NEW m \in E, NEW rest \in Seq(E)
    PROVE  LET list == <<m>> \o rest
           IN  /\ list \in Seq(E)
               /\ Len(list) = Len(rest) + 1
               /\ DOMAIN list = 1..(Len(rest) + 1)
               /\ DOMAIN rest = 1..Len(rest)
               /\ Len(rest) \in Nat
               /\ list[1] = m
               /\ \A i \in 1..Len(rest) : list[i + 1] = rest[i]
               /\ \A i \in DOMAIN list : i = 1 \/ (i - 1 \in DOMAIN rest /\ list[i] = rest[i - 1])
OBVIOUS

(* A plan is a list of payments between users. *)
LEMMA PlanType == \A b \in Balances : MatchDebts[b] \in Seq(Entries)
<1> DEFINE Good == {b \in Balances : MatchDebts[b] \in Seq(Entries)}
<1>1. ASSUME NEW b \in Balances, Done(b) \/ After(b) \in Good
      PROVE  b \in Good
  <2>1. CASE Done(b)
    <3>1. MatchDebts[b] = << >>
      BY <2>1, MatchDebtsStep
    <3>2. << >> \in Seq(Entries)
      OBVIOUS
    <3>3. MatchDebts[b] \in Seq(Entries)
      BY <3>1, <3>2, Zenon
    <3> QED  BY <3>3, Zenon
  <2>2. CASE ~Done(b)
    <3>1. MatchDebts[b] = <<TopMatch(b)>> \o MatchDebts[After(b)]
      BY <2>2, MatchDebtsStep
    <3>2. TopMatch(b) \in Entries /\ MatchDebts[After(b)] \in Seq(Entries)
      BY <1>1, <2>2, TopMatchFacts
    <3> DEFINE m == TopMatch(b)
               rest == MatchDebts[After(b)]
    <3> HIDE DEF m, rest
    <3>3. <<m>> \o rest \in Seq(Entries)
      <4>1. m \in Entries /\ rest \in Seq(Entries)
        BY <3>2 DEF m, rest
      <4> QED  BY <4>1, ConsFacts
    <3> QED  BY <3>1, <3>3 DEF m, rest
  <2> QED  BY <2>1, <2>2
<1> HIDE DEF Good
<1>2. Balances \subseteq Good
  BY <1>1, MatchInduction
<1> QED  BY <1>2 DEF Good

(* A round of the loop, in the form the proofs below use. *)
LEMMA PlanStep ==
    ASSUME NEW b \in Balances, ~Done(b)
    PROVE  LET list == MatchDebts[b]
               rest == MatchDebts[After(b)]
           IN  /\ list = <<TopMatch(b)>> \o rest
               /\ rest \in Seq(Entries)
               /\ Len(rest) \in Nat /\ Len(list) = Len(rest) + 1
               /\ DOMAIN list = 1..(Len(rest) + 1) /\ DOMAIN rest = 1..Len(rest)
               /\ list[1] = TopMatch(b)
               /\ \A i \in 1..Len(rest) : list[i + 1] = rest[i]
               /\ \A i \in DOMAIN list : i = 1 \/ (i - 1 \in DOMAIN rest /\ list[i] = rest[i - 1])
<1> DEFINE m == TopMatch(b)
           rest == MatchDebts[After(b)]
<1>1. MatchDebts[b] = <<m>> \o rest
  BY MatchDebtsStep
<1>2. m \in Entries
  BY TopMatchFacts
<1>3. After(b) \in Balances
  BY AfterFacts
<1>4. rest \in Seq(Entries)
  BY <1>3, PlanType
<1> HIDE DEF m, rest
<1> DEFINE list == <<m>> \o rest
<1>5. /\ Len(list) = Len(rest) + 1
      /\ DOMAIN list = 1..(Len(rest) + 1) /\ DOMAIN rest = 1..Len(rest) /\ Len(rest) \in Nat
      /\ list[1] = m
      /\ \A i \in 1..Len(rest) : list[i + 1] = rest[i]
      /\ \A i \in DOMAIN list : i = 1 \/ (i - 1 \in DOMAIN rest /\ list[i] = rest[i - 1])
  BY <1>2, <1>4, ConsFacts
<1>6. MatchDebts[b] = list
  BY <1>1
<1> HIDE DEF list
<1> QED  BY <1>1, <1>4, <1>5, <1>6 DEF m, rest

(* Every entry pairs a debtor with a creditor, for no more than either has. *)
Sound(b, e) == /\ e.from \in Debtors(b) /\ e.to \in Creditors(b)
               /\ e.amount \in Int /\ 0 < e.amount /\ e.amount <= -b[e.from] /\ e.amount <= b[e.to]

(* What is sound after a match was so before it. *)
LEMMA SoundEarlier ==
    ASSUME NEW b \in Balances, ~Done(b), NEW e, Sound(After(b), e)
    PROVE  Sound(b, e)
<1> DEFINE m == TopMatch(b)
           next == After(b)
<1>1. /\ next[m.from] = b[m.from] + m.amount
      /\ next[m.to] = b[m.to] - m.amount
      /\ \A u \in Users : u # m.from /\ u # m.to => next[u] = b[u]
      /\ Debtors(next) \subseteq Debtors(b) /\ Creditors(next) \subseteq Creditors(b)
  BY AfterFacts
<1>2. /\ e.from \in Debtors(next) /\ e.to \in Creditors(next) /\ e.amount \in Int
      /\ 0 < e.amount /\ e.amount <= -next[e.from] /\ e.amount <= next[e.to]
  BY DEF Sound
<1>3. /\ m.from \in Debtors(b) /\ m.to \in Creditors(b) /\ m.amount \in Int /\ 0 < m.amount
  BY TopMatchFacts DEF Entries
<1> HIDE DEF m, next
<1>4. /\ e.from \in Users /\ e.to \in Users /\ m.from \in Users /\ m.to \in Users
      /\ \A u \in Users : b[u] \in Int
      /\ b[e.from] < -1 /\ b[e.to] > 1 /\ b[m.from] < -1 /\ b[m.to] > 1
  BY <1>1, <1>2, <1>3 DEF Debtors, Creditors, Balances
<1>5. e.amount <= -b[e.from]
  BY <1>1, <1>2, <1>3, <1>4
<1>6. e.amount <= b[e.to]
  BY <1>1, <1>2, <1>3, <1>4
<1> QED  BY <1>1, <1>2, <1>5, <1>6 DEF Sound

(* Every payment of a plan goes from a debtor to a creditor and stays within
   the debt and the credit. *)
LEMMA PlanSound ==
    \A b \in Balances : \A i \in DOMAIN MatchDebts[b] : Sound(b, MatchDebts[b][i])
<1> DEFINE Good == {b \in Balances : \A i \in DOMAIN MatchDebts[b] : Sound(b, MatchDebts[b][i])}
<1>1. ASSUME NEW b \in Balances, Done(b) \/ After(b) \in Good
      PROVE  b \in Good
  <2>1. CASE Done(b)
    <3>1. MatchDebts[b] = << >>
      BY <2>1, MatchDebtsStep
    <3>2. DOMAIN MatchDebts[b] = {}
      BY <3>1
    <3> QED  BY <3>2
  <2>2. CASE ~Done(b)
    <3> DEFINE list == MatchDebts[b]
               rest == MatchDebts[After(b)]
    <3>1. \A i \in DOMAIN rest : Sound(b, rest[i])
      BY <1>1, <2>2, SoundEarlier
    <3>2. Sound(b, TopMatch(b))
      BY <2>2, TopMatchFacts DEF Sound, Entries
    <3>3. /\ list[1] = TopMatch(b)
          /\ \A i \in DOMAIN list : i = 1 \/ (i - 1 \in DOMAIN rest /\ list[i] = rest[i - 1])
      BY <2>2, PlanStep
    <3> HIDE DEF list, rest
    <3>4. \A i \in DOMAIN list : Sound(b, list[i])
      BY <3>1, <3>2, <3>3
    <3> QED  BY <3>4 DEF list
  <2> QED  BY <2>1, <2>2
<1> HIDE DEF Good
<1>2. Balances \subseteq Good
  BY <1>1, MatchInduction
<1> QED  BY <1>2 DEF Good

(* No pair is matched twice: a match settles its debtor or its creditor. *)
Pair(e) == <<e.from, e.to>>

(* No pair is matched twice. *)
LEMMA PairsOnce ==
    \A b \in Balances : \A i, j \in DOMAIN MatchDebts[b] :
        i # j => Pair(MatchDebts[b][i]) # Pair(MatchDebts[b][j])
<1> DEFINE Once(list) == \A i, j \in DOMAIN list : i # j => Pair(list[i]) # Pair(list[j])
           Good == {b \in Balances : Once(MatchDebts[b])}
<1>1. ASSUME NEW b \in Balances, Done(b) \/ After(b) \in Good
      PROVE  b \in Good
  <2>1. CASE Done(b)
    <3>1. MatchDebts[b] = << >>
      BY <2>1, MatchDebtsStep
    <3>2. DOMAIN MatchDebts[b] = {}
      BY <3>1
    <3> QED  BY <3>2
  <2>2. CASE ~Done(b)
    <3> DEFINE list == MatchDebts[b]
               rest == MatchDebts[After(b)]
               m == TopMatch(b)
    <3>1. /\ list[1] = m
          /\ DOMAIN rest = 1..Len(rest) /\ Len(rest) \in Nat /\ DOMAIN list = 1..(Len(rest) + 1)
          /\ \A i \in DOMAIN list : i = 1 \/ (i - 1 \in DOMAIN rest /\ list[i] = rest[i - 1])
      BY <2>2, PlanStep
    <3>2. Once(rest)
      BY <1>1, <2>2
    <3>3. \A i \in DOMAIN rest : Pair(rest[i]) # Pair(m)
      <4>1. m.from \notin Debtors(After(b)) \/ m.to \notin Creditors(After(b))
        BY <2>2, AfterFacts
      <4>2. After(b) \in Balances
        BY <2>2, AfterFacts
      <4>3. \A i \in DOMAIN rest : rest[i].from \in Debtors(After(b)) /\ rest[i].to \in Creditors(After(b))
        BY <4>2, PlanSound DEF Sound
      <4> HIDE DEF m, rest
      <4> QED  BY <4>1, <4>3 DEF Pair
    <3> HIDE DEF list, rest, m
    <3>4. ASSUME NEW i \in DOMAIN list, NEW j \in DOMAIN list, i # j
          PROVE  Pair(list[i]) # Pair(list[j])
      <4>1. i \in Int /\ j \in Int
        BY <3>1
      <4>2. CASE i = 1
        <5>1. j - 1 \in DOMAIN rest /\ list[j] = rest[j - 1] /\ list[i] = m
          BY <3>1, <3>4, <4>2
        <5> QED  BY <3>3, <5>1
      <4>3. CASE j = 1
        <5>1. i - 1 \in DOMAIN rest /\ list[i] = rest[i - 1] /\ list[j] = m
          BY <3>1, <3>4, <4>3
        <5> QED  BY <3>3, <5>1
      <4>4. CASE i # 1 /\ j # 1
        <5>1. /\ i - 1 \in DOMAIN rest /\ list[i] = rest[i - 1]
              /\ j - 1 \in DOMAIN rest /\ list[j] = rest[j - 1]
              /\ i - 1 # j - 1
          BY <3>1, <3>4, <4>1, <4>4
        <5> QED  BY <3>2, <5>1
      <4> QED  BY <4>2, <4>3, <4>4
    <3>5. Once(list)
      BY <3>4
    <3> QED  BY <3>5 DEF list
  <2> QED  BY <2>1, <2>2
<1> HIDE DEF Good
<1>2. Balances \subseteq Good
  BY <1>1, MatchInduction
<1> QED  BY <1>2 DEF Good

(* Every match takes a user out, and the last one takes out two. *)
LEMMA PlanShort ==
    \A b \in Balances : /\ Len(MatchDebts[b]) \in Nat
                        /\ MatchDebts[b] # << >> => Len(MatchDebts[b]) < Cardinality(Active(b))
<1> DEFINE Short(b) == /\ Len(MatchDebts[b]) \in Nat
                       /\ MatchDebts[b] # << >> => Len(MatchDebts[b]) < Cardinality(Active(b))
           Good == {b \in Balances : Short(b)}
<1>1. ASSUME NEW b \in Balances, Done(b) \/ After(b) \in Good
      PROVE  b \in Good
  <2>1. CASE Done(b)
    <3>1. MatchDebts[b] = << >>
      BY <2>1, MatchDebtsStep
    <3> QED  BY <3>1
  <2>2. CASE ~Done(b)
    <3> DEFINE list == MatchDebts[b]
               rest == MatchDebts[After(b)]
    <3>1. Len(rest) \in Nat /\ Len(list) = Len(rest) + 1 /\ rest \in Seq(Entries)
      BY <2>2, PlanStep
    <3>2. /\ Cardinality(Active(After(b))) \in Nat /\ Cardinality(Active(b)) \in Nat
          /\ Cardinality(Active(After(b))) < Cardinality(Active(b))
          /\ Cardinality(Active(b)) >= 2
      BY <2>2, FewerActive
    <3>3. rest # << >> => Len(rest) < Cardinality(Active(After(b)))
      BY <1>1, <2>2
    <3> HIDE DEF list, rest
    <3>4. rest = << >> => Len(rest) = 0
      OBVIOUS
    <3>5. Len(list) < Cardinality(Active(b)) /\ Len(list) \in Nat
      BY <3>1, <3>2, <3>3, <3>4
    <3> QED  BY <3>5 DEF list
  <2> QED  BY <2>1, <2>2
<1> HIDE DEF Good
<1>2. Balances \subseteq Good
  BY <1>1, MatchInduction
<1> QED  BY <1>2 DEF Good

-----------------------------------------------------------------------------
(* SumRenamed, for the same kind of context as SumPlusOf. *)
LEMMA SumRenamedOf ==
    \A S, T, p, f, g : /\ IsFiniteSet(T) /\ p \in Bijection(T, S)
                       /\ IntValued(f, S) /\ IntValued(g, T)
                       /\ \A x \in T : g[x] = f[p[x]]
                       => SumFunction(g) = SumFunction(f)
BY SumRenamed DEF IntValued

(* The sum over a list with an element before it. *)
LEMMA SumOfCons ==
    ASSUME NEW n \in Nat, NEW f \in [1..(n + 1) -> Int], NEW g \in [1..n -> Int],
           \A i \in 1..n : f[i + 1] = g[i]
    PROVE  SumFunction(f) = f[1] + SumFunction(g)
<1> DEFINE S == 1..(n + 1)
           T == S \ {1}
           tail == [i \in T |-> f[i]]
           N == 1..n
           p == [i \in N |-> i + 1]
<1>1. IsFiniteSet(S) /\ IsFiniteSet(N)
  BY FS_Interval
<1>2. SumFunction(f) = f[1] + SumFunction(tail)
  <2>1. 1 \in S /\ f \in [S -> Int]
    OBVIOUS
  <2>2. tail = [i \in S \ {1} |-> f[i]]
    OBVIOUS
  <2> HIDE DEF S, T, tail
  <2>3. SumFunction(f) = f[1] + SumFunction([i \in S \ {1} |-> f[i]])
    BY <1>1, <2>1, SumTakeOut
  <2> QED  BY <2>2, <2>3
<1>3. p \in Bijection(N, T)
  <2>1. p \in [N -> T]
    OBVIOUS
  <2>2. \A x, y \in N : p[x] = p[y] => x = y
    OBVIOUS
  <2>3. \A z \in T : \E x \in N : p[x] = z
    <3> SUFFICES ASSUME NEW z \in T PROVE \E x \in N : p[x] = z
      OBVIOUS
    <3>1. z - 1 \in N /\ p[z - 1] = z
      OBVIOUS
    <3> QED  BY <3>1
  <2> HIDE DEF p, N, T
  <2> QED  BY <2>1, <2>2, <2>3 DEF Bijection, Injection, Surjection, IsInjective
<1>4. tail \in [T -> Int] /\ g \in [N -> Int]
  OBVIOUS
<1>6. \A i \in N : g[i] = tail[p[i]]
  <2> SUFFICES ASSUME NEW i \in N PROVE g[i] = tail[p[i]]
    OBVIOUS
  <2>1. p[i] = i + 1 /\ i + 1 \in T
    OBVIOUS
  <2>2. tail[i + 1] = f[i + 1]
    BY <2>1
  <2>3. f[i + 1] = g[i]
    OBVIOUS
  <2> HIDE DEF p, tail, T, N
  <2> QED  BY <2>1, <2>2, <2>3
<1> HIDE DEF S, T, tail, N, p
<1>5. SumFunction(g) = SumFunction(tail)
  <2>1. IntValued(tail, T) /\ IntValued(g, N)
    BY <1>4 DEF IntValued
  <2> QED  BY <1>1, <1>3, <1>6, <2>1, SumRenamedOf
<1> QED  BY <1>2, <1>5

(* What u pays, and gets, when a plan is carried out. *)
PaidIn(list, u) == SumFunction([i \in DOMAIN list |-> IF list[i].from = u THEN list[i].amount ELSE 0])
GotIn(list, u)  == SumFunction([i \in DOMAIN list |-> IF list[i].to = u THEN list[i].amount ELSE 0])

(* Both are integers. *)
LEMMA FlowType ==
    ASSUME NEW list \in Seq(Entries), NEW u
    PROVE  PaidIn(list, u) \in Int /\ GotIn(list, u) \in Int
<1> DEFINE D == DOMAIN list
           f == [i \in D |-> IF list[i].from = u THEN list[i].amount ELSE 0]
           g == [i \in D |-> IF list[i].to = u THEN list[i].amount ELSE 0]
<1>1. IsFiniteSet(D)
  BY FS_Interval
<1>2. \A i \in D : list[i].amount \in Int
  <2> SUFFICES ASSUME NEW i \in D PROVE list[i].amount \in Int
    OBVIOUS
  <2>1. list[i] \in Entries
    OBVIOUS
  <2> QED  BY <2>1 DEF Entries
<1>3. f \in [D -> Int] /\ g \in [D -> Int]
  BY <1>2
<1> HIDE DEF D, f, g
<1>4. SumFunction(f) \in Int /\ SumFunction(g) \in Int
  BY <1>1, <1>3, SumType
<1> QED  BY <1>4 DEF PaidIn, GotIn, f, g, D

(* The first match, and the rest of the plan. *)
LEMMA FlowOfStep ==
    ASSUME NEW b \in Balances, ~Done(b), NEW u
    PROVE  LET m == TopMatch(b)
               rest == MatchDebts[After(b)]
           IN  /\ PaidIn(MatchDebts[b], u) = (IF m.from = u THEN m.amount ELSE 0) + PaidIn(rest, u)
               /\ GotIn(MatchDebts[b], u) = (IF m.to = u THEN m.amount ELSE 0) + GotIn(rest, u)
<1> DEFINE m == TopMatch(b)
           list == MatchDebts[b]
           rest == MatchDebts[After(b)]
           n == Len(rest)
           pay(l) == [i \in DOMAIN l |-> IF l[i].from = u THEN l[i].amount ELSE 0]
           get(l) == [i \in DOMAIN l |-> IF l[i].to = u THEN l[i].amount ELSE 0]
<1>1. /\ n \in Nat /\ DOMAIN list = 1..(n + 1) /\ DOMAIN rest = 1..n
      /\ list[1] = m
      /\ \A i \in 1..n : list[i + 1] = rest[i]
  BY PlanStep
<1>2. \A i \in DOMAIN list : list[i].amount \in Int
  BY PlanSound DEF Sound
<1>3. \A i \in DOMAIN rest : rest[i].amount \in Int
  BY AfterFacts, PlanSound DEF Sound
<1> HIDE DEF m, list, rest, n
<1>4. pay(list) \in [1..(n + 1) -> Int] /\ get(list) \in [1..(n + 1) -> Int]
  <2> DEFINE D == 1..(n + 1)
  <2>1. DOMAIN list = D
    BY <1>1
  <2> HIDE DEF D
  <2> QED  BY <1>2, <2>1 DEF D
<1>5. pay(rest) \in [1..n -> Int] /\ get(rest) \in [1..n -> Int]
  BY <1>1, <1>3
<1>6. \A i \in 1..n : pay(list)[i + 1] = pay(rest)[i] /\ get(list)[i + 1] = get(rest)[i]
  <2> SUFFICES ASSUME NEW i \in 1..n
               PROVE  pay(list)[i + 1] = pay(rest)[i] /\ get(list)[i + 1] = get(rest)[i]
    OBVIOUS
  <2>1. i + 1 \in DOMAIN list /\ i \in DOMAIN rest /\ list[i + 1] = rest[i]
    BY <1>1
  <2> QED  BY <2>1
<1>7. /\ pay(list)[1] = (IF m.from = u THEN m.amount ELSE 0)
      /\ get(list)[1] = (IF m.to = u THEN m.amount ELSE 0)
  <2>1. 1 \in DOMAIN list
    BY <1>1
  <2> QED  BY <1>1, <2>1
<1> DEFINE f == pay(list)
           g == pay(rest)
           h == get(list)
           k == get(rest)
<1>8. PaidIn(list, u) = SumFunction(f) /\ PaidIn(rest, u) = SumFunction(g)
  BY DEF PaidIn
<1>9. GotIn(list, u) = SumFunction(h) /\ GotIn(rest, u) = SumFunction(k)
  BY DEF GotIn
<1> HIDE DEF pay, get, f, g, h, k
<1>10. SumFunction(f) = f[1] + SumFunction(g)
  <2>1. f \in [1..(n + 1) -> Int] /\ g \in [1..n -> Int] /\ \A i \in 1..n : f[i + 1] = g[i]
    BY <1>4, <1>5, <1>6 DEF f, g
  <2> QED  BY <1>1, <2>1, SumOfCons
<1>11. SumFunction(h) = h[1] + SumFunction(k)
  <2>1. h \in [1..(n + 1) -> Int] /\ k \in [1..n -> Int] /\ \A i \in 1..n : h[i + 1] = k[i]
    BY <1>4, <1>5, <1>6 DEF h, k
  <2> QED  BY <1>1, <2>1, SumOfCons
<1>12. f[1] = (IF m.from = u THEN m.amount ELSE 0) /\ h[1] = (IF m.to = u THEN m.amount ELSE 0)
  BY <1>7 DEF f, h
<1> QED  BY <1>8, <1>9, <1>10, <1>11, <1>12 DEF m, list, rest

(* A plan carried out takes everyone towards zero and nobody past it. *)
Towards(x, y) == /\ y >= 0 => 0 <= x /\ x <= y
                 /\ y <= 0 => y <= x /\ x <= 0

(* A plan carried out takes nobody past zero. *)
LEMMA NeverPastZero ==
    \A b \in Balances : \A u \in Users :
        Towards(b[u] + PaidIn(MatchDebts[b], u) - GotIn(MatchDebts[b], u), b[u])
<1> DEFINE Good == {b \in Balances : \A u \in Users :
                        Towards(b[u] + PaidIn(MatchDebts[b], u) - GotIn(MatchDebts[b], u), b[u])}
<1>1. ASSUME NEW b \in Balances, Done(b) \/ After(b) \in Good
      PROVE  b \in Good
  <2> SUFFICES ASSUME NEW u \in Users
               PROVE  Towards(b[u] + PaidIn(MatchDebts[b], u) - GotIn(MatchDebts[b], u), b[u])
    OBVIOUS
  <2>0. b[u] \in Int
    BY DEF Balances
  <2>1. CASE Done(b)
    <3>1. MatchDebts[b] = << >>
      BY <2>1, MatchDebtsStep
    <3>2. PaidIn(<< >>, u) = 0 /\ GotIn(<< >>, u) = 0
      <4> DEFINE f == [i \in DOMAIN << >> |-> IF << >>[i].from = u THEN << >>[i].amount ELSE 0]
                 g == [i \in DOMAIN << >> |-> IF << >>[i].to = u THEN << >>[i].amount ELSE 0]
      <4>1. DOMAIN f = {} /\ DOMAIN g = {}
        OBVIOUS
      <4>2. PaidIn(<< >>, u) = SumFunction(f) /\ GotIn(<< >>, u) = SumFunction(g)
        BY DEF PaidIn, GotIn
      <4> HIDE DEF f, g
      <4> QED  BY <4>1, <4>2, SumNone
    <3> QED  BY <2>0, <3>1, <3>2 DEF Towards
  <2>2. CASE ~Done(b)
    <3> DEFINE m == TopMatch(b)
               next == After(b)
               rest == MatchDebts[next]
               paid == PaidIn(rest, u)
               got == GotIn(rest, u)
    <3>1. /\ PaidIn(MatchDebts[b], u) = (IF m.from = u THEN m.amount ELSE 0) + paid
          /\ GotIn(MatchDebts[b], u) = (IF m.to = u THEN m.amount ELSE 0) + got
      BY <2>2, FlowOfStep
    <3>2. paid \in Int /\ got \in Int
      BY <2>2, PlanStep, FlowType
    <3>3. Towards(next[u] + paid - got, next[u])
      BY <1>1, <2>2
    <3>4. /\ next \in Balances
          /\ next[m.from] = b[m.from] + m.amount
          /\ next[m.to] = b[m.to] - m.amount
          /\ u # m.from /\ u # m.to => next[u] = b[u]
      BY <2>2, AfterFacts
    <3>5. /\ m.from # m.to /\ m.amount \in Int /\ 0 < m.amount
          /\ m.amount <= -b[m.from] /\ m.amount <= b[m.to]
      BY <2>2, TopMatchFacts DEF Entries
    <3>6. next[u] \in Int
      BY <3>4 DEF Balances
    <3> DEFINE x == PaidIn(MatchDebts[b], u)
               y == GotIn(MatchDebts[b], u)
    <3> HIDE DEF m, next, rest, paid, got, x, y
    <3>7. x = (IF m.from = u THEN m.amount ELSE 0) + paid /\ y = (IF m.to = u THEN m.amount ELSE 0) + got
      BY <3>1 DEF x, y
    <3>8. Towards(b[u] + x - y, b[u])
      <4>1. CASE u = m.from
        <5> DEFINE a == m.amount
                   now == b[u]
                   then == next[u]
        <5>1. then = now + a /\ a <= -now /\ x = a + paid /\ y = got
          BY <3>2, <3>4, <3>5, <3>7, <4>1
        <5>2. a \in Int /\ 0 < a /\ now \in Int /\ then \in Int /\ Towards(then + paid - got, then)
          BY <2>0, <3>3, <3>5, <3>6
        <5> HIDE DEF a, now, then
        <5>3. then + paid - got = now + x - y /\ now < 0 /\ then <= 0 /\ now <= then
          BY <3>2, <5>1, <5>2
        <5>4. Towards(now + x - y, now)
          BY <3>2, <5>1, <5>2, <5>3 DEF Towards
        <5> QED  BY <5>4 DEF now
      <4>2. CASE u = m.to
        <5>1. next[u] = b[u] - m.amount /\ m.amount <= b[u] /\ y = m.amount + got /\ x = paid
          BY <3>2, <3>4, <3>5, <3>7, <4>2
        <5> QED  BY <2>0, <3>2, <3>3, <3>5, <3>6, <5>1 DEF Towards
      <4>3. CASE u # m.from /\ u # m.to
        <5>1. next[u] = b[u] /\ x = paid /\ y = got
          BY <3>2, <3>4, <3>7, <4>3
        <5> QED  BY <3>3, <5>1
      <4> QED  BY <4>1, <4>2, <4>3
    <3> QED  BY <3>8 DEF x, y
  <2> QED  BY <2>1, <2>2
<1> HIDE DEF Good
<1>2. Balances \subseteq Good
  BY <1>1, MatchInduction
<1> QED  BY <1>2 DEF Good

(* A set of natural numbers has a least one. *)
LEMMA LeastElement ==
    ASSUME NEW S \in SUBSET Nat, S # {}
    PROVE  \E i \in S : \A j \in S : i <= j
<1> DEFINE Good == {n \in Nat : n \notin S}
<1> SUFFICES ASSUME \A i \in S : \E j \in S : ~(i <= j) PROVE FALSE
  OBVIOUS
<1>1. ASSUME NEW n \in Nat, \A k \in Nat : k < n => k \in Good
      PROVE  n \in Good
  BY <1>1
<1> HIDE DEF Good
<1>2. Nat \subseteq Good
  BY <1>1, StrongInduction
<1> QED  BY <1>2 DEF Good

(* What is suggested for a pair is within the debt and the credit of the two. *)
LEMMA SuggestedAmountFacts ==
    ASSUME NEW b \in Balances, NEW u, NEW v
    PROVE  /\ SuggestedAmount(b, u, v) \in Nat
           /\ SuggestedAmount(b, u, v) > 0 =>
                 /\ u \in Debtors(b) /\ v \in Creditors(b)
                 /\ SuggestedAmount(b, u, v) <= -b[u] /\ SuggestedAmount(b, u, v) <= b[v]
           /\ \A i \in DOMAIN MatchDebts[b] :
                 MatchDebts[b][i].from = u /\ MatchDebts[b][i].to = v => SuggestedAmount(b, u, v) > 0
<1> DEFINE list == MatchDebts[b]
           found == {i \in DOMAIN list : list[i].from = u /\ list[i].to = v}
           k == CHOOSE i \in found : \A j \in found : i <= j
           s == SuggestedAmount(b, u, v)
<1>1. s = IF found = {} THEN 0 ELSE list[k].amount
  BY DEF SuggestedAmount
<1>2. found \in SUBSET Nat
  <2>1. list \in Seq(Entries)
    BY PlanType
  <2>2. DOMAIN list \subseteq Nat
    BY <2>1
  <2> QED  BY <2>2
<1>3. \A i \in DOMAIN list : Sound(b, list[i])
  BY PlanSound
<1> HIDE DEF list
<1>4. ASSUME found # {}
      PROVE  /\ s \in Int /\ s > 0 /\ u \in Debtors(b) /\ v \in Creditors(b)
             /\ s <= -b[u] /\ s <= b[v]
  <2>1. k \in found
    <3> HIDE DEF found
    <3>1. \E i \in found : \A j \in found : i <= j
      BY <1>2, <1>4, LeastElement
    <3> QED  BY <3>1
  <2>2. s = list[k].amount
    BY <1>1, <1>4
  <2> HIDE DEF k, s
  <2>3. Sound(b, list[k]) /\ list[k].from = u /\ list[k].to = v
    BY <1>3, <2>1
  <2> QED  BY <2>2, <2>3 DEF Sound
<1>5. found = {} => s = 0
  BY <1>1
<1>6. \A i \in DOMAIN list : list[i].from = u /\ list[i].to = v => found # {}
  OBVIOUS
<1> HIDE DEF found, s, k
<1> QED  BY <1>4, <1>5, <1>6 DEF s, list

(* A payment moves cents from one balance to another. *)
LEMMA SettledKeepsSum ==
    ASSUME NEW b \in Balances, NEW d \in Users, NEW c \in Users, d # c, NEW a \in Int
    PROVE  /\ Settled(b, d, c, a) \in Balances
           /\ SumFunction(Settled(b, d, c, a)) = SumFunction(b)
           /\ Settled(b, d, c, a)[d] = b[d] + a
           /\ Settled(b, d, c, a)[c] = b[c] - a
           /\ \A u \in Users : u # d /\ u # c => Settled(b, d, c, a)[u] = b[u]
<1> DEFINE paid == [b EXCEPT ![d] = @ + a]
           next == Settled(b, d, c, a)
<1>1. b \in [Users -> Int] /\ IsFiniteSet(Users)
  BY UserIds DEF Balances
<1>2. paid \in [Users -> Int] /\ paid[d] = b[d] + a /\ \A u \in Users \ {d} : paid[u] = b[u]
  BY <1>1
<1>3. next = [b EXCEPT ![d] = @ + a, ![c] = @ - a]
  BY DEF Settled
<1>4. /\ next \in [Users -> Int] /\ next[c] = b[c] - a /\ next[d] = b[d] + a
      /\ \A u \in Users : u # d /\ u # c => next[u] = b[u]
  BY <1>1, <1>3
<1> HIDE DEF paid, next
<1>5. SumFunction(paid) = SumFunction(b) - b[d] + paid[d]
  <2>1. paid \in [Users -> Int] /\ \A u \in Users \ {d} : paid[u] = b[u]
    BY <1>2
  <2> QED  BY <1>1, <2>1, SumUpdate
<1>6. SumFunction(next) = SumFunction(paid) - paid[c] + next[c]
  <2>1. \A u \in Users \ {c} : next[u] = paid[u]
    BY <1>2, <1>4
  <2>2. paid \in [Users -> Int] /\ next \in [Users -> Int]
    BY <1>2, <1>4
  <2> QED  BY <1>1, <2>1, <2>2, SumUpdate
<1>7. SumFunction(b) \in Int /\ SumFunction(paid) \in Int
  BY <1>1, <1>2, SumType
<1>8. b[d] \in Int /\ b[c] \in Int /\ paid[c] = b[c]
  BY <1>1, <1>2
<1>9. SumFunction(next) = SumFunction(b)
  BY <1>2, <1>4, <1>5, <1>6, <1>7, <1>8
<1> QED  BY <1>4, <1>9 DEF next, Balances

(* Balances that cancel out and leave nothing to match are small change. *)
LEMMA DoneIsSmallChange ==
    ASSUME NEW b \in Balances, SumFunction(b) = 0, Done(b), NEW u \in Users
    PROVE  Abs(b[u]) < Cardinality(Users)
<1> DEFINE S == Users \ {u}
           n == Cardinality(S)
           rest == [v \in S |-> b[v]]
           back == [v \in S |-> -b[v]]
<1>1. b \in [Users -> Int] /\ IsFiniteSet(Users)
  BY UserIds DEF Balances
<1>2. IsFiniteSet(S) /\ Cardinality(S) = Cardinality(Users) - 1 /\ n \in Nat /\ Cardinality(Users) \in Nat
  BY <1>1, FS_RemoveElement, FS_CardinalityType
<1>3. SumFunction(b) = b[u] + SumFunction(rest)
  BY <1>1, SumTakeOut
<1>4. rest \in [S -> Int]
  BY <1>1
<1>5. back \in [S -> Int]
  BY <1>1
<1>6. \A v \in S : back[v] = -rest[v]
  BY <1>1
<1>7. b[u] \in Int
  BY <1>1
<1>8. \/ /\ b[u] >= -1 /\ \A v \in S : back[v] <= 1
      \/ /\ b[u] <= 1 /\ \A v \in S : rest[v] <= 1
  <2>1. CASE Debtors(b) = {}
    <3>1. \A v \in Users : b[v] >= -1
      BY <1>1, <2>1 DEF Debtors
    <3> QED  BY <1>1, <3>1
  <2>2. CASE Creditors(b) = {}
    <3>1. \A v \in Users : b[v] <= 1
      BY <1>1, <2>2 DEF Creditors
    <3> QED  BY <1>1, <3>1
  <2> QED  BY <2>1, <2>2 DEF Done
<1>9. CASE n = 0
  <2>1. S = {}
    BY <1>2, <1>9, FS_EmptySet
  <2>2. SumFunction(rest) = 0
    <3>1. DOMAIN rest = {}
      BY <2>1
    <3> QED  BY <3>1, SumNone
  <2>3. b[u] = 0
    BY <1>3, <1>7, <2>2
  <2> HIDE DEF n, S
  <2> QED  BY <1>2, <1>9, <2>3 DEF Abs, n
<1>10. CASE n # 0
  <2> HIDE DEF S, rest, back
  <2>1. SumFunction(rest) \in Int
    BY <1>2, <1>4, SumType
  <2>2. SumFunction(back) = -SumFunction(rest)
    BY <1>2, <1>4, <1>5, <1>6, SumNegated
  <2>3. b[u] = SumFunction(back) /\ b[u] = -SumFunction(rest)
    BY <1>3, <1>7, <2>1, <2>2
  <2>4. 1 \in Int
    OBVIOUS
  <2>5. (\A v \in S : back[v] <= 1) => SumFunction(back) <= 1 * n
    BY <1>2, <1>5, <2>4, SumBounded
  <2>6. (\A v \in S : rest[v] <= 1) => SumFunction(rest) <= 1 * n
    BY <1>2, <1>4, <2>4, SumBounded
  <2>7. \/ b[u] >= -1 /\ b[u] <= n
        \/ b[u] <= 1 /\ -b[u] <= n
    BY <1>2, <1>7, <1>8, <2>1, <2>3, <2>5, <2>6
  <2> HIDE DEF n
  <2> QED  BY <1>2, <1>7, <1>10, <2>7 DEF Abs, n
<1> QED  BY <1>9, <1>10

(* Someone who owes a cent for every user or more is asked to pay. *)
LEMMA LargeDebtIsMatched ==
    \A b \in Balances : \A u \in Users :
        SumFunction(b) = 0 /\ b[u] <= -Cardinality(Users)
        => \E i \in DOMAIN MatchDebts[b] : MatchDebts[b][i].from = u
<1> DEFINE Asked(b) == \A u \in Users :
                           SumFunction(b) = 0 /\ b[u] <= -Cardinality(Users)
                           => \E i \in DOMAIN MatchDebts[b] : MatchDebts[b][i].from = u
           Good == {b \in Balances : Asked(b)}
<1>1. ASSUME NEW b \in Balances, Done(b) \/ After(b) \in Good
      PROVE  b \in Good
  <2> SUFFICES ASSUME NEW u \in Users, SumFunction(b) = 0, b[u] <= -Cardinality(Users)
               PROVE  \E i \in DOMAIN MatchDebts[b] : MatchDebts[b][i].from = u
    OBVIOUS
  <2>0. b[u] \in Int /\ Cardinality(Users) \in Nat
    BY UserIds, FS_CardinalityType DEF Balances
  <2>1. ~Done(b)
    <3>1. SUFFICES ASSUME Done(b) PROVE FALSE
      OBVIOUS
    <3>2. Abs(b[u]) < Cardinality(Users)
      BY <3>1, DoneIsSmallChange
    <3> QED  BY <2>0, <3>2 DEF Abs
  <2> DEFINE m == TopMatch(b)
             list == MatchDebts[b]
             rest == MatchDebts[After(b)]
             n == Len(rest)
  <2>2. /\ n \in Nat /\ DOMAIN list = 1..(n + 1) /\ DOMAIN rest = 1..n /\ list[1] = m
        /\ \A i \in 1..n : list[i + 1] = rest[i]
    BY <2>1, PlanStep
  <2>3. CASE u = m.from
    <3>1. 1 \in DOMAIN list /\ list[1].from = u
      BY <2>2, <2>3
    <3> QED  BY <3>1
  <2>4. CASE u # m.from
    <3>1. /\ m \in Entries /\ m.from # m.to /\ m.to \in Creditors(b)
      BY <2>1, TopMatchFacts
    <3>2. u # m.to
      BY <2>0, <3>1 DEF Creditors
    <3>3. m.from \in Users /\ m.to \in Users /\ m.amount \in Int
      BY <3>1 DEF Entries
    <3>4. /\ After(b) \in Balances /\ SumFunction(After(b)) = 0 /\ After(b)[u] = b[u]
      BY <2>4, <3>1, <3>2, <3>3, SettledKeepsSum DEF After
    <3>5. PICK i \in DOMAIN rest : rest[i].from = u
      BY <1>1, <2>1, <3>4
    <3> HIDE DEF list, rest, n
    <3>6. i + 1 \in DOMAIN list /\ list[i + 1].from = u
      BY <2>2, <3>5
    <3> QED  BY <3>6 DEF list
  <2> QED  BY <2>3, <2>4
<1> HIDE DEF Good
<1>2. Balances \subseteq Good
  BY <1>1, MatchInduction
<1> QED  BY <1>2 DEF Good

(* The balances of a group settling up always cancel out. *)
Cancelled == balances \in Balances /\ SumFunction(balances) = 0

(* Payments keep the balances whole cents that add up to zero. *)
LEMMA CancelledAlways == SettleSpec => []Cancelled
<1>1. SettleInit => Cancelled
  <2> SUFFICES ASSUME SettleInit PROVE Cancelled
    OBVIOUS
  <2>1. balances \in [Users -> -MaxBalance..MaxBalance] /\ SumFunction(balances) = 0
    BY DEF SettleInit
  <2>2. -MaxBalance..MaxBalance \subseteq Int
    BY BalanceBound
  <2>3. balances \in Balances
    BY <2>1, <2>2 DEF Balances
  <2> QED  BY <2>1, <2>3 DEF Cancelled
<1>2. ASSUME Cancelled, [SettleNext]_balances
      PROVE  Cancelled'
  <2>1. CASE SettleNext
    <3>1. PICK u \in Users, v \in Users : Record(u, v)
      BY <2>1 DEF SettleNext
    <3>2. u # v
      BY <3>1 DEF Record
    <3>3. SuggestedAmount(balances, u, v) \in Nat
      BY <1>2, SuggestedAmountFacts DEF Cancelled
    <3>4. PICK a \in 1..SuggestedAmount(balances, u, v) : balances' = Settled(balances, u, v, a)
      BY <3>1 DEF Record
    <3>5. a \in Int
      BY <3>3, <3>4
    <3> QED  BY <1>2, <3>2, <3>4, <3>5, SettledKeepsSum DEF Cancelled
  <2>2. CASE UNCHANGED balances
    BY <1>2, <2>2 DEF Cancelled
  <2> QED  BY <1>2, <2>1, <2>2
<1> QED  BY <1>1, <1>2, PTL DEF SettleSpec

(* Towards zero, in the words of SuggestionsArePlan. *)
LEMMA TowardsZero ==
    ASSUME NEW x \in Int, NEW y \in Int, Towards(x, y)
    PROVE  Abs(x) <= Abs(y) /\ x * y >= 0
<1>1. CASE y >= 0
  <2>1. 0 <= x /\ x <= y
    BY <1>1 DEF Towards
  <2>2. x * y >= 0
    BY <1>1, <2>1
  <2> QED  BY <1>1, <2>1, <2>2 DEF Abs
<1>2. CASE y <= 0
  <2>1. y <= x /\ x <= 0
    BY <1>2 DEF Towards
  <2> DEFINE p == -x
             q == -y
  <2>2. p \in Nat /\ q \in Nat
    BY <1>2, <2>1
  <2>3. x * y = p * q
    OBVIOUS
  <2> HIDE DEF p, q
  <2>4. p * q >= 0
    BY <2>2
  <2> QED  BY <1>2, <2>1, <2>3, <2>4 DEF Abs
<1> QED  BY <1>1, <1>2

(* The suggestions are a plan, in every group and after any payments: no pair
   twice, fewer than the users who are not even, and nobody taken past zero
   (_match_debts under RecordSettlementView.post). *)
THEOREM SuggestionsAreAlwaysAPlan == SettleSpec => []SuggestionsArePlan
<1>1. Cancelled => SuggestionsArePlan
  <2> SUFFICES ASSUME Cancelled PROVE SuggestionsArePlan
    OBVIOUS
  <2> DEFINE list == Suggestions
             uneven == {u \in Users : balances[u] # 0}
  <2>1. balances \in Balances /\ list = MatchDebts[balances]
    BY DEF Cancelled, Suggestions
  <2>2. ASSUME NEW i \in DOMAIN list, NEW j \in DOMAIN list, i # j
        PROVE  <<list[i].from, list[i].to>> # <<list[j].from, list[j].to>>
    BY <2>1, <2>2, PairsOnce DEF Pair
  <2>3. list # << >> => Len(list) < Cardinality(uneven)
    <3>1. Active(balances) \subseteq uneven
      BY DEF Active, Debtors, Creditors
    <3>2. IsFiniteSet(uneven)
      BY UserIds, FS_Subset
    <3>3. /\ Cardinality(Active(balances)) <= Cardinality(uneven)
          /\ Cardinality(Active(balances)) \in Nat /\ Cardinality(uneven) \in Nat
      BY <3>1, <3>2, FS_Subset, FS_CardinalityType
    <3>4. Len(list) \in Nat /\ (list # << >> => Len(list) < Cardinality(Active(balances)))
      BY <2>1, PlanShort
    <3> HIDE DEF list, uneven
    <3> QED  BY <3>3, <3>4
  <2>4. ASSUME NEW u \in Users
        PROVE  LET after == balances[u] + PaidIn(list, u) - GotIn(list, u)
               IN  Abs(after) <= Abs(balances[u]) /\ after * balances[u] >= 0
    <3> DEFINE x == balances[u] + PaidIn(list, u) - GotIn(list, u)
               y == balances[u]
    <3>1. Towards(x, y)
      BY <2>1, NeverPastZero
    <3>2. y \in Int
      BY <2>1 DEF Balances
    <3>3. PaidIn(list, u) \in Int /\ GotIn(list, u) \in Int
      BY <2>1, PlanType, FlowType
    <3>4. x \in Int
      BY <3>2, <3>3
    <3> HIDE DEF x, y
    <3>5. Abs(x) <= Abs(y) /\ x * y >= 0
      BY <3>1, <3>2, <3>4, TowardsZero
    <3> QED  BY <3>5 DEF x, y
  <2> QED  BY <2>2, <2>3, <2>4 DEF SuggestionsArePlan, PaidIn, GotIn
<1> QED  BY <1>1, CancelledAlways, PTL

(* When nothing is suggested any more nobody is off by as many cents as there
   are users, whatever the group and the payments made so far. *)
THEOREM OnlySmallChangeIsEverLeft == SettleSpec => []OnlySmallChangeLeft
<1>1. Cancelled => OnlySmallChangeLeft
  <2> SUFFICES ASSUME Cancelled, Suggestions = << >>, NEW u \in Users
               PROVE  Abs(balances[u]) < Cardinality(Users)
    BY DEF OnlySmallChangeLeft
  <2>1. balances \in Balances /\ SumFunction(balances) = 0
    BY DEF Cancelled
  <2>2. Done(balances)
    <3>1. SUFFICES ASSUME ~Done(balances) PROVE FALSE
      OBVIOUS
    <3> DEFINE n == Len(MatchDebts[After(balances)])
    <3>2. n \in Nat /\ Len(MatchDebts[balances]) = n + 1
      BY <2>1, <3>1, PlanStep
    <3>3. MatchDebts[balances] = << >>
      BY DEF Suggestions
    <3> HIDE DEF n
    <3>4. Len(MatchDebts[balances]) = 0
      BY <3>3
    <3> QED  BY <3>2, <3>4
  <2> QED  BY <2>1, <2>2, DoneIsSmallChange
<1> QED  BY <1>1, CancelledAlways, PTL

(* What a payment does to a sum over the users of what each owes. *)
LEMMA PaymentSettles ==
    ASSUME NEW b \in Balances, NEW u \in Users, NEW v \in Users, u # v,
           NEW a \in 1..SuggestedAmount(b, u, v)
    PROVE  /\ Outstanding(Settled(b, u, v, a)) = Outstanding(b) - a
           /\ Outstanding(b) \in Int /\ a > 0
           /\ \A w \in Users : b[w] = 0 => Settled(b, u, v, a)[w] = 0
<1> DEFINE most == SuggestedAmount(b, u, v)
           c == Settled(b, u, v, a)
           owed == [w \in Users |-> IF b[w] < 0 THEN -b[w] ELSE 0]
           left == [w \in Users |-> IF c[w] < 0 THEN -c[w] ELSE 0]
<1>1. most \in Nat /\ (most > 0 => most <= -b[u] /\ most <= b[v])
  BY SuggestedAmountFacts
<1>2. a \in Int /\ a > 0 /\ a <= most
  BY <1>1
<1>3. /\ c \in Balances /\ c[u] = b[u] + a /\ c[v] = b[v] - a
      /\ \A w \in Users : w # u /\ w # v => c[w] = b[w]
  BY <1>2, SettledKeepsSum
<1>4. /\ \A w \in Users : b[w] \in Int /\ c[w] \in Int
      /\ IsFiniteSet(Users)
  BY <1>3, UserIds DEF Balances
<1> HIDE DEF most, c
<1>5. a <= -b[u] /\ a <= b[v]
  BY <1>1, <1>2, <1>4
<1>6. owed \in [Users -> Int] /\ left \in [Users -> Int]
  BY <1>4
<1>7. left[v] = 0 /\ owed[v] = 0 /\ owed[u] = -b[u] /\ left[u] = -b[u] - a
  BY <1>2, <1>3, <1>4, <1>5
<1>8. \A w \in Users \ {u} : left[w] = owed[w]
  BY <1>3, <1>7
<1>9. Outstanding(c) = SumFunction(left) /\ Outstanding(b) = SumFunction(owed)
  BY DEF Outstanding
<1>10. b[u] \in Int
  BY <1>4
<1>11. \A w \in Users : b[w] = 0 => c[w] = 0
  BY <1>2, <1>3, <1>5
<1> HIDE DEF owed, left
<1>12. SumFunction(left) = SumFunction(owed) - owed[u] + left[u]
  BY <1>4, <1>6, <1>8, SumUpdate
<1>13. SumFunction(owed) \in Int
  BY <1>4, <1>6, SumType
<1>14. SumFunction(left) = SumFunction(owed) - a
  BY <1>2, <1>7, <1>10, <1>12, <1>13
<1> QED  BY <1>2, <1>9, <1>11, <1>13, <1>14 DEF c

(* In every group each recorded payment settles something: what is owed
   altogether goes down, so that payments must come to an end
   (RecordSettlementView.post). *)
THEOREM PaymentsAlwaysSettle == SettleSpec => EveryPaymentSettles
<1>1. Cancelled /\ [SettleNext]_balances =>
        [/\ Outstanding(balances') < Outstanding(balances)
         /\ \A u \in Users : balances[u] = 0 => balances'[u] = 0]_balances
  <2> SUFFICES ASSUME Cancelled, SettleNext
               PROVE  /\ Outstanding(balances') < Outstanding(balances)
                      /\ \A u \in Users : balances[u] = 0 => balances'[u] = 0
    OBVIOUS
  <2>1. PICK u \in Users, v \in Users : Record(u, v)
    BY DEF SettleNext
  <2>2. PICK a \in 1..SuggestedAmount(balances, u, v) : balances' = Settled(balances, u, v, a)
    BY <2>1 DEF Record
  <2>3. balances \in Balances /\ u # v
    BY <2>1 DEF Cancelled, Record
  <2>4. SuggestedAmount(balances, u, v) \in Nat
    BY <2>3, SuggestedAmountFacts
  <2> DEFINE b == balances
             c == Settled(b, u, v, a)
  <2>5. /\ Outstanding(c) = Outstanding(b) - a /\ Outstanding(b) \in Int /\ a > 0
        /\ \A w \in Users : b[w] = 0 => c[w] = 0
    BY <2>3, PaymentSettles
  <2>6. a \in Int /\ balances' = c
    BY <2>2, <2>4
  <2> HIDE DEF c
  <2>7. Outstanding(c) < Outstanding(b)
    BY <2>5, <2>6
  <2> QED  BY <2>5, <2>6, <2>7
<1> QED  BY <1>1, CancelledAlways, PTL DEF SettleSpec, EveryPaymentSettles

-----------------------------------------------------------------------------
(* The tables of a group. *)

(* The split stored with a new expense is again a split. *)
LEMMA StoredSplitIsSplit ==
    ASSUME NEW m \in SUBSET Users, NEW a, NEW t, NEW d \in Seq(Items),
           Accepts(m, a, t, d)
    PROVE  StoredSplit(m, t, d) \in Seq(Items)
<1> DEFINE who == Participants(m, t, d)
<1>1. CASE d # << >>
  BY <1>1 DEF StoredSplit
<1>2. CASE d = << >>
  <2>1. Cardinality(m) \in Nat
    BY UserIds, FS_Subset, FS_CardinalityType
  <2>2. \E n \in Nat : DOMAIN who = 1..n
    <3>1. CASE t = "EQUAL"
      BY <1>2, <2>1, <3>1 DEF Participants, InOrder
    <3>2. CASE t # "EQUAL"
      <4>1. DOMAIN who = 1..0
        BY <1>2, <3>2 DEF Participants
      <4> QED  BY <4>1
    <3> QED  BY <3>1, <3>2
  <2>3. \A i \in DOMAIN who : who[i] \in Int
    <3>1. Range(who) \subseteq m
      BY DEF Accepts
    <3>2. m \subseteq Int
      BY UserIds
    <3> QED  BY <3>1, <3>2 DEF Range
  <2>4. \A i \in DOMAIN who : Item(who[i], "id", 0) \in Items
    BY <2>3 DEF Item, Items
  <2>5. StoredSplit(m, t, d) = [i \in DOMAIN who |-> Item(who[i], "id", 0)]
    BY <1>2 DEF StoredSplit
  <2>6. PICK n \in Nat : DOMAIN who = 1..n
    BY <2>2
  <2> HIDE DEF who
  <2>7. [i \in 1..n |-> Item(who[i], "id", 0)] \in Seq(Items)
    BY <2>4, <2>6
  <2> QED  BY <2>5, <2>6, <2>7
<1> QED  BY <1>1, <1>2

-----------------------------------------------------------------------------
(* Type correctness needs one more fact: an id some worker carries was handed
   out, so that saving its row does not bring up an id nobody issued. *)
CarriedIdsIssued == \A p \in Procs : request[p] # Idle => request[p].id \in issued

IInv == TypeOK /\ CarriedIdsIssued

(* Empty tables. *)
LEMMA InitIInv == Init => IInv
<1> SUFFICES ASSUME Init PROVE IInv
  OBVIOUS
<1>1. \A e \in Expenses : DOMAIN shares[e] \subseteq Users
  BY DEF Init, NoShares
<1> QED  BY <1>1, LedgerConstants DEF Init, IInv, TypeOK, CarriedIdsIssued

(* What a worker carries, by the kind of request. *)
LEMMA Carried ==
    ASSUME TypeOK, NEW p \in Procs
    PROVE  /\ request[p].op = "edit" => request[p] \in Edits
           /\ request[p].op = "delete" => request[p] \in Deletes
           /\ request[p] \in Edits => request[p].row \in ExpenseRows
                                     /\ request[p].id \in Expenses
                                     /\ request[p] # Idle
           /\ request[p] \in Deletes => request[p].id \in Expenses
                                       /\ request[p].row \in ExpenseRows
                                       /\ request[p] # Idle
BY DEF TypeOK, Edits, Deletes, Idle

(* A worker that is done. *)
LEMMA RequestIdle ==
    ASSUME IInv, NEW p \in Procs,
           request' = [request EXCEPT ![p] = Idle], UNCHANGED issued
    PROVE  /\ request' \in [Procs -> {Idle} \union Edits \union Deletes]
           /\ CarriedIdsIssued'
BY DEF IInv, TypeOK, CarriedIdsIssued

LEMMA CreateIInv ==
    ASSUME IInv, NEW u \in Users, NEW e \in Expenses, NEW a \in Amounts,
           NEW split \in Splits, CreateExpense(u, e, a, split)
    PROVE  IInv'
<1> DEFINE row == [amount |-> a, paidBy |-> u, type |-> split.type,
                   data |-> StoredSplit(members, split.type, split.data)]
<1> USE DEF IInv, TypeOK
<1>1. a \in Int /\ split.type \in SplitTypes /\ split.data \in Seq(Items)
  BY LedgerConstants
<1>2. row \in ExpenseRows
  <2>1. StoredSplit(members, split.type, split.data) \in Seq(Items)
    BY <1>1, StoredSplitIsSplit DEF CreateExpense
  <2> QED  BY <1>1, <2>1 DEF ExpenseRows
<1>3. DOMAIN Shares(members, a, split.type, split.data) \subseteq Users
  BY SharesGoToMembers DEF CreateExpense
<1>4. expense' = [expense EXCEPT ![e] = row]
  BY DEF CreateExpense
<1> HIDE DEF row
<1>5. expense' \in [Expenses -> ExpenseRows \union {NoExpense}] /\ expense'[e] # NoExpense
  BY <1>2, <1>4, LedgerConstants
<1>6. /\ DOMAIN shares' = Expenses
      /\ \A x \in Expenses : DOMAIN shares'[x] \subseteq Users
  BY <1>3 DEF CreateExpense
<1>7. \A x \in Expenses : /\ expense'[x] # NoExpense => x \in issued'
                          /\ expense'[x] = NoExpense => shares'[x] = NoShares
  BY <1>4, <1>5 DEF CreateExpense
<1>8. CarriedIdsIssued'
  BY DEF CreateExpense, CarriedIdsIssued
<1> QED  BY <1>5, <1>6, <1>7, <1>8 DEF CreateExpense

(* A field given, or the one of the row. *)
LEMMA GivenType ==
    ASSUME NEW S, NEW x \in S, NEW field \in SUBSET S
    PROVE  Given(field, x) \in S
BY DEF Given

LEMMA BeginEditIInv ==
    ASSUME IInv, NEW p \in Procs, NEW e \in Expenses,
           NEW amount \in SUBSET Int, NEW type \in SUBSET SplitTypes,
           NEW data \in SUBSET Seq(Items),
           BeginEdit(p, e, amount, type, data)
    PROVE  IInv'
<1> DEFINE row == [expense[e] EXCEPT !.amount = Given(amount, @),
                                     !.type   = Given(type, @),
                                     !.data   = Given(data, @)]
           edit == [op |-> "edit", id |-> e, row |-> row,
                    recalculate |-> amount # {} \/ type # {} \/ data # {}]
<1> USE DEF IInv, TypeOK
<1>1. expense[e] \in ExpenseRows /\ e \in issued
  BY DEF BeginEdit
<1>2. row \in ExpenseRows
  <2>1. /\ expense[e].amount \in Int
        /\ expense[e].type \in SplitTypes
        /\ expense[e].data \in Seq(Items)
    BY <1>1 DEF ExpenseRows
  <2>2. /\ Given(amount, expense[e].amount) \in Int
        /\ Given(type, expense[e].type) \in SplitTypes
        /\ Given(data, expense[e].data) \in Seq(Items)
    BY <2>1, GivenType
  <2> QED  BY <1>1, <2>2 DEF ExpenseRows
<1>3. request' = [request EXCEPT ![p] = edit]
  BY DEF BeginEdit
<1> HIDE DEF row
<1>4. edit \in Edits /\ edit.id = e
  BY <1>2 DEF Edits
<1> HIDE DEF edit
<1>5. request' \in [Procs -> {Idle} \union Edits \union Deletes]
  BY <1>3, <1>4
<1>6. CarriedIdsIssued'
  BY <1>1, <1>3, <1>4 DEF BeginEdit, CarriedIdsIssued
<1> QED  BY <1>5, <1>6 DEF BeginEdit

LEMMA CommitEditIInv ==
    ASSUME IInv, NEW p \in Procs, CommitEdit(p)
    PROVE  IInv'
<1> DEFINE r == request[p]
           new == Shares(members, r.row.amount, r.row.type, r.row.data)
<1> USE DEF IInv, TypeOK
<1>1. r.row \in ExpenseRows /\ r.id \in issued /\ r.id \in Expenses
  BY Carried DEF CommitEdit, CarriedIdsIssued
<1>2. expense' = [expense EXCEPT ![r.id] = r.row]
  BY DEF CommitEdit
<1>3. expense' \in [Expenses -> ExpenseRows \union {NoExpense}]
  BY <1>1, <1>2
<1>4. r.recalculate => DOMAIN new \subseteq Users
  BY SharesGoToMembers DEF CommitEdit, CanCommitEdit
<1>5. shares' = IF r.recalculate THEN [shares EXCEPT ![r.id] = new] ELSE shares
  BY DEF CommitEdit
<1> HIDE DEF new
<1>6. /\ DOMAIN shares' = Expenses
      /\ \A x \in Expenses : DOMAIN shares'[x] \subseteq Users
  BY <1>4, <1>5
<1>7. \A x \in Expenses : /\ expense'[x] # NoExpense => x \in issued'
                          /\ expense'[x] = NoExpense => shares'[x] = NoShares
  BY <1>1, <1>2, <1>5, LedgerConstants DEF CommitEdit
<1>8. /\ request' \in [Procs -> {Idle} \union Edits \union Deletes]
      /\ CarriedIdsIssued'
  BY RequestIdle DEF CommitEdit
<1> QED  BY <1>3, <1>6, <1>7, <1>8 DEF CommitEdit

LEMMA BeginDeleteIInv ==
    ASSUME IInv, NEW p \in Procs, NEW e \in Expenses, BeginDelete(p, e)
    PROVE  IInv'
<1> DEFINE delete == [op |-> "delete", id |-> e, row |-> expense[e]]
<1> USE DEF IInv, TypeOK
<1>1. delete \in Deletes /\ delete.id = e /\ e \in issued
  BY DEF BeginDelete, Deletes
<1>2. request' = [request EXCEPT ![p] = delete]
  BY DEF BeginDelete
<1> HIDE DEF delete
<1>3. request' \in [Procs -> {Idle} \union Edits \union Deletes]
  BY <1>1, <1>2
<1>4. CarriedIdsIssued'
  BY <1>1, <1>2 DEF BeginDelete, CarriedIdsIssued
<1> QED  BY <1>3, <1>4 DEF BeginDelete

LEMMA CommitDeleteIInv ==
    ASSUME IInv, NEW p \in Procs, CommitDelete(p)
    PROVE  IInv'
<1> DEFINE r == request[p]
<1> USE DEF IInv, TypeOK
<1>1. r.id \in Expenses
  BY Carried DEF CommitDelete
<1>2. /\ request' \in [Procs -> {Idle} \union Edits \union Deletes]
      /\ CarriedIdsIssued'
  BY RequestIdle DEF CommitDelete
<1>3. CASE r.row.paidBy \in members
  <2>1. DOMAIN NoShares \subseteq Users
    BY DEF NoShares
  <2>2. /\ expense' = [expense EXCEPT ![r.id] = NoExpense]
        /\ shares' = [shares EXCEPT ![r.id] = NoShares]
    BY <1>3 DEF CommitDelete
  <2> QED  BY <1>1, <1>2, <2>1, <2>2 DEF CommitDelete
<1>4. CASE r.row.paidBy \notin members
  BY <1>2, <1>4 DEF CommitDelete
<1> QED  BY <1>3, <1>4

LEMMA RecordIInv ==
    ASSUME IInv, NEW u \in Users, NEW v \in Users, NEW s \in Settlements,
           RecordSettlement(u, v, s)
    PROVE  IInv'
<1>1. PICK amount \in 1..SuggestedAmount(NetBalances, u, v) :
        settlement' = [settlement EXCEPT ![s] = [from |-> u, to |-> v, amount |-> amount]]
  BY DEF RecordSettlement
<1>2. [from |-> u, to |-> v, amount |-> amount] \in SettlementRows
  BY DEF SettlementRows
<1> QED  BY <1>1, <1>2 DEF RecordSettlement, IInv, TypeOK, CarriedIdsIssued

(* Every handler keeps the tables so. *)
LEMMA NextIInv == IInv /\ [Next]_vars => IInv'
<1> SUFFICES ASSUME IInv, [Next]_vars PROVE IInv'
  OBVIOUS
<1>1. ASSUME NEW u \in Users, AddMember(u) \/ RemoveMember(u) PROVE IInv'
  BY <1>1 DEF AddMember, RemoveMember, IInv, TypeOK, CarriedIdsIssued
<1>2. ASSUME NEW p \in Procs, NEW e \in Expenses,
             NEW amount \in Optional(Amounts),
             NEW type \in Optional({split.type : split \in Splits}),
             NEW data \in Optional({split.data : split \in Splits}),
             BeginEdit(p, e, amount, type, data)
      PROVE  IInv'
  <2>1. /\ amount \in SUBSET Int
        /\ type \in SUBSET SplitTypes
        /\ data \in SUBSET Seq(Items)
    BY LedgerConstants DEF Optional
  <2> QED  BY <1>2, <2>1, BeginEditIInv
<1>3. ASSUME NEW p \in Procs, RefuseEdit(p) PROVE IInv'
  BY <1>3, RequestIdle DEF RefuseEdit, IInv, TypeOK
<1>4. ASSUME NEW s \in Settlements, DeleteSettlement(s) PROVE IInv'
  BY <1>4 DEF DeleteSettlement, IInv, TypeOK, CarriedIdsIssued
<1>5. CASE UNCHANGED vars
  BY <1>5 DEF vars, IInv, TypeOK, CarriedIdsIssued
<1> QED
  BY <1>1, <1>2, <1>3, <1>4, <1>5, CreateIInv, CommitEditIInv, BeginDeleteIInv,
     CommitDeleteIInv, RecordIInv DEF Next

(* Whatever the requests and however they interleave, the tables keep their
   types, only issued ids have rows, and deleted expenses leave no shares. *)
THEOREM TypeCorrect == Spec => []TypeOK
<1>1. IInv => TypeOK
  BY DEF IInv
<1> QED  BY <1>1, InitIInv, NextIInv, PTL DEF Spec

-----------------------------------------------------------------------------
(* An expense keeps following its row as long as neither is written. *)
LEMMA FollowsUntouched ==
    ASSUME NEW e \in Expenses, expense'[e] = expense[e], shares'[e] = shares[e]
    PROVE  Follows(e)' <=> Follows(e)
BY DEF Follows

(* A new expense follows its row: the request's split, or the one stored in
   its place, gives its shares for the members of this moment. *)
LEMMA CreatedFollows ==
    ASSUME IInv, NEW u \in Users, NEW e \in Expenses, NEW a \in Amounts,
           NEW split \in Splits, CreateExpense(u, e, a, split)
    PROVE  Follows(e)'
<1> DEFINE d == split.data
<1>1. /\ expense'[e].amount = a
      /\ expense'[e].type = split.type
      /\ expense'[e].data = StoredSplit(members, split.type, d)
      /\ shares'[e] = Shares(members, a, split.type, d)
  BY DEF CreateExpense, IInv, TypeOK
<1>2. d \in {expense'[e].data, << >>}
  BY <1>1 DEF StoredSplit
<1>3. members \in SUBSET Users /\ Accepts(members, a, split.type, d)
  BY DEF CreateExpense, IInv, TypeOK
<1> HIDE DEF d
<1> QED  BY <1>1, <1>2, <1>3 DEF Follows

(* So does an edited one when its shares are computed again. *)
LEMMA RecalculatedFollows ==
    ASSUME IInv, NEW p \in Procs, NEW e \in Expenses,
           CommitEdit(p), request[p].recalculate, request[p].id = e
    PROVE  Follows(e)'
<1> DEFINE r == request[p]
<1>1. /\ expense'[e] = r.row
      /\ shares'[e] = Shares(members, r.row.amount, r.row.type, r.row.data)
  BY DEF CommitEdit, IInv, TypeOK
<1>2. /\ members \in SUBSET Users
      /\ Accepts(members, r.row.amount, r.row.type, r.row.data)
  BY DEF CommitEdit, CanCommitEdit, IInv, TypeOK
<1> QED  BY <1>1, <1>2 DEF Follows

(* No other step, and no edit that saves the very row it found, disturbs the
   agreement of an expense with its shares. *)
LEMMA FollowsPreserved ==
    ASSUME IInv, [Next]_vars, NEW e \in Expenses,
           expense[e] # NoExpense => Follows(e),
           expense'[e] # NoExpense,
           \A p \in Procs :
              CommitEdit(p) /\ request[p].id = e /\ ~request[p].recalculate
                => expense[e] # NoExpense /\ request[p].row = expense[e]
    PROVE  Follows(e)'
<1>1. ASSUME expense'[e] = expense[e], shares'[e] = shares[e] PROVE Follows(e)'
  BY <1>1, FollowsUntouched
<1>2. CASE UNCHANGED <<expense, shares>>
  BY <1>1, <1>2
<1>3. ASSUME NEW u \in Users, NEW x \in Expenses, NEW a \in Amounts,
             NEW split \in Splits, CreateExpense(u, x, a, split)
      PROVE  Follows(e)'
  <2>1. CASE x = e
    BY <1>3, <2>1, CreatedFollows
  <2>2. CASE x # e
    BY <1>1, <1>3, <2>2 DEF CreateExpense, IInv, TypeOK
  <2> QED  BY <2>1, <2>2
<1>4. ASSUME NEW p \in Procs, CommitEdit(p) PROVE Follows(e)'
  <2>1. CASE request[p].id # e
    BY <1>1, <1>4, <2>1 DEF CommitEdit, IInv, TypeOK
  <2>2. CASE request[p].id = e /\ request[p].recalculate
    BY <1>4, <2>2, RecalculatedFollows
  <2>3. CASE request[p].id = e /\ ~request[p].recalculate
    <3>1. request[p].row = expense[e]
      BY <1>4, <2>3
    <3>2. expense'[e] = expense[e] /\ shares'[e] = shares[e]
      BY <1>4, <2>3, <3>1 DEF CommitEdit, IInv, TypeOK
    <3> QED  BY <1>1, <3>2
  <2> QED  BY <2>1, <2>2, <2>3
<1>5. ASSUME NEW p \in Procs, CommitDelete(p) PROVE Follows(e)'
  <2>1. CASE request[p].id # e
    BY <1>1, <1>5, <2>1 DEF CommitDelete, IInv, TypeOK
  <2>2. CASE request[p].id = e /\ request[p].row.paidBy \in members
    BY <1>5, <2>2 DEF CommitDelete, IInv, TypeOK
  <2>3. CASE request[p].row.paidBy \notin members
    BY <1>2, <1>5, <2>3 DEF CommitDelete
  <2> QED  BY <2>1, <2>2, <2>3
<1>6. ASSUME NEW u \in Users, AddMember(u) \/ RemoveMember(u) PROVE Follows(e)'
  BY <1>2, <1>6 DEF AddMember, RemoveMember
<1>7. ASSUME NEW p \in Procs, NEW x \in Expenses,
             \/ \E amount \in Optional(Amounts),
                   type \in Optional({split.type : split \in Splits}),
                   data \in Optional({split.data : split \in Splits}) :
                     BeginEdit(p, x, amount, type, data)
             \/ BeginDelete(p, x)
      PROVE  Follows(e)'
  BY <1>2, <1>7 DEF BeginEdit, BeginDelete
<1>8. ASSUME NEW p \in Procs, RefuseEdit(p) PROVE Follows(e)'
  BY <1>2, <1>8 DEF RefuseEdit
<1>9. ASSUME NEW s \in Settlements,
             (\E u, v \in Users : RecordSettlement(u, v, s)) \/ DeleteSettlement(s)
      PROVE  Follows(e)'
  BY <1>2, <1>9 DEF RecordSettlement, DeleteSettlement
<1>10. CASE UNCHANGED vars
  BY <1>2, <1>10 DEF vars
<1> QED
  BY <1>3, <1>4, <1>5, <1>6, <1>7, <1>8, <1>9, <1>10 DEF Next

(* Whatever the number of workers, only an edit that leaves amount and split
   alone can part an expense from its shares, and only over a row that changed
   or was deleted since it was read. *)
THEOREM UnbalancedOnlyByStaleEdits == Spec => OnlyStaleEditsUnbalance
<1>1. ASSUME IInv, [Next]_vars, NEW e \in Expenses,
             expense[e] # NoExpense => Follows(e),
             expense'[e] # NoExpense, ~Follows(e)'
      PROVE  \E p \in Procs : /\ request[p].op = "edit" /\ request[p].id = e
                              /\ ~request[p].recalculate
                              /\ ~Fresh(request[p])
  <2>1. PICK p \in Procs :
          /\ CommitEdit(p) /\ request[p].id = e /\ ~request[p].recalculate
          /\ ~(expense[e] # NoExpense /\ request[p].row = expense[e])
    BY <1>1, FollowsPreserved
  <2>2. ~Fresh(request[p])
    BY <2>1 DEF Fresh
  <2> QED  BY <2>1, <2>2 DEF CommitEdit
<1>2. IInv /\ [Next]_vars =>
        [\A e \in Expenses :
           /\ expense[e] # NoExpense => Follows(e)
           /\ expense'[e] # NoExpense
           /\ ~Follows(e)'
           => \E p \in Procs : /\ request[p].op = "edit" /\ request[p].id = e
                               /\ ~request[p].recalculate
                               /\ ~Fresh(request[p])]_vars
  BY <1>1
<1> QED  BY <1>2, InitIInv, NextIInv, PTL DEF Spec, OnlyStaleEditsUnbalance

-----------------------------------------------------------------------------
(* One worker: an edit in hand is fresh until it is saved, because every other
   handler needs a free worker.  This is what the invariant adds. *)
EditsFresh == \A p \in Procs : request[p].op = "edit" =>
                  /\ expense[request[p].id] # NoExpense
                  /\ ~request[p].recalculate => request[p].row = expense[request[p].id]

SerialInv == IInv /\ SharesFollowRows /\ EditsFresh

(* Nothing is in hand at first. *)
LEMMA InitSerialInv == Init => SerialInv
BY InitIInv DEF Init, SerialInv, SharesFollowRows, EditsFresh, Idle

(* With one worker every step keeps all of it. *)
LEMMA NextSerialInv ==
    ASSUME \A p, q \in Procs : p = q, SerialInv, [Next]_vars
    PROVE  SerialInv'
<1>1. IInv'
  BY NextIInv DEF SerialInv
<1>2. SharesFollowRows'
  <2> SUFFICES ASSUME NEW e \in Expenses, expense'[e] # NoExpense
               PROVE  Follows(e)'
    BY DEF SharesFollowRows
  <2>1. expense[e] # NoExpense => Follows(e)
    BY DEF SerialInv, SharesFollowRows
  <2>2. \A p \in Procs :
           CommitEdit(p) /\ request[p].id = e /\ ~request[p].recalculate
             => expense[e] # NoExpense /\ request[p].row = expense[e]
    BY DEF SerialInv, EditsFresh, CommitEdit
  <2> QED  BY <2>1, <2>2, FollowsPreserved DEF SerialInv
<1>3. EditsFresh'
  <2> SUFFICES ASSUME NEW p \in Procs, request'[p].op = "edit"
               PROVE  /\ expense'[request'[p].id] # NoExpense
                      /\ ~request'[p].recalculate => request'[p].row = expense'[request'[p].id]
    BY DEF EditsFresh
  <2>1. CASE UNCHANGED <<expense, request>>
    BY <2>1 DEF SerialInv, EditsFresh
  <2>2. ASSUME NEW q \in Procs, NEW e \in Expenses,
               NEW amount \in Optional(Amounts),
               NEW type \in Optional({split.type : split \in Splits}),
               NEW data \in Optional({split.data : split \in Splits}),
               BeginEdit(q, e, amount, type, data)
        PROVE  /\ expense'[request'[p].id] # NoExpense
               /\ ~request'[p].recalculate => request'[p].row = expense'[request'[p].id]
    <3> DEFINE row == [expense[e] EXCEPT !.amount = Given(amount, @),
                                         !.type   = Given(type, @),
                                         !.data   = Given(data, @)]
    <3> DEFINE again == amount # {} \/ type # {} \/ data # {}
    <3>1. /\ request' = [request EXCEPT ![q] = [op |-> "edit", id |-> e, row |-> row,
                                               recalculate |-> again]]
          /\ expense[e] # NoExpense
          /\ expense' = expense
      BY <2>2 DEF BeginEdit
    <3>2. ASSUME amount = {}, type = {}, data = {} PROVE row = expense[e]
      <4>1. expense[e] \in ExpenseRows
        BY <3>1 DEF SerialInv, IInv, TypeOK
      <4>2. row = [expense[e] EXCEPT !.amount = @, !.type = @, !.data = @]
        BY <3>2 DEF Given
      <4> QED  BY <4>1, <4>2 DEF ExpenseRows
    <3> HIDE DEF row
    <3>3. ~again => row = expense[e]
      BY <3>2
    <3> HIDE DEF again
    <3>4. /\ request'[p].id = e /\ request'[p].row = row
          /\ request'[p].recalculate = again
      BY <3>1, p = q DEF SerialInv, IInv, TypeOK
    <3> QED  BY <3>1, <3>3, <3>4
  <2>3. ASSUME NEW q \in Procs, request' = [request EXCEPT ![q] = Idle]
        PROVE  FALSE
    BY <2>3 DEF SerialInv, IInv, TypeOK, Idle
  <2>4. ASSUME NEW q \in Procs, NEW e \in Expenses, BeginDelete(q, e)
        PROVE  FALSE
    BY <2>4 DEF BeginDelete, SerialInv, IInv, TypeOK
  <2>5. ASSUME Free, request' = request
        PROVE  FALSE
    BY <2>5 DEF Free, Idle
  <2> QED
    BY <2>1, <2>2, <2>3, <2>4, <2>5
    DEF Next, vars, AddMember, RemoveMember, CreateExpense, CommitEdit, RefuseEdit,
        CommitDelete, RecordSettlement, DeleteSettlement
<1> QED  BY <1>1, <1>2, <1>3 DEF SerialInv

(* While one request is served at a time, every expense is shared out by the
   rules of its own split. *)
THEOREM SerialLedgerExact ==
    ASSUME \A p, q \in Procs : p = q
    PROVE  Spec => []SharesFollowRows
<1>1. Init => SerialInv
  BY InitSerialInv
<1>2. SerialInv /\ [Next]_vars => SerialInv'
  BY NextSerialInv
<1>3. SerialInv => SharesFollowRows
  BY DEF SerialInv
<1> QED  BY <1>1, <1>2, <1>3, PTL DEF Spec

-----------------------------------------------------------------------------
(* Who paid for an expense never changes: whatever row a worker carries, old
   or new, names the payer of the row in the table and of every other row
   carried for the same expense. *)
OnePayer ==
    \A p \in Procs : request[p] # Idle =>
        /\ expense[request[p].id] # NoExpense =>
               request[p].row.paidBy = expense[request[p].id].paidBy
        /\ \A q \in Procs :
               request[q] # Idle /\ request[q].id = request[p].id =>
                   request[q].row.paidBy = request[p].row.paidBy

PayerInv == IInv /\ OnePayer

LEMMA NextPayerInv ==
    ASSUME PayerInv, [Next]_vars
    PROVE  PayerInv'
<1> USE DEF PayerInv
<1>1. IInv'
  BY NextIInv
<1>2. ASSUME UNCHANGED <<expense, request>> PROVE OnePayer'
  BY <1>2 DEF OnePayer
<1>3. ASSUME NEW u \in Users, NEW e \in Expenses, NEW a \in Amounts,
             NEW split \in Splits, CreateExpense(u, e, a, split)
      PROVE  OnePayer'
  <2>1. \A p \in Procs : request[p] # Idle => request[p].id # e
    BY <1>3 DEF CreateExpense, IInv, CarriedIdsIssued
  <2>2. /\ \A x \in Expenses : x # e => expense'[x] = expense[x]
        /\ request' = request
    BY <1>3 DEF CreateExpense, IInv, TypeOK
  <2>3. \A p \in Procs : request[p] # Idle => request[p].id \in Expenses
    BY DEF IInv, TypeOK, Edits, Deletes
  <2> QED  BY <2>1, <2>2, <2>3 DEF OnePayer
<1>4. ASSUME NEW p \in Procs, NEW e \in Expenses, NEW new,
             request' = [request EXCEPT ![p] = new],
             new.id = e, expense[e] # NoExpense,
             new.row.paidBy = expense[e].paidBy, expense' = expense
      PROVE  OnePayer'
  BY <1>4 DEF OnePayer, IInv, TypeOK
<1>5. ASSUME NEW p \in Procs, NEW e \in Expenses,
             NEW amount \in Optional(Amounts),
             NEW type \in Optional({split.type : split \in Splits}),
             NEW data \in Optional({split.data : split \in Splits}),
             BeginEdit(p, e, amount, type, data)
      PROVE  OnePayer'
  <2> DEFINE row == [expense[e] EXCEPT !.amount = Given(amount, @),
                                       !.type   = Given(type, @),
                                       !.data   = Given(data, @)]
             edit == [op |-> "edit", id |-> e, row |-> row,
                      recalculate |-> amount # {} \/ type # {} \/ data # {}]
  <2>1. /\ request' = [request EXCEPT ![p] = edit]
        /\ expense[e] # NoExpense
        /\ expense' = expense
    BY <1>5 DEF BeginEdit
  <2>2. row.paidBy = expense[e].paidBy
    <3>1. expense[e] \in ExpenseRows
      BY <2>1 DEF IInv, TypeOK
    <3> QED  BY <3>1 DEF ExpenseRows
  <2> HIDE DEF row
  <2>3. edit.id = e /\ edit.row.paidBy = expense[e].paidBy
    BY <2>2
  <2> HIDE DEF edit
  <2> QED  BY <1>4, <2>1, <2>3
<1>6. ASSUME NEW p \in Procs, NEW e \in Expenses, BeginDelete(p, e)
      PROVE  OnePayer'
  <2> DEFINE delete == [op |-> "delete", id |-> e, row |-> expense[e]]
  <2>1. /\ request' = [request EXCEPT ![p] = delete]
        /\ expense[e] # NoExpense
        /\ expense' = expense
    BY <1>6 DEF BeginDelete
  <2>2. delete.id = e /\ delete.row.paidBy = expense[e].paidBy
    OBVIOUS
  <2> HIDE DEF delete
  <2> QED  BY <1>4, <2>1, <2>2
<1>7. ASSUME NEW p \in Procs, CommitEdit(p) PROVE OnePayer'
  <2> DEFINE r == request[p]
  <2>1. /\ r # Idle /\ r.id \in Expenses
        /\ expense' = [expense EXCEPT ![r.id] = r.row]
        /\ request' = [request EXCEPT ![p] = Idle]
    BY <1>7, Carried DEF CommitEdit, IInv
  <2> SUFFICES ASSUME NEW q \in Procs, request'[q] # Idle
               PROVE  /\ expense'[request'[q].id] # NoExpense =>
                            request'[q].row.paidBy = expense'[request'[q].id].paidBy
                      /\ \A o \in Procs :
                            request'[o] # Idle /\ request'[o].id = request'[q].id =>
                                request'[o].row.paidBy = request'[q].row.paidBy
    BY DEF OnePayer
  <2>2. q # p /\ request'[q] = request[q]
    BY <2>1 DEF IInv, TypeOK
  <2>3. CASE request[q].id = r.id
    BY <2>1, <2>2, <2>3 DEF OnePayer, IInv, TypeOK
  <2>4. CASE request[q].id # r.id
    <3>1. request[q].id \in Expenses
      BY <2>2 DEF IInv, TypeOK, Edits, Deletes
    <3> QED  BY <2>1, <2>2, <2>4, <3>1 DEF OnePayer, IInv, TypeOK
  <2> QED  BY <2>3, <2>4
<1>8. ASSUME NEW p \in Procs, CommitDelete(p) PROVE OnePayer'
  <2>1. /\ request' = [request EXCEPT ![p] = Idle]
        /\ \A e \in Expenses : expense'[e] # NoExpense => expense'[e] = expense[e]
    BY <1>8, Carried DEF CommitDelete, IInv, TypeOK
  <2>2. \A q \in Procs : request[q] # Idle => request[q].id \in Expenses
    BY DEF IInv, TypeOK, Edits, Deletes
  <2> QED  BY <2>1, <2>2 DEF OnePayer, IInv, TypeOK
<1>9. ASSUME NEW p \in Procs, RefuseEdit(p) PROVE OnePayer'
  BY <1>9 DEF RefuseEdit, OnePayer, IInv, TypeOK
<1>10. ASSUME NEW u \in Users, AddMember(u) \/ RemoveMember(u) PROVE OnePayer'
  BY <1>2, <1>10 DEF AddMember, RemoveMember
<1>11. ASSUME NEW s \in Settlements,
              (\E u, v \in Users : RecordSettlement(u, v, s)) \/ DeleteSettlement(s)
       PROVE  OnePayer'
  BY <1>2, <1>11 DEF RecordSettlement, DeleteSettlement
<1>12. CASE UNCHANGED vars
  BY <1>1, <1>2, <1>12 DEF vars
<1> QED
  BY <1>1, <1>3, <1>5, <1>6, <1>7, <1>8, <1>9, <1>10, <1>11, <1>12 DEF Next

LEMMA ExpensesLeftAlone ==
    ASSUME PayerInv, [Next]_vars, NEW u \in Users \ members, NEW e \in Expenses
    PROVE  ExpenseLeftAlone(u, e)
<1> USE DEF PayerInv
<1>1. ASSUME expense'[e] = expense[e], shares'[e] = shares[e]
      PROVE  ExpenseLeftAlone(u, e)
  BY <1>1 DEF ExpenseLeftAlone
<1>2. CASE UNCHANGED <<expense, shares>>
  BY <1>1, <1>2
<1>3. ASSUME NEW v \in Users, NEW x \in Expenses, NEW a \in Amounts,
             NEW split \in Splits, CreateExpense(v, x, a, split)
      PROVE  ExpenseLeftAlone(u, e)
  <2>1. CASE x # e
    BY <1>1, <1>3, <2>1 DEF CreateExpense, IInv, TypeOK
  <2>2. CASE x = e
    <3>1. expense[e] = NoExpense
      BY <1>3, <2>2 DEF CreateExpense, IInv, TypeOK
    <3>2. expense'[e].paidBy = v /\ v # u
      BY <1>3, <2>2 DEF CreateExpense, IInv, TypeOK
    <3>3. shares'[e] = Shares(members, a, split.type, split.data)
      BY <1>3, <2>2 DEF CreateExpense, IInv, TypeOK
    <3>4. u \notin DOMAIN shares'[e]
      BY <1>3, <3>3, SharesGoToMembers DEF CreateExpense
    <3> QED  BY <3>1, <3>2, <3>4 DEF ExpenseLeftAlone
  <2> QED  BY <2>1, <2>2
<1>4. ASSUME NEW p \in Procs, CommitEdit(p) PROVE ExpenseLeftAlone(u, e)
  <2> DEFINE r == request[p]
  <2>1. CASE r.id # e
    BY <1>1, <1>4, <2>1 DEF CommitEdit, IInv, TypeOK
  <2>2. CASE r.id = e
    <3>1. /\ r # Idle /\ r.row.paidBy \in members
          /\ expense'[e] = r.row
      BY <1>4, <2>2, Carried DEF CommitEdit, CanCommitEdit, IInv, TypeOK
    <3>2. expense[e] # NoExpense => expense[e].paidBy = r.row.paidBy
      BY <2>2, <3>1 DEF OnePayer
    <3>3. u \in DOMAIN shares'[e] => shares'[e] = shares[e]
      <4>1. CASE r.recalculate
        <5>1. shares'[e] = Shares(members, r.row.amount, r.row.type, r.row.data)
          BY <1>4, <2>2, <4>1 DEF CommitEdit, IInv, TypeOK
        <5> QED  BY <1>4, <4>1, <5>1, SharesGoToMembers DEF CommitEdit, CanCommitEdit
      <4>2. CASE ~r.recalculate
        BY <1>4, <4>2 DEF CommitEdit
      <4> QED  BY <4>1, <4>2
    <3> QED  BY <3>1, <3>2, <3>3 DEF ExpenseLeftAlone
  <2> QED  BY <2>1, <2>2
<1>5. ASSUME NEW p \in Procs, CommitDelete(p) PROVE ExpenseLeftAlone(u, e)
  <2> DEFINE r == request[p]
  <2>1. CASE r.id # e \/ r.row.paidBy \notin members
    BY <1>1, <1>5, <2>1 DEF CommitDelete, IInv, TypeOK
  <2>2. CASE r.id = e /\ r.row.paidBy \in members
    <3>1. /\ expense'[e] = NoExpense /\ shares'[e] = NoShares /\ r # Idle
      BY <1>5, <2>2, Carried DEF CommitDelete, IInv, TypeOK
    <3>2. expense[e] # NoExpense => expense[e].paidBy = r.row.paidBy
      BY <2>2, <3>1 DEF OnePayer
    <3> QED  BY <2>2, <3>1, <3>2 DEF ExpenseLeftAlone, NoShares
  <2> QED  BY <2>1, <2>2
<1>6. ASSUME NEW v \in Users, AddMember(v) \/ RemoveMember(v)
      PROVE  ExpenseLeftAlone(u, e)
  BY <1>2, <1>6 DEF AddMember, RemoveMember
<1>7. ASSUME NEW p \in Procs, NEW x \in Expenses,
             \/ \E amount \in Optional(Amounts),
                   type \in Optional({split.type : split \in Splits}),
                   data \in Optional({split.data : split \in Splits}) :
                     BeginEdit(p, x, amount, type, data)
             \/ BeginDelete(p, x)
      PROVE  ExpenseLeftAlone(u, e)
  BY <1>2, <1>7 DEF BeginEdit, BeginDelete
<1>8. ASSUME NEW p \in Procs, RefuseEdit(p) PROVE ExpenseLeftAlone(u, e)
  BY <1>2, <1>8 DEF RefuseEdit
<1>9. ASSUME NEW s \in Settlements,
             (\E v, w \in Users : RecordSettlement(v, w, s)) \/ DeleteSettlement(s)
      PROVE  ExpenseLeftAlone(u, e)
  BY <1>2, <1>9 DEF RecordSettlement, DeleteSettlement
<1>10. CASE UNCHANGED vars
  BY <1>2, <1>10 DEF vars
<1> QED
  BY <1>3, <1>4, <1>5, <1>6, <1>7, <1>8, <1>9, <1>10 DEF Next

LEMMA SettlementsLeftAlone ==
    ASSUME PayerInv, [Next]_vars, NEW u \in Users \ members, NEW s \in Settlements
    PROVE  SettlementLeftAlone(u, s)
<1> USE DEF PayerInv
<1>1. CASE UNCHANGED settlement
  BY <1>1 DEF SettlementLeftAlone
<1>2. ASSUME NEW v \in Users, NEW w \in Users, NEW x \in Settlements,
             RecordSettlement(v, w, x)
      PROVE  SettlementLeftAlone(u, s)
  <2>1. PICK amount \in 1..SuggestedAmount(NetBalances, v, w) :
          settlement' = [settlement EXCEPT ![x] = [from |-> v, to |-> w, amount |-> amount]]
    BY <1>2 DEF RecordSettlement
  <2>2. v # u /\ w # u /\ settlement[x] = NoSettlement
    BY <1>2 DEF RecordSettlement
  <2> QED  BY <2>1, <2>2 DEF SettlementLeftAlone, IInv, TypeOK
<1>3. ASSUME NEW x \in Settlements, DeleteSettlement(x)
      PROVE  SettlementLeftAlone(u, s)
  BY <1>3 DEF DeleteSettlement, SettlementLeftAlone, IInv, TypeOK
<1>4. ASSUME NEW v \in Users, AddMember(v) \/ RemoveMember(v)
      PROVE  SettlementLeftAlone(u, s)
  BY <1>1, <1>4 DEF AddMember, RemoveMember
<1>5. ASSUME NEW v \in Users, NEW e \in Expenses, NEW a \in Amounts,
             NEW split \in Splits, CreateExpense(v, e, a, split)
      PROVE  SettlementLeftAlone(u, s)
  BY <1>1, <1>5 DEF CreateExpense
<1>6. ASSUME NEW p \in Procs, NEW x \in Expenses,
             \/ \E amount \in Optional(Amounts),
                   type \in Optional({split.type : split \in Splits}),
                   data \in Optional({split.data : split \in Splits}) :
                     BeginEdit(p, x, amount, type, data)
             \/ BeginDelete(p, x)
      PROVE  SettlementLeftAlone(u, s)
  BY <1>1, <1>6 DEF BeginEdit, BeginDelete
<1>7. ASSUME NEW p \in Procs, CommitEdit(p) \/ RefuseEdit(p) \/ CommitDelete(p)
      PROVE  SettlementLeftAlone(u, s)
  BY <1>1, <1>7 DEF CommitEdit, RefuseEdit, CommitDelete
<1>8. CASE UNCHANGED vars
  BY <1>1, <1>8 DEF vars
<1> QED
  BY <1>2, <1>3, <1>4, <1>5, <1>6, <1>7, <1>8 DEF Next

(* A user outside the group is never charged, credited or rewritten: rows that
   name them can only be withdrawn, and never by somebody else's hand when it
   is they who paid. *)
THEOREM OutsidersProtected == Spec => OutsidersLeftAlone
<1>1. Init => PayerInv
  BY InitIInv DEF PayerInv, OnePayer, Init, Idle
<1>2. PayerInv /\ [Next]_vars => PayerInv'
  BY NextPayerInv
<1>3. PayerInv /\ [Next]_vars =>
        [\A u \in Users \ members :
           /\ \A e \in Expenses : ExpenseLeftAlone(u, e)
           /\ \A s \in Settlements : SettlementLeftAlone(u, s)]_vars
  BY ExpensesLeftAlone, SettlementsLeftAlone
<1> QED  BY <1>1, <1>2, <1>3, PTL DEF Spec, OutsidersLeftAlone

-----------------------------------------------------------------------------
(* Balances: group_net_balances. *)

(* Shares are whole cents, and a payment is of a cent or more, to somebody else. *)
Valued ==
    /\ \A e \in Expenses : shares[e] \in [DOMAIN shares[e] -> Int]
    /\ \A s \in Settlements : settlement[s] # NoSettlement =>
           settlement[s].amount > 0 /\ settlement[s].from # settlement[s].to

ValueInv == IInv /\ Valued

(* Shares are integers. *)
LEMMA SharesAreCents ==
    ASSUME TypeOK, NEW a \in Int, NEW t \in SplitTypes, NEW d \in Seq(Items),
           Accepts(members, a, t, d)
    PROVE  Shares(members, a, t, d) \in [DOMAIN Shares(members, a, t, d) -> Int]
<1>1. IsFiniteSet(members)
  BY UserIds, FS_Subset DEF TypeOK
<1> QED  BY <1>1, SharesAddUpToAmount

(* There are no rows at first. *)
LEMMA InitValueInv == Init => ValueInv
<1> SUFFICES ASSUME Init PROVE Valued
  BY InitIInv DEF ValueInv
<1>1. NoShares \in [DOMAIN NoShares -> Int]
  BY DEF NoShares
<1> QED  BY <1>1 DEF Init, Valued

(* Every handler writes shares and payments of that kind. *)
LEMMA NextValueInv == ValueInv /\ [Next]_vars => ValueInv'
<1> SUFFICES ASSUME ValueInv, [Next]_vars PROVE Valued'
  BY NextIInv DEF ValueInv
<1>0. TypeOK
  BY DEF ValueInv, IInv
<1>1. CASE UNCHANGED <<shares, settlement>>
  BY <1>1 DEF ValueInv, Valued
<1>2. ASSUME NEW e \in Expenses, NEW new, shares' = [shares EXCEPT ![e] = new],
             new \in [DOMAIN new -> Int], UNCHANGED settlement
      PROVE  Valued'
  <2>1. \A x \in Expenses : shares'[x] = IF x = e THEN new ELSE shares[x]
    BY <1>0, <1>2 DEF TypeOK
  <2>2. \A x \in Expenses : shares'[x] \in [DOMAIN shares'[x] -> Int]
    <3> SUFFICES ASSUME NEW x \in Expenses PROVE shares'[x] \in [DOMAIN shares'[x] -> Int]
      OBVIOUS
    <3>1. CASE x = e
      BY <1>2, <2>1, <3>1, Zenon
    <3>2. CASE x # e
      <4>1. shares'[x] = shares[x]
        BY <2>1, <3>2
      <4>2. shares[x] \in [DOMAIN shares[x] -> Int]
        BY DEF ValueInv, Valued
      <4> QED  BY <4>1, <4>2, Zenon
    <3> QED  BY <3>1, <3>2
  <2> QED  BY <1>2, <2>2 DEF ValueInv, Valued
<1>3. ASSUME NEW u \in Users, NEW e \in Expenses, NEW a \in Amounts,
             NEW split \in Splits, CreateExpense(u, e, a, split)
      PROVE  Valued'
  <2> DEFINE new == Shares(members, a, split.type, split.data)
  <2>1. a \in Int /\ split.type \in SplitTypes /\ split.data \in Seq(Items)
    BY LedgerConstants
  <2>2. new \in [DOMAIN new -> Int]
    BY <1>0, <1>3, <2>1, SharesAreCents DEF CreateExpense
  <2>3. shares' = [shares EXCEPT ![e] = new] /\ UNCHANGED settlement
    BY <1>3 DEF CreateExpense
  <2> HIDE DEF new
  <2> QED  BY <1>2, <2>2, <2>3
<1>4. ASSUME NEW p \in Procs, CommitEdit(p) PROVE Valued'
  <2> DEFINE r == request[p]
             new == Shares(members, r.row.amount, r.row.type, r.row.data)
  <2>1. r.row \in ExpenseRows /\ r.id \in Expenses
    BY <1>0, <1>4, Carried DEF CommitEdit
  <2>2. r.row.amount \in Int /\ r.row.type \in SplitTypes /\ r.row.data \in Seq(Items)
    BY <2>1 DEF ExpenseRows
  <2>3. CASE r.recalculate
    <3>1. Accepts(members, r.row.amount, r.row.type, r.row.data)
      BY <1>4, <2>3 DEF CommitEdit, CanCommitEdit
    <3>2. new \in [DOMAIN new -> Int]
      <4> HIDE DEF r
      <4> QED  BY <1>0, <2>2, <3>1, SharesAreCents
    <3>3. shares' = [shares EXCEPT ![r.id] = new] /\ UNCHANGED settlement
      BY <1>4, <2>3 DEF CommitEdit
    <3> HIDE DEF new, r
    <3> QED  BY <1>2, <2>1, <3>2, <3>3
  <2>4. CASE ~r.recalculate
    BY <1>1, <1>4, <2>4 DEF CommitEdit
  <2> QED  BY <2>3, <2>4
<1>5. ASSUME NEW p \in Procs, CommitDelete(p) PROVE Valued'
  <2>1. request[p].id \in Expenses
    BY <1>0, <1>5, Carried DEF CommitDelete
  <2>2. CASE request[p].row.paidBy \in members
    <3>1. shares' = [shares EXCEPT ![request[p].id] = NoShares] /\ UNCHANGED settlement
      BY <1>5, <2>2 DEF CommitDelete
    <3>2. NoShares \in [DOMAIN NoShares -> Int]
      BY DEF NoShares
    <3> QED  BY <1>2, <2>1, <3>1, <3>2
  <2>3. CASE request[p].row.paidBy \notin members
    BY <1>1, <1>5, <2>3 DEF CommitDelete
  <2> QED  BY <2>2, <2>3
<1>6. ASSUME NEW u \in Users, NEW v \in Users, NEW s \in Settlements, RecordSettlement(u, v, s)
      PROVE  Valued'
  <2>1. PICK a \in 1..SuggestedAmount(NetBalances, u, v) :
          settlement' = [settlement EXCEPT ![s] = [from |-> u, to |-> v, amount |-> a]]
    BY <1>6 DEF RecordSettlement
  <2>2. a > 0 /\ u # v /\ UNCHANGED shares
    BY <1>6, <2>1 DEF RecordSettlement
  <2>3. \A x \in Settlements : settlement'[x] # NoSettlement =>
            settlement'[x].amount > 0 /\ settlement'[x].from # settlement'[x].to
    BY <1>0, <2>1, <2>2 DEF ValueInv, Valued, TypeOK
  <2> QED  BY <2>2, <2>3 DEF ValueInv, Valued
<1>7. ASSUME NEW s \in Settlements, DeleteSettlement(s) PROVE Valued'
  <2>1. \A x \in Settlements : settlement'[x] # NoSettlement => settlement'[x] = settlement[x]
    BY <1>0, <1>7 DEF DeleteSettlement, TypeOK
  <2>2. UNCHANGED shares
    BY <1>7 DEF DeleteSettlement
  <2> QED  BY <2>1, <2>2 DEF ValueInv, Valued
<1>8. ASSUME NEW u \in Users, AddMember(u) \/ RemoveMember(u) PROVE Valued'
  BY <1>1, <1>8 DEF AddMember, RemoveMember
<1>9. ASSUME NEW p \in Procs, NEW x \in Expenses,
             \/ \E amount \in Optional(Amounts),
                   type \in Optional({split.type : split \in Splits}),
                   data \in Optional({split.data : split \in Splits}) :
                     BeginEdit(p, x, amount, type, data)
             \/ BeginDelete(p, x)
      PROVE  Valued'
  BY <1>1, <1>9 DEF BeginEdit, BeginDelete
<1>10. ASSUME NEW p \in Procs, RefuseEdit(p) PROVE Valued'
  BY <1>1, <1>10 DEF RefuseEdit
<1>11. CASE UNCHANGED vars
  BY <1>1, <1>11 DEF vars
<1> QED
  BY <1>3, <1>4, <1>5, <1>6, <1>7, <1>8, <1>9, <1>10, <1>11 DEF Next

(* What one row adds to each of the four sums behind a balance. *)
PaidFor(e, u) == IF expense[e] # NoExpense /\ expense[e].paidBy = u THEN expense[e].amount ELSE 0
OwedFor(e, u) == IF u \in DOMAIN shares[e] THEN shares[e][u] ELSE 0
SentBy(s, u) == IF settlement[s] # NoSettlement /\ settlement[s].from = u THEN settlement[s].amount ELSE 0
SentTo(s, u) == IF settlement[s] # NoSettlement /\ settlement[s].to = u THEN settlement[s].amount ELSE 0

(* All of them are integers, and payments are not negative. *)
LEMMA RowsAreCents ==
    ASSUME ValueInv
    PROVE  /\ \A e \in Expenses : \A u : PaidFor(e, u) \in Int /\ OwedFor(e, u) \in Int
           /\ \A s \in Settlements : \A u : /\ SentBy(s, u) \in Int /\ SentBy(s, u) >= 0
                                        /\ SentTo(s, u) \in Int /\ SentTo(s, u) >= 0
<1>1. \A e \in Expenses : expense[e] # NoExpense => expense[e].amount \in Int
  BY DEF ValueInv, IInv, TypeOK, ExpenseRows
<1>2. \A s \in Settlements : settlement[s] # NoSettlement =>
          settlement[s].amount \in Int /\ settlement[s].amount > 0
  BY DEF ValueInv, Valued, IInv, TypeOK, SettlementRows
<1>3. \A e \in Expenses : \A u : u \in DOMAIN shares[e] => shares[e][u] \in Int
  BY DEF ValueInv, Valued
<1> QED  BY <1>1, <1>2, <1>3 DEF PaidFor, OwedFor, SentBy, SentTo

(* The four sums, by rows. *)
LEMMA BalanceParts ==
    ASSUME NEW u
    PROVE  /\ Paid(u) = SumFunction([e \in Expenses |-> PaidFor(e, u)])
           /\ Owed(u) = SumFunction([e \in Expenses |-> OwedFor(e, u)])
           /\ PaidBack(u) = SumFunction([s \in Settlements |-> SentBy(s, u)])
           /\ GotBack(u) = SumFunction([s \in Settlements |-> SentTo(s, u)])
BY DEF Paid, Owed, PaidBack, GotBack, PaidFor, OwedFor, SentBy, SentTo

(* They are integers. *)
LEMMA BalancePartsType ==
    ASSUME ValueInv, NEW u
    PROVE  /\ Paid(u) \in Int /\ Owed(u) \in Int
           /\ PaidBack(u) \in Int /\ GotBack(u) \in Int
<1> DEFINE f == [e \in Expenses |-> PaidFor(e, u)]
           g == [e \in Expenses |-> OwedFor(e, u)]
           h == [s \in Settlements |-> SentBy(s, u)]
           k == [s \in Settlements |-> SentTo(s, u)]
<1>1. f \in [Expenses -> Int] /\ g \in [Expenses -> Int]
  BY RowsAreCents
<1>2. h \in [Settlements -> Int] /\ k \in [Settlements -> Int]
  BY RowsAreCents
<1>3. /\ Paid(u) = SumFunction(f) /\ Owed(u) = SumFunction(g)
      /\ PaidBack(u) = SumFunction(h) /\ GotBack(u) = SumFunction(k)
  BY BalanceParts
<1> HIDE DEF f, g, h, k
<1>4. SumFunction(f) \in Int /\ SumFunction(g) \in Int
  BY <1>1, SumType, LedgerConstants
<1>5. SumFunction(h) \in Int /\ SumFunction(k) \in Int
  BY <1>2, SumType, LedgerConstants
<1> QED  BY <1>3, <1>4, <1>5

(* And so are the balances. *)
LEMMA NetBalancesType ==
    ASSUME ValueInv
    PROVE  /\ NetBalances \in Balances
           /\ \A u \in Users : NetBalances[u] = Paid(u) - Owed(u) + PaidBack(u) - GotBack(u)
<1>1. \A u \in Users : Paid(u) - Owed(u) + PaidBack(u) - GotBack(u) \in Int
  BY BalancePartsType
<1> QED  BY <1>1 DEF NetBalances, Balances

(* Rows of expenses and shares that stay leave their two sums as they are. *)
LEMMA ExpensePartsSame ==
    ASSUME UNCHANGED <<expense, shares>>, NEW u
    PROVE  Paid(u)' = Paid(u) /\ Owed(u)' = Owed(u)
BY DEF Paid, Owed

(* A settlement row that comes or goes changes the other two sums by what it
   holds for each user. *)
LEMMA SettlementChange ==
    ASSUME ValueInv, ValueInv', NEW s \in Settlements, NEW u,
           \A x \in Settlements : x # s => settlement'[x] = settlement[x]
    PROVE  /\ PaidBack(u)' = PaidBack(u) - SentBy(s, u) + SentBy(s, u)'
           /\ GotBack(u)' = GotBack(u) - SentTo(s, u) + SentTo(s, u)'
<1> DEFINE h == [x \in Settlements |-> SentBy(x, u)]
           k == [x \in Settlements |-> SentTo(x, u)]
           hh == [x \in Settlements |-> SentBy(x, u)']
           kk == [x \in Settlements |-> SentTo(x, u)']
<1>1. h \in [Settlements -> Int] /\ k \in [Settlements -> Int]
  BY RowsAreCents
<1>2. \A x \in Settlements : SentBy(x, u)' \in Int /\ SentTo(x, u)' \in Int
  <2>1. \A x \in Settlements : settlement'[x] # NoSettlement => settlement'[x].amount \in Int
    BY DEF ValueInv, IInv, TypeOK, SettlementRows
  <2> QED  BY <2>1 DEF SentBy, SentTo
<1>3. hh \in [Settlements -> Int] /\ kk \in [Settlements -> Int]
  BY <1>2
<1>4. \A x \in Settlements \ {s} : hh[x] = h[x] /\ kk[x] = k[x]
  BY DEF SentBy, SentTo
<1>5. PaidBack(u) = SumFunction(h) /\ GotBack(u) = SumFunction(k)
  BY BalanceParts
<1>6. PaidBack(u)' = SumFunction(hh) /\ GotBack(u)' = SumFunction(kk)
  BY DEF PaidBack, GotBack, SentBy, SentTo
<1>7. h[s] = SentBy(s, u) /\ hh[s] = SentBy(s, u)' /\ k[s] = SentTo(s, u) /\ kk[s] = SentTo(s, u)'
  OBVIOUS
<1> HIDE DEF h, k, hh, kk
<1>8. SumFunction(hh) = SumFunction(h) - h[s] + hh[s]
  BY <1>1, <1>3, <1>4, SumUpdate, LedgerConstants
<1>9. SumFunction(kk) = SumFunction(k) - k[s] + kk[s]
  BY <1>1, <1>3, <1>4, SumUpdate, LedgerConstants
<1> QED  BY <1>5, <1>6, <1>7, <1>8, <1>9

(* Settled, told by user. *)
LEMMA SettledByUser ==
    ASSUME NEW b \in Balances, NEW u \in Users, NEW v \in Users, u # v, NEW a \in Int,
           NEW c, c = [w \in Users |-> c[w]],
           \A w \in Users : c[w] = b[w] + (IF w = u THEN a ELSE 0) - (IF w = v THEN a ELSE 0)
    PROVE  c = Settled(b, u, v, a)
<1> DEFINE d == Settled(b, u, v, a)
<1>1. /\ d \in Balances /\ d[u] = b[u] + a /\ d[v] = b[v] - a
      /\ \A w \in Users : w # u /\ w # v => d[w] = b[w]
  BY SettledKeepsSum
<1>2. d = [w \in Users |-> d[w]]
  BY <1>1 DEF Balances
<1> HIDE DEF d
<1>3. \A w \in Users : b[w] \in Int
  BY DEF Balances
<1>4. \A w \in Users : c[w] = d[w]
  BY <1>1, <1>3
<1>5. [w \in Users |-> c[w]] = [w \in Users |-> d[w]]
  BY <1>4
<1> QED  BY <1>2, <1>5 DEF d

(* A recorded payment does to the balances what Settled says, and a payment
   taken back undoes it. *)
LEMMA RecordMoves ==
    ASSUME ValueInv, ValueInv', NEW u \in Users, NEW v \in Users, NEW s \in Settlements,
           RecordSettlement(u, v, s)
    PROVE  \E a \in 1..SuggestedAmount(NetBalances, u, v) :
              /\ settlement'[s] = [from |-> u, to |-> v, amount |-> a]
              /\ \A x \in Settlements : x # s => settlement'[x] = settlement[x]
              /\ NetBalances' = Settled(NetBalances, u, v, a)
<1>1. PICK a \in 1..SuggestedAmount(NetBalances, u, v) :
        settlement' = [settlement EXCEPT ![s] = [from |-> u, to |-> v, amount |-> a]]
  BY DEF RecordSettlement
<1>2. u # v /\ settlement[s] = NoSettlement /\ UNCHANGED <<expense, shares>>
  BY DEF RecordSettlement
<1>3. a \in Int
  OBVIOUS
<1>4. /\ settlement'[s] = [from |-> u, to |-> v, amount |-> a]
      /\ \A x \in Settlements : x # s => settlement'[x] = settlement[x]
  BY <1>1 DEF ValueInv, IInv, TypeOK
<1>5. settlement'[s] # NoSettlement
  <2>1. [from |-> u, to |-> v, amount |-> a] \in SettlementRows
    BY <1>3 DEF SettlementRows
  <2> QED  BY <1>4, <2>1, LedgerConstants
<1>6. \A w \in Users : /\ SentBy(s, w) = 0 /\ SentTo(s, w) = 0
                       /\ SentBy(s, w)' = (IF w = u THEN a ELSE 0)
                       /\ SentTo(s, w)' = (IF w = v THEN a ELSE 0)
  BY <1>2, <1>4, <1>5 DEF SentBy, SentTo
<1>7. \A w \in Users : NetBalances'[w] = NetBalances[w] + (IF w = u THEN a ELSE 0)
                                                        - (IF w = v THEN a ELSE 0)
  <2> SUFFICES ASSUME NEW w \in Users
               PROVE  NetBalances'[w] = NetBalances[w] + (IF w = u THEN a ELSE 0)
                                                       - (IF w = v THEN a ELSE 0)
    OBVIOUS
  <2>1. NetBalances'[w] = Paid(w)' - Owed(w)' + PaidBack(w)' - GotBack(w)'
    BY DEF NetBalances
  <2>2. NetBalances[w] = Paid(w) - Owed(w) + PaidBack(w) - GotBack(w)
    BY DEF NetBalances
  <2>3. Paid(w)' = Paid(w) /\ Owed(w)' = Owed(w)
    BY <1>2, ExpensePartsSame
  <2>4. /\ PaidBack(w)' = PaidBack(w) - SentBy(s, w) + SentBy(s, w)'
        /\ GotBack(w)' = GotBack(w) - SentTo(s, w) + SentTo(s, w)'
    BY <1>4, SettlementChange
  <2>5. Paid(w) \in Int /\ Owed(w) \in Int /\ PaidBack(w) \in Int /\ GotBack(w) \in Int
    BY BalancePartsType
  <2> DEFINE x == IF w = u THEN a ELSE 0
             y == IF w = v THEN a ELSE 0
             owned == Paid(w) - Owed(w)
  <2>6. x \in Int /\ y \in Int /\ owned \in Int
    BY <1>3, <2>5
  <2>7. PaidBack(w)' = PaidBack(w) + x /\ GotBack(w)' = GotBack(w) + y
    BY <1>6, <2>4, <2>5, <2>6
  <2>8. /\ NetBalances'[w] = owned + PaidBack(w)' - GotBack(w)'
        /\ NetBalances[w] = owned + PaidBack(w) - GotBack(w)
    BY <2>1, <2>2, <2>3
  <2> DEFINE sent == PaidBack(w)
             got == GotBack(w)
  <2>9. /\ NetBalances'[w] = owned + (sent + x) - (got + y)
        /\ NetBalances[w] = owned + sent - got
        /\ sent \in Int /\ got \in Int
    BY <2>5, <2>7, <2>8
  <2> HIDE DEF x, y, owned, sent, got
  <2>10. owned + (sent + x) - (got + y) = (owned + sent - got) + x - y
    BY <2>6, <2>9
  <2>11. NetBalances'[w] = NetBalances[w] + x - y
    BY <2>9, <2>10, Zenon
  <2> QED  BY <2>11 DEF x, y
<1>8. NetBalances \in [Users -> Int] /\ NetBalances' = [w \in Users |-> NetBalances'[w]]
  BY NetBalancesType DEF Balances, NetBalances
<1>9. NetBalances' = Settled(NetBalances, u, v, a)
  <2> DEFINE b == NetBalances
             c == NetBalances'
  <2>1. b \in Balances /\ c = [w \in Users |-> c[w]]
    BY <1>8 DEF Balances
  <2>2. \A w \in Users : c[w] = b[w] + (IF w = u THEN a ELSE 0) - (IF w = v THEN a ELSE 0)
    BY <1>7
  <2> HIDE DEF b, c
  <2>3. c = Settled(b, u, v, a)
    BY <1>2, <1>3, <2>1, <2>2, SettledByUser
  <2> QED  BY <2>3 DEF b, c
<1> QED  BY <1>4, <1>9

(* A payment taken back moves the balances the other way. *)
LEMMA TakeBackMoves ==
    ASSUME ValueInv, ValueInv', NEW s \in Settlements, DeleteSettlement(s)
    PROVE  LET row == settlement[s]
           IN  /\ row \in SettlementRows /\ row.amount > 0 /\ row.from # row.to
               /\ NetBalances' = Settled(NetBalances, row.from, row.to, -row.amount)
<1> DEFINE row == settlement[s]
           u == row.from
           v == row.to
           a == row.amount
<1>1. /\ row # NoSettlement /\ row \in SettlementRows
      /\ u \in Users /\ v \in Users /\ u # v /\ a \in Int /\ a > 0
  BY DEF ValueInv, IInv, TypeOK, Valued, DeleteSettlement, SettlementRows
<1>2. /\ settlement'[s] = NoSettlement /\ UNCHANGED <<expense, shares>>
      /\ \A x \in Settlements : x # s => settlement'[x] = settlement[x]
  BY DEF ValueInv, IInv, TypeOK, DeleteSettlement
<1>3. \A w \in Users : /\ SentBy(s, w) = (IF w = u THEN a ELSE 0)
                       /\ SentTo(s, w) = (IF w = v THEN a ELSE 0)
                       /\ SentBy(s, w)' = 0 /\ SentTo(s, w)' = 0
  BY <1>1, <1>2 DEF SentBy, SentTo
<1> HIDE DEF row, u, v, a
<1> DEFINE back == -a
<1>4. back \in Int
  BY <1>1
<1>5. \A w \in Users : NetBalances'[w] = NetBalances[w] + (IF w = u THEN back ELSE 0)
                                                        - (IF w = v THEN back ELSE 0)
  <2> SUFFICES ASSUME NEW w \in Users
               PROVE  NetBalances'[w] = NetBalances[w] + (IF w = u THEN back ELSE 0)
                                                       - (IF w = v THEN back ELSE 0)
    OBVIOUS
  <2>1. NetBalances'[w] = Paid(w)' - Owed(w)' + PaidBack(w)' - GotBack(w)'
    BY DEF NetBalances
  <2>2. NetBalances[w] = Paid(w) - Owed(w) + PaidBack(w) - GotBack(w)
    BY DEF NetBalances
  <2>3. Paid(w)' = Paid(w) /\ Owed(w)' = Owed(w)
    BY <1>2, ExpensePartsSame
  <2>4. /\ PaidBack(w)' = PaidBack(w) - SentBy(s, w) + SentBy(s, w)'
        /\ GotBack(w)' = GotBack(w) - SentTo(s, w) + SentTo(s, w)'
    BY <1>2, SettlementChange
  <2>5. Paid(w) \in Int /\ Owed(w) \in Int /\ PaidBack(w) \in Int /\ GotBack(w) \in Int
    BY BalancePartsType
  <2> DEFINE x == IF w = u THEN back ELSE 0
             y == IF w = v THEN back ELSE 0
             owned == Paid(w) - Owed(w)
             sent == PaidBack(w)
             got == GotBack(w)
  <2>6. x \in Int /\ y \in Int /\ owned \in Int
    BY <1>4, <2>5
  <2>7. PaidBack(w)' = PaidBack(w) + x /\ GotBack(w)' = GotBack(w) + y
    BY <1>1, <1>3, <2>4, <2>5
  <2>8. /\ NetBalances'[w] = owned + PaidBack(w)' - GotBack(w)'
        /\ NetBalances[w] = owned + PaidBack(w) - GotBack(w)
    BY <2>1, <2>2, <2>3
  <2>9. /\ NetBalances'[w] = owned + (sent + x) - (got + y)
        /\ NetBalances[w] = owned + sent - got
        /\ sent \in Int /\ got \in Int
    BY <2>5, <2>7, <2>8
  <2> HIDE DEF x, y, owned, sent, got
  <2>10. owned + (sent + x) - (got + y) = (owned + sent - got) + x - y
    BY <2>6, <2>9
  <2>11. NetBalances'[w] = NetBalances[w] + x - y
    BY <2>9, <2>10, Zenon
  <2> QED  BY <2>11 DEF x, y
<1>6. NetBalances \in Balances /\ NetBalances' = [w \in Users |-> NetBalances'[w]]
  BY NetBalancesType DEF NetBalances
<1>7. NetBalances' = Settled(NetBalances, u, v, back)
  <2> DEFINE b == NetBalances
             c == NetBalances'
  <2>1. b \in Balances /\ c = [w \in Users |-> c[w]]
    BY <1>6
  <2>2. \A w \in Users : c[w] = b[w] + (IF w = u THEN back ELSE 0) - (IF w = v THEN back ELSE 0)
    BY <1>5
  <2> HIDE DEF b, c, back
  <2>3. c = Settled(b, u, v, back)
    BY <1>1, <1>4, <2>1, <2>2, SettledByUser
  <2> QED  BY <2>3 DEF b, c
<1> QED  BY <1>1, <1>7 DEF row, u, v, a

(* NetBalancesType in one line. *)
LEMMA BalancesAreCents == ValueInv => NetBalances \in Balances
BY NetBalancesType

(* Only recording a payment adds a settlement. *)
LEMMA NewSettlement ==
    ASSUME ValueInv, [Next]_vars, NEW s \in Settlements,
           settlement[s] = NoSettlement, settlement'[s] # NoSettlement
    PROVE  \E u, v \in Users : RecordSettlement(u, v, s)
<1>1. ASSUME NEW u \in Users, NEW v \in Users, NEW x \in Settlements, RecordSettlement(u, v, x)
      PROVE  x = s
  BY <1>1 DEF RecordSettlement, ValueInv, IInv, TypeOK
<1>2. ASSUME NEW x \in Settlements, DeleteSettlement(x) PROVE FALSE
  BY <1>2 DEF DeleteSettlement, ValueInv, IInv, TypeOK
<1>3. CASE UNCHANGED settlement
  BY <1>3
<1>4. ASSUME NEW u \in Users, AddMember(u) \/ RemoveMember(u) PROVE UNCHANGED settlement
  BY <1>4 DEF AddMember, RemoveMember
<1>5. ASSUME NEW u \in Users, NEW e \in Expenses, NEW a \in Amounts, NEW split \in Splits,
             CreateExpense(u, e, a, split)
      PROVE  UNCHANGED settlement
  BY <1>5 DEF CreateExpense
<1>6. ASSUME NEW p \in Procs, NEW e \in Expenses,
             \/ \E amount \in Optional(Amounts),
                   type \in Optional({split.type : split \in Splits}),
                   data \in Optional({split.data : split \in Splits}) :
                     BeginEdit(p, e, amount, type, data)
             \/ BeginDelete(p, e)
      PROVE  UNCHANGED settlement
  BY <1>6 DEF BeginEdit, BeginDelete
<1>7. ASSUME NEW p \in Procs, CommitEdit(p) \/ RefuseEdit(p) \/ CommitDelete(p)
      PROVE  UNCHANGED settlement
  BY <1>7 DEF CommitEdit, RefuseEdit, CommitDelete
<1>8. CASE UNCHANGED vars
  BY <1>3, <1>8 DEF vars
<1> QED  BY <1>1, <1>2, <1>3, <1>4, <1>5, <1>6, <1>7, <1>8 DEF Next

(* A recorded payment never takes its payer or its recipient past zero, with any
   number of workers and on any books: the limit is read under the group lock
   (RecordSettlementView.post). *)
THEOREM PaymentsAreWithinBounds == Spec => PaymentsNeverOvershoot
<1>1. Init => ValueInv
  BY InitValueInv
<1>2. ValueInv /\ [Next]_vars => ValueInv'
  BY NextValueInv
<1>3. ValueInv /\ ValueInv' /\ [Next]_vars =>
        [\A s \in Settlements :
            settlement[s] = NoSettlement /\ settlement'[s] # NoSettlement =>
              /\ NetBalances'[settlement'[s].from] <= 0
              /\ NetBalances'[settlement'[s].to] >= 0]_vars
  <2> SUFFICES ASSUME ValueInv, ValueInv', [Next]_vars, NEW s \in Settlements,
                      settlement[s] = NoSettlement, settlement'[s] # NoSettlement
               PROVE  /\ NetBalances'[settlement'[s].from] <= 0
                      /\ NetBalances'[settlement'[s].to] >= 0
    OBVIOUS
  <2>1. PICK u \in Users, v \in Users : RecordSettlement(u, v, s)
    BY NewSettlement
  <2>2. PICK a \in 1..SuggestedAmount(NetBalances, u, v) :
            /\ settlement'[s] = [from |-> u, to |-> v, amount |-> a]
            /\ NetBalances' = Settled(NetBalances, u, v, a)
    BY <2>1, RecordMoves
  <2> DEFINE b == NetBalances
             c == NetBalances'
  <2>3. b \in Balances
    BY NetBalancesType
  <2>4. u # v
    BY <2>1 DEF RecordSettlement
  <2>5. a \in 1..SuggestedAmount(b, u, v) /\ c = Settled(b, u, v, a)
    BY <2>2
  <2> HIDE DEF b, c
  <2>6. /\ SuggestedAmount(b, u, v) \in Nat
        /\ SuggestedAmount(b, u, v) > 0 => /\ SuggestedAmount(b, u, v) <= -b[u]
                                           /\ SuggestedAmount(b, u, v) <= b[v]
    BY <2>3, SuggestedAmountFacts
  <2>7. a \in Int /\ a <= -b[u] /\ a <= b[v]
    BY <2>3, <2>5, <2>6 DEF Balances
  <2>8. c[u] = b[u] + a /\ c[v] = b[v] - a
    BY <2>3, <2>4, <2>5, <2>7, SettledKeepsSum
  <2>9. c[u] <= 0 /\ c[v] >= 0
    BY <2>3, <2>7, <2>8 DEF Balances
  <2> QED  BY <2>2, <2>9 DEF c
<1> QED  BY <1>1, <1>2, <1>3, PTL DEF Spec, PaymentsNeverOvershoot

-----------------------------------------------------------------------------
(* What a step does to the balance of somebody outside the group. *)
LEMMA OutsiderOwesNoMore ==
    ASSUME PayerInv, ValueInv, ValueInv', [Next]_vars, NEW u \in Users \ members, ~NegativeShares(u)
    PROVE  NetBalances'[u] >= NetBalances[u]
<1> DEFINE f == [e \in Expenses |-> PaidFor(e, u)]
           g == [e \in Expenses |-> OwedFor(e, u)]
           h == [s \in Settlements |-> SentBy(s, u)]
           k == [s \in Settlements |-> SentTo(s, u)]
           ff == [e \in Expenses |-> PaidFor(e, u)']
           gg == [e \in Expenses |-> OwedFor(e, u)']
           hh == [s \in Settlements |-> SentBy(s, u)']
           kk == [s \in Settlements |-> SentTo(s, u)']
<1>1. \A e \in Expenses : ExpenseLeftAlone(u, e)
  BY ExpensesLeftAlone
<1>2. \A s \in Settlements : SettlementLeftAlone(u, s)
  BY SettlementsLeftAlone
<1>3. ff = f
  <2>1. \A e \in Expenses : PaidFor(e, u)' = PaidFor(e, u)
    BY <1>1 DEF ExpenseLeftAlone, PaidFor
  <2> QED  BY <2>1
<1>4. hh = h
  <2>1. \A s \in Settlements : SentBy(s, u)' = SentBy(s, u)
    BY <1>2 DEF SettlementLeftAlone, SentBy
  <2> QED  BY <2>1
<1>5. g \in [Expenses -> Int] /\ k \in [Settlements -> Int]
  BY RowsAreCents
<1>6. \A e \in Expenses : OwedFor(e, u)' \in Int /\ OwedFor(e, u)' <= OwedFor(e, u)
  <2> SUFFICES ASSUME NEW e \in Expenses
               PROVE  OwedFor(e, u)' \in Int /\ OwedFor(e, u)' <= OwedFor(e, u)
    OBVIOUS
  <2>1. OwedFor(e, u) \in Int /\ OwedFor(e, u) >= 0
    <3>1. OwedFor(e, u) \in Int
      BY RowsAreCents
    <3>2. u \in DOMAIN shares[e] => ~(shares[e][u] < 0)
      BY DEF NegativeShares
    <3> QED  BY <3>1, <3>2 DEF OwedFor
  <2>2. OwedFor(e, u)' = OwedFor(e, u) \/ OwedFor(e, u)' = 0
    BY <1>1 DEF ExpenseLeftAlone, OwedFor
  <2> QED  BY <2>1, <2>2
<1>7. \A s \in Settlements : SentTo(s, u)' \in Int /\ SentTo(s, u)' <= SentTo(s, u)
  <2> SUFFICES ASSUME NEW s \in Settlements
               PROVE  SentTo(s, u)' \in Int /\ SentTo(s, u)' <= SentTo(s, u)
    OBVIOUS
  <2>1. SentTo(s, u) \in Int /\ SentTo(s, u) >= 0
    BY RowsAreCents
  <2>2. SentTo(s, u)' = SentTo(s, u) \/ SentTo(s, u)' = 0
    BY <1>2 DEF SettlementLeftAlone, SentTo
  <2> QED  BY <2>1, <2>2
<1>8. gg \in [Expenses -> Int] /\ kk \in [Settlements -> Int]
  BY <1>6, <1>7
<1>9. /\ \A e \in Expenses : gg[e] <= g[e]
      /\ \A s \in Settlements : kk[s] <= k[s]
  BY <1>6, <1>7
<1>10. /\ Paid(u) = SumFunction(f) /\ Owed(u) = SumFunction(g)
       /\ PaidBack(u) = SumFunction(h) /\ GotBack(u) = SumFunction(k)
  BY BalanceParts
<1>11. /\ Paid(u)' = SumFunction(ff) /\ Owed(u)' = SumFunction(gg)
       /\ PaidBack(u)' = SumFunction(hh) /\ GotBack(u)' = SumFunction(kk)
  BY DEF Paid, Owed, PaidBack, GotBack, PaidFor, OwedFor, SentBy, SentTo
<1> HIDE DEF f, g, h, k, ff, gg, hh, kk
<1>12. SumFunction(gg) <= SumFunction(g) /\ SumFunction(gg) \in Int
  BY <1>5, <1>8, <1>9, SumMonotone, SumType, LedgerConstants
<1>13. SumFunction(kk) <= SumFunction(k) /\ SumFunction(kk) \in Int
  BY <1>5, <1>8, <1>9, SumMonotone, SumType, LedgerConstants
<1> DEFINE p == Paid(u)
           q == Owed(u)
           r == PaidBack(u)
           t == GotBack(u)
           qq == SumFunction(gg)
           tt == SumFunction(kk)
<1>14. p \in Int /\ q \in Int /\ r \in Int /\ t \in Int
  BY BalancePartsType
<1>15. NetBalances[u] = p - q + r - t
  BY DEF NetBalances
<1>16. NetBalances'[u] = Paid(u)' - Owed(u)' + PaidBack(u)' - GotBack(u)'
  BY DEF NetBalances
<1>17. NetBalances'[u] = p - qq + r - tt
  BY <1>3, <1>4, <1>10, <1>11, <1>16
<1>18. qq \in Int /\ tt \in Int /\ qq <= q /\ tt <= t
  BY <1>10, <1>12, <1>13
<1> HIDE DEF p, q, r, t, qq, tt
<1> QED  BY <1>14, <1>15, <1>17, <1>18

(* Somebody who has left owes the group nothing later, with any number of
   workers, but for the cents of a negative share withdrawn. *)
THEOREM LeaversOweNothing == Spec => LeaversNeverPay
<1>0. ValueInv' => (NetBalances \in Balances)'
  BY BalancesAreCents, PTL
<1>1. Init => PayerInv /\ ValueInv
  BY InitValueInv, InitIInv DEF PayerInv, OnePayer, Init, Idle
<1>2. PayerInv /\ ValueInv /\ [Next]_vars => PayerInv' /\ ValueInv'
  BY NextPayerInv, NextValueInv
<1>3. PayerInv /\ ValueInv /\ ValueInv' /\ [Next]_vars =>
        [\A u \in Users \ members :
            NetBalances'[u] < NetBalances[u] => NegativeShares(u)]_vars
  <2> SUFFICES ASSUME PayerInv, ValueInv, ValueInv', [Next]_vars, NEW u \in Users \ members,
                      NetBalances'[u] < NetBalances[u], ~NegativeShares(u)
               PROVE  FALSE
    OBVIOUS
  <2>1. NetBalances'[u] >= NetBalances[u]
    BY OutsiderOwesNoMore
  <2>2. NetBalances[u] \in Int
    BY NetBalancesType DEF Balances
  <2>3. NetBalances'[u] \in Int
    BY <1>0 DEF Balances
  <2> QED  BY <2>1, <2>2, <2>3
<1> QED  BY <1>1, <1>2, <1>3, PTL DEF Spec, LeaversNeverPay

(* A sum with one term only. *)
LEMMA SumOneTerm ==
    ASSUME NEW S, IsFiniteSet(S), NEW f \in [S -> Int], NEW x \in S,
           \A y \in S \ {x} : f[y] = 0
    PROVE  SumFunction(f) = f[x]
<1> DEFINE g == [y \in S \ {x} |-> f[y]]
<1>1. SumFunction(f) = f[x] + SumFunction(g)
  BY SumTakeOut
<1>2. DOMAIN g = S \ {x} /\ (\A y \in S \ {x} : g[y] = 0) /\ IsFiniteSet(S \ {x})
  BY FS_Subset
<1> HIDE DEF g
<1>3. SumFunction(g) = 0
  BY <1>2, SumOfZeros
<1> QED  BY <1>1, <1>3

(* Totals of a table, by row and by column. *)
LEMMA SumTable ==
    ASSUME NEW S, IsFiniteSet(S), NEW T, IsFiniteSet(T), NEW m \in [S -> [T -> Int]],
           NEW f \in [S -> Int], \A x \in S : f[x] = SumFunction(m[x]),
           NEW g \in [T -> Int], \A y \in T : g[y] = SumFunction([x \in S |-> m[x][y]])
    PROVE  SumFunction(f) = SumFunction(g)
<1>1. f = [x \in S |-> SumFunction(m[x])]
  OBVIOUS
<1>2. g = [y \in T |-> SumFunction([x \in S |-> m[x][y]])]
  OBVIOUS
<1> QED  BY <1>1, <1>2, SumSwap

(* Four sums at once. *)
LEMMA SumOfFour ==
    ASSUME NEW S, IsFiniteSet(S), NEW a \in [S -> Int], NEW b \in [S -> Int],
           NEW c \in [S -> Int], NEW d \in [S -> Int], NEW f \in [S -> Int],
           \A x \in S : f[x] = a[x] - b[x] + c[x] - d[x]
    PROVE  SumFunction(f) = SumFunction(a) - SumFunction(b) + SumFunction(c) - SumFunction(d)
<1> DEFINE p == [x \in S |-> a[x] - b[x]]
           q == [x \in S |-> c[x] - d[x]]
<1>1. /\ p \in [S -> Int] /\ q \in [S -> Int]
      /\ \A x \in S : p[x] = a[x] - b[x] /\ q[x] = c[x] - d[x]
  OBVIOUS
<1> HIDE DEF p, q
<1>2. SumFunction(p) = SumFunction(a) - SumFunction(b)
  BY <1>1, SumMinus
<1>3. SumFunction(q) = SumFunction(c) - SumFunction(d)
  BY <1>1, SumMinus
<1>4. \A x \in S : f[x] = p[x] + q[x]
  BY <1>1
<1>5. SumFunction(f) = SumFunction(p) + SumFunction(q)
  BY <1>1, <1>4, SumPlus
<1>6. /\ SumFunction(a) \in Int /\ SumFunction(b) \in Int
      /\ SumFunction(c) \in Int /\ SumFunction(d) \in Int
  BY SumType
<1> QED  BY <1>2, <1>3, <1>5, <1>6

-----------------------------------------------------------------------------
(* What one row holds for all users together. *)
AmountOf(e) == IF expense[e] # NoExpense THEN expense[e].amount ELSE 0
SentIn(s) == IF settlement[s] # NoSettlement THEN settlement[s].amount ELSE 0

(* All of an expense was paid by one user. *)
LEMMA PaidForTotal ==
    ASSUME ValueInv, NEW e \in Expenses
    PROVE  SumFunction([u \in Users |-> PaidFor(e, u)]) = AmountOf(e)
<1> DEFINE f == [u \in Users |-> PaidFor(e, u)]
<1>1. f \in [Users -> Int] /\ DOMAIN f = Users /\ \A u \in Users : f[u] = PaidFor(e, u)
  BY RowsAreCents
<1>2. CASE expense[e] = NoExpense
  <2>1. AmountOf(e) = 0 /\ \A u \in Users : f[u] = 0
    BY <1>2, <1>1 DEF AmountOf, PaidFor
  <2> HIDE DEF f
  <2>2. SumFunction(f) = 0
    BY <1>1, <2>1, SumOfZeros, UserIds
  <2> QED  BY <2>1, <2>2 DEF f
<1>3. CASE expense[e] # NoExpense
  <2> DEFINE v == expense[e].paidBy
  <2>1. v \in Users
    BY <1>3 DEF ValueInv, IInv, TypeOK, ExpenseRows
  <2>2. AmountOf(e) = f[v] /\ \A u \in Users \ {v} : f[u] = 0
    BY <1>1, <1>3, <2>1 DEF AmountOf, PaidFor
  <2> HIDE DEF f, v
  <2>3. SumFunction(f) = f[v]
    BY <1>1, <2>1, <2>2, SumOneTerm, UserIds
  <2> QED  BY <2>2, <2>3 DEF f
<1> QED  BY <1>2, <1>3

(* All of a payment was sent by one user and received by one. *)
LEMMA SentTotal ==
    ASSUME ValueInv, NEW s \in Settlements
    PROVE  /\ SumFunction([u \in Users |-> SentBy(s, u)]) = SentIn(s)
           /\ SumFunction([u \in Users |-> SentTo(s, u)]) = SentIn(s)
<1> DEFINE f == [u \in Users |-> SentBy(s, u)]
           g == [u \in Users |-> SentTo(s, u)]
<1>1. /\ f \in [Users -> Int] /\ DOMAIN f = Users /\ \A u \in Users : f[u] = SentBy(s, u)
      /\ g \in [Users -> Int] /\ DOMAIN g = Users /\ \A u \in Users : g[u] = SentTo(s, u)
  BY RowsAreCents
<1>2. CASE settlement[s] = NoSettlement
  <2>1. SentIn(s) = 0 /\ \A u \in Users : f[u] = 0 /\ g[u] = 0
    BY <1>2, <1>1 DEF SentIn, SentBy, SentTo
  <2> HIDE DEF f, g
  <2>2. SumFunction(f) = 0 /\ SumFunction(g) = 0
    BY <1>1, <2>1, SumOfZeros, UserIds
  <2> QED  BY <2>1, <2>2 DEF f, g
<1>3. CASE settlement[s] # NoSettlement
  <2> DEFINE v == settlement[s].from
             w == settlement[s].to
  <2>1. v \in Users /\ w \in Users
    BY <1>3 DEF ValueInv, IInv, TypeOK, SettlementRows
  <2>2. /\ SentIn(s) = f[v] /\ \A u \in Users \ {v} : f[u] = 0
        /\ SentIn(s) = g[w] /\ \A u \in Users \ {w} : g[u] = 0
    BY <1>1, <1>3, <2>1 DEF SentIn, SentBy, SentTo
  <2> HIDE DEF f, g, v, w
  <2>3. SumFunction(f) = f[v]
    BY <1>1, <2>1, <2>2, SumOneTerm, UserIds
  <2>4. SumFunction(g) = g[w]
    BY <1>1, <2>1, <2>2, SumOneTerm, UserIds
  <2> QED  BY <2>2, <2>3, <2>4 DEF f, g
<1> QED  BY <1>2, <1>3

(* The shares of an expense, users who have none included, make its amount. *)
LEMMA OwedForTotal ==
    ASSUME SerialInv, ValueInv, NEW e \in Expenses
    PROVE  SumFunction([u \in Users |-> OwedFor(e, u)]) = AmountOf(e)
<1> DEFINE f == [u \in Users |-> OwedFor(e, u)]
           D == DOMAIN shares[e]
           g == [u \in D |-> f[u]]
<1>1. f \in [Users -> Int] /\ DOMAIN f = Users
  BY RowsAreCents
<1>2. D \in SUBSET Users /\ \A u \in Users \ D : f[u] = 0
  BY DEF ValueInv, IInv, TypeOK, OwedFor
<1>3. g = shares[e]
  <2>1. shares[e] = [u \in D |-> shares[e][u]]
    BY DEF ValueInv, Valued
  <2>2. \A u \in D : g[u] = shares[e][u]
    BY <1>2 DEF OwedFor
  <2> QED  BY <2>1, <2>2
<1>4. SumFunction(f) = SumFunction(g)
  <2> HIDE DEF f, D
  <2> QED  BY <1>1, <1>2, SumWithoutZeros, UserIds
<1>5. CASE expense[e] = NoExpense
  <2>1. shares[e] = NoShares /\ AmountOf(e) = 0
    BY <1>5 DEF ValueInv, IInv, TypeOK, AmountOf
  <2>2. DOMAIN shares[e] = {}
    BY <2>1 DEF NoShares
  <2>3. SumFunction(shares[e]) = 0
    BY <2>2, SumNone
  <2> HIDE DEF f, g
  <2>4. SumFunction(f) = 0
    BY <1>3, <1>4, <2>3
  <2> QED  BY <2>1, <2>4 DEF f
<1>6. CASE expense[e] # NoExpense
  <2> DEFINE a == expense[e].amount
             t == expense[e].type
  <2>1. PICK m \in SUBSET Users, d \in {expense[e].data, << >>} :
            Accepts(m, a, t, d) /\ shares[e] = Shares(m, a, t, d)
    BY <1>6 DEF SerialInv, SharesFollowRows, Follows
  <2>2. expense[e] \in ExpenseRows
    BY <1>6 DEF ValueInv, IInv, TypeOK
  <2>3. a \in Int /\ t \in SplitTypes /\ d \in Seq(Items) /\ AmountOf(e) = a
    <3>1. expense[e].data \in Seq(Items) /\ << >> \in Seq(Items)
      BY <2>2 DEF ExpenseRows
    <3> QED  BY <1>6, <2>2, <3>1 DEF ExpenseRows, AmountOf
  <2>4. IsFiniteSet(m)
    BY UserIds, FS_Subset
  <2> HIDE DEF a, t
  <2>5. SumFunction(Shares(m, a, t, d)) = a
    BY <2>1, <2>3, <2>4, SharesAddUpToAmount
  <2> HIDE DEF f, g
  <2>6. SumFunction(f) = a
    BY <1>3, <1>4, <2>1, <2>5
  <2> QED  BY <2>3, <2>6 DEF f
<1> QED  BY <1>5, <1>6

(* The whole books: what everybody paid, and what everybody owes, is what was
   spent; every payment sent was received. *)
LEMMA PaidTotal ==
    ASSUME ValueInv
    PROVE  SumFunction([u \in Users |-> Paid(u)]) = SumFunction([e \in Expenses |-> AmountOf(e)])
<1> DEFINE m == [e \in Expenses |-> [u \in Users |-> PaidFor(e, u)]]
           f == [e \in Expenses |-> AmountOf(e)]
           g == [u \in Users |-> Paid(u)]
<1>1. m \in [Expenses -> [Users -> Int]]
  BY RowsAreCents
<1>2. f \in [Expenses -> Int]
  BY DEF ValueInv, IInv, TypeOK, ExpenseRows, AmountOf
<1>3. g \in [Users -> Int]
  BY BalancePartsType
<1>4. \A e \in Expenses : f[e] = SumFunction(m[e])
  BY PaidForTotal
<1>5. \A u \in Users : g[u] = SumFunction([e \in Expenses |-> m[e][u]])
  <2> SUFFICES ASSUME NEW u \in Users PROVE g[u] = SumFunction([e \in Expenses |-> m[e][u]])
    OBVIOUS
  <2>1. [e \in Expenses |-> m[e][u]] = [e \in Expenses |-> PaidFor(e, u)]
    OBVIOUS
  <2>2. g[u] = Paid(u)
    OBVIOUS
  <2> HIDE DEF m, g
  <2> QED  BY <2>1, <2>2, BalanceParts
<1> DEFINE S == Expenses
           T == Users
<1>6. IsFiniteSet(S) /\ IsFiniteSet(T)
  BY UserIds, LedgerConstants
<1>7. /\ m \in [S -> [T -> Int]] /\ f \in [S -> Int] /\ g \in [T -> Int]
      /\ \A x \in S : f[x] = SumFunction(m[x])
      /\ \A y \in T : g[y] = SumFunction([x \in S |-> m[x][y]])
  BY <1>1, <1>2, <1>3, <1>4, <1>5
<1> HIDE DEF m, f, g, S, T
<1>8. SumFunction(f) = SumFunction(g)
  BY <1>6, <1>7, SumTable
<1> QED  BY <1>8 DEF f, g

(* What everybody owes is what was spent. *)
LEMMA OwedTotal ==
    ASSUME SerialInv, ValueInv
    PROVE  SumFunction([u \in Users |-> Owed(u)]) = SumFunction([e \in Expenses |-> AmountOf(e)])
<1> DEFINE m == [e \in Expenses |-> [u \in Users |-> OwedFor(e, u)]]
           f == [e \in Expenses |-> AmountOf(e)]
           g == [u \in Users |-> Owed(u)]
<1>1. m \in [Expenses -> [Users -> Int]]
  BY RowsAreCents
<1>2. f \in [Expenses -> Int]
  BY DEF ValueInv, IInv, TypeOK, ExpenseRows, AmountOf
<1>3. g \in [Users -> Int]
  BY BalancePartsType
<1>4. \A e \in Expenses : f[e] = SumFunction(m[e])
  BY OwedForTotal
<1>5. \A u \in Users : g[u] = SumFunction([e \in Expenses |-> m[e][u]])
  <2> SUFFICES ASSUME NEW u \in Users PROVE g[u] = SumFunction([e \in Expenses |-> m[e][u]])
    OBVIOUS
  <2>1. [e \in Expenses |-> m[e][u]] = [e \in Expenses |-> OwedFor(e, u)]
    OBVIOUS
  <2>2. g[u] = Owed(u)
    OBVIOUS
  <2> HIDE DEF m, g
  <2> QED  BY <2>1, <2>2, BalanceParts
<1> DEFINE S == Expenses
           T == Users
<1>6. IsFiniteSet(S) /\ IsFiniteSet(T)
  BY UserIds, LedgerConstants
<1>7. /\ m \in [S -> [T -> Int]] /\ f \in [S -> Int] /\ g \in [T -> Int]
      /\ \A x \in S : f[x] = SumFunction(m[x])
      /\ \A y \in T : g[y] = SumFunction([x \in S |-> m[x][y]])
  BY <1>1, <1>2, <1>3, <1>4, <1>5
<1> HIDE DEF m, f, g, S, T
<1>8. SumFunction(f) = SumFunction(g)
  BY <1>6, <1>7, SumTable
<1> QED  BY <1>8 DEF f, g

(* What was sent was received. *)
LEMMA PaymentsTotal ==
    ASSUME ValueInv
    PROVE  SumFunction([u \in Users |-> PaidBack(u)]) = SumFunction([u \in Users |-> GotBack(u)])
<1> DEFINE m == [s \in Settlements |-> [u \in Users |-> SentBy(s, u)]]
           k == [s \in Settlements |-> [u \in Users |-> SentTo(s, u)]]
           f == [s \in Settlements |-> SentIn(s)]
           g == [u \in Users |-> PaidBack(u)]
           h == [u \in Users |-> GotBack(u)]
<1>1. m \in [Settlements -> [Users -> Int]] /\ k \in [Settlements -> [Users -> Int]]
  BY RowsAreCents
<1>2. f \in [Settlements -> Int]
  BY DEF ValueInv, IInv, TypeOK, SettlementRows, SentIn
<1>3. g \in [Users -> Int] /\ h \in [Users -> Int]
  BY BalancePartsType
<1>4. \A s \in Settlements : f[s] = SumFunction(m[s]) /\ f[s] = SumFunction(k[s])
  BY SentTotal
<1>5. \A u \in Users : /\ g[u] = SumFunction([s \in Settlements |-> m[s][u]])
                       /\ h[u] = SumFunction([s \in Settlements |-> k[s][u]])
  <2> SUFFICES ASSUME NEW u \in Users
               PROVE  /\ g[u] = SumFunction([s \in Settlements |-> m[s][u]])
                      /\ h[u] = SumFunction([s \in Settlements |-> k[s][u]])
    OBVIOUS
  <2>1. /\ [s \in Settlements |-> m[s][u]] = [s \in Settlements |-> SentBy(s, u)]
        /\ [s \in Settlements |-> k[s][u]] = [s \in Settlements |-> SentTo(s, u)]
    OBVIOUS
  <2>2. g[u] = PaidBack(u) /\ h[u] = GotBack(u)
    OBVIOUS
  <2> HIDE DEF m, g, k, h
  <2> QED  BY <2>1, <2>2, BalanceParts
<1> DEFINE S == Settlements
           T == Users
<1>6. IsFiniteSet(S) /\ IsFiniteSet(T)
  BY UserIds, LedgerConstants
<1>7. /\ m \in [S -> [T -> Int]] /\ f \in [S -> Int] /\ g \in [T -> Int]
      /\ \A x \in S : f[x] = SumFunction(m[x])
      /\ \A y \in T : g[y] = SumFunction([x \in S |-> m[x][y]])
  BY <1>1, <1>2, <1>3, <1>4, <1>5
<1>8. /\ k \in [S -> [T -> Int]] /\ h \in [T -> Int]
      /\ \A x \in S : f[x] = SumFunction(k[x])
      /\ \A y \in T : h[y] = SumFunction([x \in S |-> k[x][y]])
  BY <1>1, <1>3, <1>4, <1>5
<1> HIDE DEF m, f, g, k, h, S, T
<1>9. SumFunction(f) = SumFunction(g)
  BY <1>6, <1>7, SumTable
<1>10. SumFunction(f) = SumFunction(h)
  <2>1. f \in [S -> Int]
    BY <1>7
  <2> QED  BY <1>6, <1>8, <2>1, SumTable
<1> QED  BY <1>9, <1>10 DEF g, h

(* While rows and shares agree, one user's debt is another one's claim. *)
LEMMA BooksBalance == SerialInv /\ ValueInv => SumFunction(NetBalances) = 0
<1> SUFFICES ASSUME SerialInv, ValueInv PROVE SumFunction(NetBalances) = 0
  OBVIOUS
<1> DEFINE a == [u \in Users |-> Paid(u)]
           b == [u \in Users |-> Owed(u)]
           c == [u \in Users |-> PaidBack(u)]
           d == [u \in Users |-> GotBack(u)]
           f == NetBalances
<1>1. a \in [Users -> Int] /\ b \in [Users -> Int] /\ c \in [Users -> Int] /\ d \in [Users -> Int]
  BY BalancePartsType
<1>2. f \in [Users -> Int]
  BY NetBalancesType DEF Balances
<1>3. \A u \in Users : f[u] = a[u] - b[u] + c[u] - d[u]
  BY DEF NetBalances
<1>4. SumFunction(a) = SumFunction(b) /\ SumFunction(c) = SumFunction(d)
  BY PaidTotal, OwedTotal, PaymentsTotal
<1>5. IsFiniteSet(Users)
  BY UserIds
<1> HIDE DEF a, b, c, d, f
<1>6. SumFunction(a) \in Int /\ SumFunction(c) \in Int
  BY <1>1, <1>5, SumType
<1>7. SumFunction(f) = SumFunction(a) - SumFunction(b) + SumFunction(c) - SumFunction(d)
  BY <1>1, <1>2, <1>3, <1>5, SumOfFour
<1> QED  BY <1>4, <1>6, <1>7 DEF f

-----------------------------------------------------------------------------
(* Accounts. *)

(* The books are exact and in cents: what one worker keeps. *)
ExactInv == SerialInv /\ ValueInv

(* Empty books are exact. *)
LEMMA InitExactInv == Init => ExactInv
BY InitSerialInv, InitValueInv DEF ExactInv

(* One worker keeps them so. *)
LEMMA NextExactInv ==
    ASSUME \A p, q \in Procs : p = q
    PROVE  ExactInv /\ [Next]_vars => ExactInv'
BY NextSerialInv, NextValueInv DEF ExactInv

(* Nobody owes anything at first. *)
LEMMA InitialBalances ==
    ASSUME Init
    PROVE  NetBalances = [u \in Users |-> 0]
<1>1. \A e \in Expenses, u \in Users : PaidFor(e, u) = 0 /\ OwedFor(e, u) = 0
  BY DEF Init, PaidFor, OwedFor, NoShares
<1>2. \A s \in Settlements, u \in Users : SentBy(s, u) = 0 /\ SentTo(s, u) = 0
  BY DEF Init, SentBy, SentTo
<1>3. IsFiniteSet(Expenses) /\ IsFiniteSet(Settlements)
  BY LedgerConstants
<1>4. ASSUME NEW u \in Users
      PROVE  Paid(u) = 0 /\ Owed(u) = 0 /\ PaidBack(u) = 0 /\ GotBack(u) = 0
  <2> DEFINE f == [e \in Expenses |-> PaidFor(e, u)]
             g == [e \in Expenses |-> OwedFor(e, u)]
             h == [s \in Settlements |-> SentBy(s, u)]
             k == [s \in Settlements |-> SentTo(s, u)]
  <2>1. /\ DOMAIN f = Expenses /\ \A e \in Expenses : f[e] = 0
        /\ DOMAIN g = Expenses /\ \A e \in Expenses : g[e] = 0
        /\ DOMAIN h = Settlements /\ \A s \in Settlements : h[s] = 0
        /\ DOMAIN k = Settlements /\ \A s \in Settlements : k[s] = 0
    BY <1>1, <1>2
  <2>2. /\ Paid(u) = SumFunction(f) /\ Owed(u) = SumFunction(g)
        /\ PaidBack(u) = SumFunction(h) /\ GotBack(u) = SumFunction(k)
    BY BalanceParts
  <2> HIDE DEF f, g, h, k
  <2>3. SumFunction(f) = 0 /\ SumFunction(g) = 0
    BY <1>3, <2>1, SumOfZeros
  <2>4. SumFunction(h) = 0 /\ SumFunction(k) = 0
    BY <1>3, <2>1, SumOfZeros
  <2> QED  BY <2>2, <2>3, <2>4
<1> QED  BY <1>4 DEF NetBalances

(* A payment, seen from the accounts. *)
LEMMA RecordSettles ==
    ASSUME ValueInv, ValueInv', NEW u \in Users, NEW v \in Users, NEW s \in Settlements,
           RecordSettlement(u, v, s)
    PROVE  Accounts!Settle
<1> DEFINE b == NetBalances
           c == NetBalances'
           most == SuggestedAmount(NetBalances, u, v)
<1>1. PICK a \in 1..most : c = Settled(b, u, v, a)
  BY RecordMoves
<1>2. u \in members /\ v \in members /\ u # v /\ members' = members
  BY DEF RecordSettlement
<1>3. b \in Balances
  BY NetBalancesType
<1>4. most \in Nat /\ (most > 0 => most <= -b[u] /\ most <= b[v])
  BY <1>3, SuggestedAmountFacts
<1> HIDE DEF b, c, most
<1>5. a \in Int /\ a > 0 /\ a <= most
  BY <1>4
<1>6. c[u] = b[u] + a /\ c[v] = b[v] - a
  BY <1>1, <1>2, <1>3, <1>5, SettledKeepsSum
<1>7. b[u] \in Int /\ b[v] \in Int
  BY <1>3 DEF Balances
<1>8. c[u] > b[u] /\ c[u] <= 0 /\ c[v] >= 0 /\ c[u] - b[u] = a
  BY <1>4, <1>5, <1>6, <1>7
<1>9. c = [b EXCEPT ![u] = @ + (c[u] - b[u]), ![v] = @ - (c[u] - b[u])]
  BY <1>1, <1>8 DEF Settled
<1> QED  BY <1>2, <1>8, <1>9 DEF Accounts!Settle, Accounts!Transfer, b, c

(* A payment withdrawn, seen from the accounts. *)
LEMMA DeleteTakesBack ==
    ASSUME ValueInv, ValueInv', NEW s \in Settlements, DeleteSettlement(s)
    PROVE  Accounts!TakeBack
<1> DEFINE row == settlement[s]
           u == row.from
           v == row.to
           a == row.amount
           b == NetBalances
           c == NetBalances'
<1>1. c = Settled(b, u, v, -a)
  BY TakeBackMoves
<1>2. u \in members /\ members' = members /\ row # NoSettlement
  BY DEF DeleteSettlement
<1>3. u \in Users /\ v \in Users /\ a \in Int /\ a > 0 /\ u # v
  BY <1>2 DEF ValueInv, Valued, IInv, TypeOK, SettlementRows
<1>4. b \in Balances
  BY NetBalancesType
<1> HIDE DEF b, c, row, u, v, a
<1>5. b[u] \in Int
  BY <1>3, <1>4 DEF Balances
<1>6. -a \in Int /\ c[u] = b[u] + (-a)
  BY <1>1, <1>3, <1>4, SettledKeepsSum
<1>7. c[u] < b[u] /\ c[u] - b[u] = -a
  BY <1>3, <1>5, <1>6
<1>8. c = [b EXCEPT ![u] = @ + (c[u] - b[u]), ![v] = @ - (c[u] - b[u])]
  BY <1>1, <1>7 DEF Settled
<1> QED  BY <1>2, <1>3, <1>7, <1>8 DEF Accounts!TakeBack, Accounts!Transfer, b, c

(* Balances are read from three tables only. *)
LEMMA BalancesSame ==
    ASSUME UNCHANGED <<expense, shares, settlement>>
    PROVE  NetBalances' = NetBalances
BY DEF NetBalances, Paid, Owed, PaidBack, GotBack

(* The ledger keeps the promises of GroupAccounts while one request is served
   at a time: members come when they like, leave when they are even, pay no
   more than one owes and the other is owed, take payments back, and whatever
   happens to expenses the books stay balanced. *)
THEOREM SerialLedgerKeepsAccounts ==
    ASSUME \A p, q \in Procs : p = q
    PROVE  Spec => ImplementsAccounts
<1>1. Init => Accounts!Init
  BY InitialBalances DEF Init, Accounts!Init
<1>2. ExactInv' => (NetBalances \in Balances)'
  BY BalancesAreCents, PTL DEF ExactInv
<1>3. ExactInv' => (SumFunction(NetBalances) = 0)'
  BY BooksBalance, PTL DEF ExactInv
<1>4. ExactInv /\ ExactInv' /\ [Next]_vars => [Accounts!Next]_(Accounts!accounts)
  <2> SUFFICES ASSUME ExactInv, ExactInv', [Next]_vars
               PROVE  Accounts!Next \/ UNCHANGED Accounts!accounts
    OBVIOUS
  <2>0. ValueInv /\ ValueInv' /\ IInv
    BY DEF ExactInv, ValueInv
  <2>1. ASSUME UNCHANGED members PROVE Accounts!Rebook
    <3>1. NetBalances' \in [Users -> Int]
      BY <1>2 DEF Balances
    <3>2. SumFunction(NetBalances') = 0
      BY <1>3
    <3>3. Accounts!SumFunction(NetBalances') = SumFunction(NetBalances')
      BY DEF Accounts!SumFunction, Accounts!SumFunctionOnSet, Accounts!FoldFunctionOnSet,
             Accounts!MapThenFoldSet, SumFunction, SumFunctionOnSet, FoldFunctionOnSet,
             MapThenFoldSet
    <3> QED  BY <2>1, <3>1, <3>2, <3>3 DEF Accounts!Rebook
  <2>2. ASSUME NEW u \in Users, AddMember(u) PROVE Accounts!Join
    BY <2>2, BalancesSame DEF AddMember, Accounts!Join
  <2>3. ASSUME NEW u \in Users, RemoveMember(u) PROVE Accounts!Leave
    BY <2>3, BalancesSame DEF RemoveMember, Accounts!Leave
  <2>4. ASSUME NEW u \in Users, NEW e \in Expenses, NEW a \in Amounts, NEW split \in Splits,
               CreateExpense(u, e, a, split)
        PROVE  Accounts!Rebook
    BY <2>1, <2>4 DEF CreateExpense
  <2>5. ASSUME NEW p \in Procs, NEW e \in Expenses,
               \/ \E amount \in Optional(Amounts),
                     type \in Optional({split.type : split \in Splits}),
                     data \in Optional({split.data : split \in Splits}) :
                       BeginEdit(p, e, amount, type, data)
               \/ BeginDelete(p, e)
        PROVE  UNCHANGED Accounts!accounts
    BY <2>5, BalancesSame DEF BeginEdit, BeginDelete, Accounts!accounts
  <2>6. ASSUME NEW p \in Procs, CommitEdit(p) \/ CommitDelete(p) PROVE Accounts!Rebook
    BY <2>1, <2>6 DEF CommitEdit, CommitDelete
  <2>7. ASSUME NEW p \in Procs, RefuseEdit(p) PROVE UNCHANGED Accounts!accounts
    BY <2>7, BalancesSame DEF RefuseEdit, Accounts!accounts
  <2>8. ASSUME NEW u \in Users, NEW v \in Users, NEW s \in Settlements, RecordSettlement(u, v, s)
        PROVE  Accounts!Settle
    BY <2>0, <2>8, RecordSettles
  <2>9. ASSUME NEW s \in Settlements, DeleteSettlement(s) PROVE Accounts!TakeBack
    BY <2>0, <2>9, DeleteTakesBack
  <2>10. CASE UNCHANGED vars
    BY <2>10, BalancesSame DEF vars, Accounts!accounts
  <2> QED
    BY <2>2, <2>3, <2>4, <2>5, <2>6, <2>7, <2>8, <2>9, <2>10 DEF Next, Accounts!Next
<1> QED
  BY <1>1, <1>4, InitExactInv, NextExactInv, PTL DEF Spec, ImplementsAccounts, Accounts!Spec

-----------------------------------------------------------------------------
(* Reminders, and friends. *)

(* While one request is served at a time, whoever is reminded of a pending
   settlement is shown a member to pay, but for a debt to somebody who has
   left and for one of a few cents (Reminder.target_is_active,
   suggested_settlement_amount). *)
THEOREM RemindedAreShownWhomToPay ==
    ASSUME \A p, q \in Procs : p = q
    PROVE  Spec => []RemindedCanPay
<1>1. ExactInv => RemindedCanPay
  <2> SUFFICES ASSUME ExactInv, NEW u \in Users, NetBalances[u] < 0,
                      -NetBalances[u] \notin 1..(Cardinality(Users) - 1)
               PROVE  \/ \E v \in members : SuggestedAmount(NetBalances, u, v) > 0
                      \/ \E v \in Users \ members : NetBalances[v] > 0
    BY DEF RemindedCanPay, SettlementIsDue
  <2> DEFINE b == NetBalances
  <2>1. b \in Balances /\ SumFunction(b) = 0
    BY BalancesAreCents, BooksBalance DEF ExactInv
  <2>2. b[u] < 0 /\ -b[u] \notin 1..(Cardinality(Users) - 1)
    OBVIOUS
  <2> HIDE DEF b
  <2>3. b[u] \in Int /\ Cardinality(Users) \in Nat
    BY <2>1, UserIds, FS_CardinalityType DEF Balances
  <2>4. b[u] <= -Cardinality(Users)
    BY <2>2, <2>3
  <2>5. PICK i \in DOMAIN MatchDebts[b] : MatchDebts[b][i].from = u
    BY <2>1, <2>4, LargeDebtIsMatched
  <2> DEFINE v == MatchDebts[b][i].to
  <2>6. SuggestedAmount(b, u, v) > 0
    BY <2>1, <2>5, SuggestedAmountFacts
  <2>7. v \in Creditors(b)
    BY <2>1, <2>6, SuggestedAmountFacts
  <2> HIDE DEF v
  <2>8. v \in Users /\ b[v] > 1 /\ b[v] \in Int
    BY <2>1, <2>7 DEF Creditors, Balances
  <2>9. b[v] > 0
    BY <2>8
  <2> QED  BY <2>6, <2>8, <2>9 DEF b
<1> QED  BY <1>1, InitExactInv, NextExactInv, PTL DEF Spec

-----------------------------------------------------------------------------
(* What one row says about a pair of friends. *)
ShareOf(e, payer, debtor) ==
    IF expense[e] # NoExpense /\ expense[e].paidBy = payer /\ debtor \in DOMAIN shares[e]
    THEN shares[e][debtor] ELSE 0

SentOf(s, from, to) ==
    IF settlement[s] # NoSettlement /\ settlement[s].from = from /\ settlement[s].to = to
    THEN settlement[s].amount ELSE 0

(* They are integers. *)
LEMMA PairRowsAreCents ==
    ASSUME ValueInv
    PROVE  /\ \A e \in Expenses : \A u, v : ShareOf(e, u, v) \in Int
           /\ \A s \in Settlements : \A u, v : SentOf(s, u, v) \in Int /\ SentOf(s, u, v) >= 0
<1>1. \A s \in Settlements : settlement[s] # NoSettlement =>
          settlement[s].amount \in Int /\ settlement[s].amount > 0
  BY DEF ValueInv, Valued, IInv, TypeOK, SettlementRows
<1>2. \A e \in Expenses : \A u : u \in DOMAIN shares[e] => shares[e][u] \in Int
  BY DEF ValueInv, Valued
<1> QED  BY <1>1, <1>2 DEF ShareOf, SentOf

(* The two sums about a pair, by rows. *)
LEMMA PairParts ==
    ASSUME NEW u, NEW v
    PROVE  /\ ShareIn(u, v) = SumFunction([e \in Expenses |-> ShareOf(e, u, v)])
           /\ PaidTo(u, v) = SumFunction([s \in Settlements |-> SentOf(s, u, v)])
BY DEF ShareIn, PaidTo, ShareOf, SentOf

(* They are integers, and payments are not negative. *)
LEMMA PairPartsType ==
    ASSUME ValueInv, NEW u, NEW v
    PROVE  ShareIn(u, v) \in Int /\ PaidTo(u, v) \in Int /\ PaidTo(u, v) >= 0
<1> DEFINE f == [e \in Expenses |-> ShareOf(e, u, v)]
           g == [s \in Settlements |-> SentOf(s, u, v)]
           z == [s \in Settlements |-> 0]
<1>1. f \in [Expenses -> Int] /\ g \in [Settlements -> Int] /\ z \in [Settlements -> Int]
  BY PairRowsAreCents
<1>2. DOMAIN z = Settlements /\ \A s \in Settlements : z[s] = 0 /\ z[s] <= g[s]
  BY PairRowsAreCents
<1>3. ShareIn(u, v) = SumFunction(f) /\ PaidTo(u, v) = SumFunction(g)
  BY PairParts
<1>4. IsFiniteSet(Expenses) /\ IsFiniteSet(Settlements)
  BY LedgerConstants
<1> HIDE DEF f, g, z
<1>5. SumFunction(f) \in Int /\ SumFunction(g) \in Int
  BY <1>1, <1>4, SumType
<1>6. SumFunction(z) = 0
  BY <1>2, <1>4, SumOfZeros
<1>7. SumFunction(z) <= SumFunction(g)
  BY <1>1, <1>2, <1>4, SumMonotone
<1> QED  BY <1>3, <1>5, <1>6, <1>7

(* Over all friends, the shares in what u paid are what u paid... *)
LEMMA SharesOfPayer ==
    ASSUME SerialInv, ValueInv, NEW u \in Users
    PROVE  SumFunction([v \in Users |-> ShareIn(u, v)]) = Paid(u)
<1> DEFINE m == [e \in Expenses |-> [v \in Users |-> ShareOf(e, u, v)]]
           f == [e \in Expenses |-> PaidFor(e, u)]
           g == [v \in Users |-> ShareIn(u, v)]
           S == Expenses
           T == Users
<1>1. m \in [S -> [T -> Int]]
  BY PairRowsAreCents
<1>2. f \in [S -> Int] /\ g \in [T -> Int]
  BY RowsAreCents, PairPartsType
<1>3. \A e \in S : f[e] = SumFunction(m[e])
  <2> SUFFICES ASSUME NEW e \in Expenses
               PROVE  PaidFor(e, u) = SumFunction([v \in Users |-> ShareOf(e, u, v)])
    OBVIOUS
  <2>1. CASE expense[e] # NoExpense /\ expense[e].paidBy = u
    <3>1. \A v \in Users : ShareOf(e, u, v) = OwedFor(e, v)
      BY <2>1 DEF ShareOf, OwedFor
    <3>2. [v \in Users |-> ShareOf(e, u, v)] = [v \in Users |-> OwedFor(e, v)]
      BY <3>1
    <3>3. PaidFor(e, u) = AmountOf(e)
      BY <2>1 DEF PaidFor, AmountOf
    <3> QED  BY <3>2, <3>3, OwedForTotal
  <2>2. CASE ~(expense[e] # NoExpense /\ expense[e].paidBy = u)
    <3> DEFINE z == [v \in Users |-> ShareOf(e, u, v)]
    <3>1. PaidFor(e, u) = 0 /\ DOMAIN z = Users /\ \A v \in Users : z[v] = 0
      BY <2>2 DEF ShareOf, PaidFor
    <3> HIDE DEF z
    <3>2. SumFunction(z) = 0
      BY <3>1, SumOfZeros, UserIds
    <3> QED  BY <3>1, <3>2 DEF z
  <2> QED  BY <2>1, <2>2
<1>4. \A v \in T : g[v] = SumFunction([e \in S |-> m[e][v]])
  <2> SUFFICES ASSUME NEW v \in Users PROVE g[v] = SumFunction([e \in Expenses |-> m[e][v]])
    OBVIOUS
  <2>1. [e \in Expenses |-> m[e][v]] = [e \in Expenses |-> ShareOf(e, u, v)]
    OBVIOUS
  <2>2. g[v] = SumFunction([e \in Expenses |-> ShareOf(e, u, v)])
    BY PairParts
  <2> QED  BY <2>1, <2>2
<1>5. SumFunction(f) = Paid(u)
  BY BalanceParts
<1>6. IsFiniteSet(S) /\ IsFiniteSet(T)
  BY UserIds, LedgerConstants
<1> HIDE DEF m, f, g, S, T
<1>7. SumFunction(f) = SumFunction(g)
  BY <1>1, <1>2, <1>3, <1>4, <1>6, SumTable
<1> QED  BY <1>5, <1>7 DEF g, T

(* ... and the shares of u in what they paid are what u owes. *)
LEMMA SharesOfDebtor ==
    ASSUME ValueInv, NEW u \in Users
    PROVE  SumFunction([v \in Users |-> ShareIn(v, u)]) = Owed(u)
<1> DEFINE m == [e \in Expenses |-> [v \in Users |-> ShareOf(e, v, u)]]
           f == [e \in Expenses |-> OwedFor(e, u)]
           g == [v \in Users |-> ShareIn(v, u)]
           S == Expenses
           T == Users
<1>1. m \in [S -> [T -> Int]]
  BY PairRowsAreCents
<1>2. f \in [S -> Int] /\ g \in [T -> Int]
  BY RowsAreCents, PairPartsType
<1>3. \A e \in S : f[e] = SumFunction(m[e])
  <2> SUFFICES ASSUME NEW e \in Expenses
               PROVE  OwedFor(e, u) = SumFunction([v \in Users |-> ShareOf(e, v, u)])
    OBVIOUS
  <2> DEFINE z == [v \in Users |-> ShareOf(e, v, u)]
  <2>0. z \in [Users -> Int] /\ DOMAIN z = Users
    BY PairRowsAreCents
  <2>1. CASE expense[e] # NoExpense
    <3> DEFINE w == expense[e].paidBy
    <3>1. w \in Users
      BY <2>1 DEF ValueInv, IInv, TypeOK, ExpenseRows
    <3>2. z[w] = OwedFor(e, u) /\ \A v \in Users \ {w} : z[v] = 0
      BY <2>1, <3>1 DEF ShareOf, OwedFor
    <3> HIDE DEF z, w
    <3>3. SumFunction(z) = z[w]
      BY <2>0, <3>1, <3>2, SumOneTerm, UserIds
    <3> QED  BY <3>2, <3>3 DEF z
  <2>2. CASE expense[e] = NoExpense
    <3>1. shares[e] = NoShares
      BY <2>2 DEF ValueInv, IInv, TypeOK
    <3>2. OwedFor(e, u) = 0 /\ \A v \in Users : z[v] = 0
      BY <2>2, <3>1 DEF ShareOf, OwedFor, NoShares
    <3> HIDE DEF z
    <3>3. SumFunction(z) = 0
      BY <2>0, <3>2, SumOfZeros, UserIds
    <3> QED  BY <3>2, <3>3 DEF z
  <2> QED  BY <2>1, <2>2
<1>4. \A v \in T : g[v] = SumFunction([e \in S |-> m[e][v]])
  <2> SUFFICES ASSUME NEW v \in Users PROVE g[v] = SumFunction([e \in Expenses |-> m[e][v]])
    OBVIOUS
  <2>1. [e \in Expenses |-> m[e][v]] = [e \in Expenses |-> ShareOf(e, v, u)]
    OBVIOUS
  <2>2. g[v] = SumFunction([e \in Expenses |-> ShareOf(e, v, u)])
    BY PairParts
  <2> QED  BY <2>1, <2>2
<1>5. SumFunction(f) = Owed(u)
  BY BalanceParts
<1>6. IsFiniteSet(S) /\ IsFiniteSet(T)
  BY UserIds, LedgerConstants
<1> HIDE DEF m, f, g, S, T
<1>7. SumFunction(f) = SumFunction(g)
  BY <1>1, <1>2, <1>3, <1>4, <1>6, SumTable
<1> QED  BY <1>5, <1>7 DEF g, T

(* Payments between u and the others are all of u's payments. *)
LEMMA PaymentsByFriend ==
    ASSUME ValueInv, NEW u \in Users
    PROVE  /\ SumFunction([v \in Users |-> PaidTo(u, v)]) = PaidBack(u)
           /\ SumFunction([v \in Users |-> PaidTo(v, u)]) = GotBack(u)
<1> DEFINE m == [s \in Settlements |-> [v \in Users |-> SentOf(s, u, v)]]
           n == [s \in Settlements |-> [v \in Users |-> SentOf(s, v, u)]]
           f == [s \in Settlements |-> SentBy(s, u)]
           h == [s \in Settlements |-> SentTo(s, u)]
           g == [v \in Users |-> PaidTo(u, v)]
           k == [v \in Users |-> PaidTo(v, u)]
           S == Settlements
           T == Users
<1>1. m \in [S -> [T -> Int]] /\ n \in [S -> [T -> Int]]
  BY PairRowsAreCents
<1>2. f \in [S -> Int] /\ h \in [S -> Int] /\ g \in [T -> Int] /\ k \in [T -> Int]
  BY RowsAreCents, PairPartsType
<1>3. \A s \in S : f[s] = SumFunction(m[s]) /\ h[s] = SumFunction(n[s])
  <2> SUFFICES ASSUME NEW s \in Settlements
               PROVE  /\ SentBy(s, u) = SumFunction([v \in Users |-> SentOf(s, u, v)])
                      /\ SentTo(s, u) = SumFunction([v \in Users |-> SentOf(s, v, u)])
    OBVIOUS
  <2> DEFINE y == [v \in Users |-> SentOf(s, u, v)]
             z == [v \in Users |-> SentOf(s, v, u)]
  <2>0. y \in [Users -> Int] /\ DOMAIN y = Users /\ z \in [Users -> Int] /\ DOMAIN z = Users
    BY PairRowsAreCents
  <2>1. CASE settlement[s] # NoSettlement
    <3> DEFINE to == settlement[s].to
               from == settlement[s].from
    <3>1. to \in Users /\ from \in Users
      BY <2>1 DEF ValueInv, IInv, TypeOK, SettlementRows
    <3>2. /\ y[to] = SentBy(s, u) /\ \A v \in Users \ {to} : y[v] = 0
          /\ z[from] = SentTo(s, u) /\ \A v \in Users \ {from} : z[v] = 0
      BY <2>1, <3>1 DEF SentOf, SentBy, SentTo
    <3> HIDE DEF y, z, to, from
    <3>3. SumFunction(y) = y[to]
      BY <2>0, <3>1, <3>2, SumOneTerm, UserIds
    <3>4. SumFunction(z) = z[from]
      BY <2>0, <3>1, <3>2, SumOneTerm, UserIds
    <3> QED  BY <3>2, <3>3, <3>4 DEF y, z
  <2>2. CASE settlement[s] = NoSettlement
    <3>1. /\ SentBy(s, u) = 0 /\ \A v \in Users : y[v] = 0
          /\ SentTo(s, u) = 0 /\ \A v \in Users : z[v] = 0
      BY <2>2 DEF SentOf, SentBy, SentTo
    <3> HIDE DEF y, z
    <3>2. SumFunction(y) = 0 /\ SumFunction(z) = 0
      BY <2>0, <3>1, SumOfZeros, UserIds
    <3> QED  BY <3>1, <3>2 DEF y, z
  <2> QED  BY <2>1, <2>2
<1>4. \A v \in T : /\ g[v] = SumFunction([s \in S |-> m[s][v]])
                   /\ k[v] = SumFunction([s \in S |-> n[s][v]])
  <2> SUFFICES ASSUME NEW v \in Users
               PROVE  /\ g[v] = SumFunction([s \in Settlements |-> m[s][v]])
                      /\ k[v] = SumFunction([s \in Settlements |-> n[s][v]])
    OBVIOUS
  <2>1. /\ [s \in Settlements |-> m[s][v]] = [s \in Settlements |-> SentOf(s, u, v)]
        /\ [s \in Settlements |-> n[s][v]] = [s \in Settlements |-> SentOf(s, v, u)]
    OBVIOUS
  <2>2. /\ g[v] = SumFunction([s \in Settlements |-> SentOf(s, u, v)])
        /\ k[v] = SumFunction([s \in Settlements |-> SentOf(s, v, u)])
    BY PairParts
  <2> QED  BY <2>1, <2>2
<1>5. SumFunction(f) = PaidBack(u) /\ SumFunction(h) = GotBack(u)
  BY BalanceParts
<1>6. IsFiniteSet(S) /\ IsFiniteSet(T)
  BY UserIds, LedgerConstants
<1>7. /\ m \in [S -> [T -> Int]] /\ f \in [S -> Int] /\ g \in [T -> Int]
      /\ \A s \in S : f[s] = SumFunction(m[s])
      /\ \A v \in T : g[v] = SumFunction([s \in S |-> m[s][v]])
  BY <1>1, <1>2, <1>3, <1>4
<1>8. /\ n \in [S -> [T -> Int]] /\ h \in [S -> Int] /\ k \in [T -> Int]
      /\ \A s \in S : h[s] = SumFunction(n[s])
      /\ \A v \in T : k[v] = SumFunction([s \in S |-> n[s][v]])
  BY <1>1, <1>2, <1>3, <1>4
<1> HIDE DEF m, n, f, g, h, k, S, T
<1>9. SumFunction(f) = SumFunction(g)
  BY <1>6, <1>7, SumTable
<1>10. SumFunction(h) = SumFunction(k)
  BY <1>6, <1>8, SumTable
<1> QED  BY <1>5, <1>9, <1>10 DEF g, k, T

(* While one request is served at a time, the balances of the friends list
   (FriendListView.get) add up to the user's balance in the group, but that
   recorded payments count the wrong way: they are off by twice the payments. *)
THEOREM ListIsOffByTwiceThePayments ==
    ASSUME \A p, q \in Procs : p = q
    PROVE  Spec => []ListCountsPaymentsBackwards
<1>1. ExactInv => ListCountsPaymentsBackwards
  <2> SUFFICES ASSUME ExactInv, NEW u \in Users, SharesGroup(u)
               PROVE  SumFunction([v \in Others(u) |-> ListBalance(u, v)])
                          = NetBalances[u] - 2 * (PaidBack(u) - GotBack(u))
    BY DEF ListCountsPaymentsBackwards
  <2>0. SerialInv /\ ValueInv
    BY DEF ExactInv
  <2> DEFINE a == [v \in Users |-> ShareIn(u, v)]
             b == [v \in Users |-> ShareIn(v, u)]
             c == [v \in Users |-> PaidTo(v, u)]
             d == [v \in Users |-> PaidTo(u, v)]
             f == [v \in Users |-> a[v] - b[v] + c[v] - d[v]]
             g == [v \in Users \ {u} |-> f[v]]
  <2>1. /\ a \in [Users -> Int] /\ b \in [Users -> Int]
        /\ c \in [Users -> Int] /\ d \in [Users -> Int]
    BY <2>0, PairPartsType
  <2>2. a[u] = b[u] /\ c[u] = d[u]
    OBVIOUS
  <2>3. [v \in Others(u) |-> ListBalance(u, v)] = g
    BY DEF Others, ListBalance
  <2>4. SumFunction(a) = Paid(u)
    BY <2>0, SharesOfPayer
  <2>5. SumFunction(b) = Owed(u)
    BY <2>0, SharesOfDebtor
  <2>6. SumFunction(c) = GotBack(u) /\ SumFunction(d) = PaidBack(u)
    BY <2>0, PaymentsByFriend
  <2>7. NetBalances[u] = Paid(u) - Owed(u) + PaidBack(u) - GotBack(u)
    BY <2>0, NetBalancesType
  <2>8. Paid(u) \in Int /\ Owed(u) \in Int /\ PaidBack(u) \in Int /\ GotBack(u) \in Int
    BY <2>0, BalancePartsType
  <2>9. IsFiniteSet(Users)
    BY UserIds
  <2> HIDE DEF a, b, c, d
  <2>10. f \in [Users -> Int] /\ \A v \in Users : f[v] = a[v] - b[v] + c[v] - d[v]
    BY <2>1
  <2>11. f[u] = 0
    BY <2>1, <2>2
  <2>12. g = [v \in Users \ {u} |-> f[v]]
    OBVIOUS
  <2> HIDE DEF f, g
  <2>13. SumFunction(f) = SumFunction(a) - SumFunction(b) + SumFunction(c) - SumFunction(d)
    BY <2>1, <2>9, <2>10, SumOfFour
  <2>14. SumFunction(f) = f[u] + SumFunction(g)
    BY <2>9, <2>10, <2>12, SumTakeOut
  <2>15. g \in [Users \ {u} -> Int] /\ IsFiniteSet(Users \ {u})
    BY <2>9, <2>10, <2>12, FS_RemoveElement
  <2>16. SumFunction(g) \in Int
    BY <2>15, SumType
  <2>17. SumFunction(g) = Paid(u) - Owed(u) + GotBack(u) - PaidBack(u)
    BY <2>4, <2>5, <2>6, <2>8, <2>11, <2>13, <2>14, <2>16
  <2>18. SumFunction(g) = NetBalances[u] - 2 * (PaidBack(u) - GotBack(u))
    BY <2>7, <2>8, <2>17
  <2> QED  BY <2>3, <2>18
<1> QED  BY <1>1, InitExactInv, NextExactInv, PTL DEF Spec

-----------------------------------------------------------------------------
(* The shares of u in some of the expenses. *)
PartOf(X, u) == SumFunction([d \in Expenses |-> IF d \in X THEN OwedFor(d, u) ELSE 0])

(* It is an integer. *)
LEMMA PartType ==
    ASSUME ValueInv, NEW X, NEW u
    PROVE  /\ [d \in Expenses |-> IF d \in X THEN OwedFor(d, u) ELSE 0] \in [Expenses -> Int]
           /\ PartOf(X, u) \in Int
<1> DEFINE f == [d \in Expenses |-> IF d \in X THEN OwedFor(d, u) ELSE 0]
<1>1. f \in [Expenses -> Int]
  BY RowsAreCents
<1>2. IsFiniteSet(Expenses)
  BY LedgerConstants
<1> HIDE DEF f
<1>3. SumFunction(f) \in Int
  BY <1>1, <1>2, SumType
<1> QED  BY <1>1, <1>3 DEF PartOf, f

(* No expenses, no shares. *)
LEMMA PartOfNone ==
    ASSUME NEW X, NEW u, \A d \in Expenses : d \notin X
    PROVE  PartOf(X, u) = 0
<1> DEFINE f == [d \in Expenses |-> IF d \in X THEN OwedFor(d, u) ELSE 0]
<1>1. DOMAIN f = Expenses /\ \A d \in Expenses : f[d] = 0
  OBVIOUS
<1>2. IsFiniteSet(Expenses)
  BY LedgerConstants
<1> HIDE DEF f
<1>3. SumFunction(f) = 0
  BY <1>1, <1>2, SumOfZeros
<1> QED  BY <1>3 DEF PartOf, f

(* One expense more. *)
LEMMA PartOfMore ==
    ASSUME ValueInv, NEW X, NEW Y, NEW e \in Expenses, NEW u, e \in Y, e \notin X,
           \A d \in Expenses : d # e => (d \in Y <=> d \in X)
    PROVE  PartOf(Y, u) = PartOf(X, u) + OwedFor(e, u)
<1> DEFINE f == [d \in Expenses |-> IF d \in X THEN OwedFor(d, u) ELSE 0]
           g == [d \in Expenses |-> IF d \in Y THEN OwedFor(d, u) ELSE 0]
<1>1. f \in [Expenses -> Int] /\ g \in [Expenses -> Int]
  BY PartType
<1>2. (\A d \in Expenses \ {e} : g[d] = f[d]) /\ f[e] = 0 /\ g[e] = OwedFor(e, u)
  OBVIOUS
<1>3. IsFiniteSet(Expenses)
  BY LedgerConstants
<1>4. PartOf(X, u) = SumFunction(f) /\ PartOf(Y, u) = SumFunction(g)
  BY DEF PartOf
<1>5. OwedFor(e, u) \in Int
  BY RowsAreCents
<1> HIDE DEF f, g
<1>6. SumFunction(g) = SumFunction(f) - f[e] + g[e]
  BY <1>1, <1>2, <1>3, SumUpdate
<1>7. SumFunction(f) \in Int
  BY <1>1, <1>3, SumType
<1> QED  BY <1>2, <1>4, <1>5, <1>6, <1>7

(* More expenses, more shares, when none is negative. *)
LEMMA PartGrows ==
    ASSUME ValueInv, NEW X, NEW Y, NEW u, ~NegativeShares(u),
           \A d \in Expenses : d \in X => d \in Y
    PROVE  PartOf(X, u) <= PartOf(Y, u)
<1> DEFINE f == [d \in Expenses |-> IF d \in X THEN OwedFor(d, u) ELSE 0]
           g == [d \in Expenses |-> IF d \in Y THEN OwedFor(d, u) ELSE 0]
<1>1. f \in [Expenses -> Int] /\ g \in [Expenses -> Int]
  BY PartType
<1>2. \A d \in Expenses : OwedFor(d, u) \in Int /\ OwedFor(d, u) >= 0
  <2>1. \A d \in Expenses : OwedFor(d, u) \in Int
    BY RowsAreCents
  <2> QED  BY <2>1 DEF OwedFor, NegativeShares
<1>3. \A d \in Expenses : f[d] <= g[d]
  BY <1>2
<1>4. IsFiniteSet(Expenses)
  BY LedgerConstants
<1>5. PartOf(X, u) = SumFunction(f) /\ PartOf(Y, u) = SumFunction(g)
  BY DEF PartOf
<1> HIDE DEF f, g
<1>6. SumFunction(f) <= SumFunction(g)
  BY <1>1, <1>3, <1>4, SumMonotone
<1> QED  BY <1>5, <1>6

(* The same sum as the code writes it. *)
LEMMA PartAsWritten ==
    ASSUME ValueInv, NEW X \in SUBSET Expenses, NEW u
    PROVE  SumFunction([d \in X |-> IF u \in DOMAIN shares[d] THEN shares[d][u] ELSE 0])
               = PartOf(X, u)
<1> DEFINE f == [d \in Expenses |-> IF d \in X THEN OwedFor(d, u) ELSE 0]
           g == [d \in X |-> f[d]]
<1>1. f \in [Expenses -> Int] /\ (\A d \in Expenses \ X : f[d] = 0)
  BY PartType
<1>2. g = [d \in X |-> IF u \in DOMAIN shares[d] THEN shares[d][u] ELSE 0]
  BY DEF OwedFor
<1>3. IsFiniteSet(Expenses)
  BY LedgerConstants
<1> HIDE DEF f
<1>4. SumFunction(f) = SumFunction([d \in X |-> f[d]])
  BY <1>1, <1>3, SumWithoutZeros
<1> QED  BY <1>2, <1>4 DEF PartOf, f

(* The expenses of v that come before the k-th place. *)
Earlier(v, place, k) == {d \in Expenses : /\ expense[d] # NoExpense /\ expense[d].paidBy = v
                                          /\ place[d] < k}

(* The shares of u in all the expenses of v. *)
LEMMA EarlierOfPayer ==
    ASSUME NEW v, NEW u, NEW place \in Orders, NEW k, k = Cardinality(Expenses) + 1
    PROVE  PartOf(Earlier(v, place, k), u) = ShareIn(v, u)
<1>1. Cardinality(Expenses) \in Nat
  BY LedgerConstants, FS_CardinalityType
<1>2. \A d \in Expenses : place[d] < k
  BY <1>1 DEF Orders
<1>3. \A d \in Expenses : (IF d \in Earlier(v, place, k) THEN OwedFor(d, u) ELSE 0) = ShareOf(d, v, u)
  BY <1>2 DEF Earlier, OwedFor, ShareOf
<1>4. [d \in Expenses |-> IF d \in Earlier(v, place, k) THEN OwedFor(d, u) ELSE 0]
         = [d \in Expenses |-> ShareOf(d, v, u)]
  BY <1>3
<1>5. ShareIn(v, u) = SumFunction([d \in Expenses |-> ShareOf(d, v, u)])
  BY PairParts
<1> QED  BY <1>4, <1>5 DEF PartOf

(* What target_is_active computes for the debtor u of e. *)
SharesBefore(e, place, u) ==
    SumFunction([d \in Prior(e, place) |-> IF u \in DOMAIN shares[d] THEN shares[d][u] ELSE 0])

(* It is the sum over the earlier expenses, and one share more the next one. *)
LEMMA DueByPlace ==
    ASSUME ValueInv, NEW e \in Expenses, NEW place \in Orders, NEW v, NEW u,
           expense[e] # NoExpense, expense[e].paidBy = v, u \in DOMAIN shares[e]
    PROVE  /\ SharesBefore(e, place, u) = PartOf(Earlier(v, place, place[e]), u)
           /\ SharesBefore(e, place, u) + shares[e][u]
                  = PartOf(Earlier(v, place, place[e] + 1), u)
           /\ SharesBefore(e, place, u) \in Int /\ shares[e][u] \in Int
<1> DEFINE X == Earlier(v, place, place[e])
           Y == Earlier(v, place, place[e] + 1)
<1>1. Prior(e, place) = X /\ X \in SUBSET Expenses
  BY DEF Prior, Earlier
<1>2. \A d \in Expenses : place[d] \in Int
  <2>1. Cardinality(Expenses) \in Nat
    BY LedgerConstants, FS_CardinalityType
  <2> QED  BY <2>1 DEF Orders
<1>3. \A d \in Expenses : d # e => place[d] # place[e]
  BY DEF Orders, IsInjective
<1>4. e \in Y /\ e \notin X /\ \A d \in Expenses : d # e => (d \in Y <=> d \in X)
  BY <1>2, <1>3 DEF Earlier
<1> HIDE DEF X, Y
<1>5. PartOf(Y, u) = PartOf(X, u) + OwedFor(e, u)
  BY <1>4, PartOfMore
<1>6. OwedFor(e, u) = shares[e][u] /\ OwedFor(e, u) \in Int
  BY RowsAreCents DEF OwedFor
<1>7. PartOf(X, u) \in Int
  BY PartType
<1>8. SharesBefore(e, place, u) = PartOf(X, u)
  BY <1>1, PartAsWritten DEF SharesBefore
<1> QED  BY <1>5, <1>6, <1>7, <1>8 DEF X, Y

(* An expense of v has a reminder for u as soon as the shares of u outgrow
   what u has paid. *)
LEMMA DebtorIsReminded ==
    ASSUME ValueInv, NEW place \in Orders, NEW v \in Users, NEW u \in Users \ {v},
           ShareIn(v, u) > PaidTo(u, v)
    PROVE  \E e \in Expenses : /\ expense[e] # NoExpense /\ expense[e].paidBy = v
                               /\ ExpenseIsDue(e, place)
<1> DEFINE n == Cardinality(Expenses)
           paid == PaidTo(u, v)
           part(k) == PartOf(Earlier(v, place, k), u)
           K == {k \in Nat : part(k) > paid}
<1>1. n \in Nat /\ \A d \in Expenses : place[d] \in 1..n
  BY LedgerConstants, FS_CardinalityType DEF Orders
<1>2. paid \in Int /\ paid >= 0
  BY PairPartsType
<1>3. \A k : part(k) \in Int
  BY PartType
<1>4. n + 1 \in K
  BY <1>1, EarlierOfPayer
<1>5. PICK k \in K : \A j \in K : k <= j
  <2>1. K \in SUBSET Nat /\ K # {}
    BY <1>4
  <2> HIDE DEF K
  <2> QED  BY <2>1, LeastElement
<1>6. k \in Nat /\ part(k) > paid
  OBVIOUS
<1>7. k # 0
  <2> SUFFICES ASSUME k = 0 PROVE FALSE
    OBVIOUS
  <2>1. \A d \in Expenses : d \notin Earlier(v, place, k)
    BY <1>1 DEF Earlier
  <2>2. part(k) = 0
    BY <2>1, PartOfNone
  <2> QED  BY <1>2, <1>6, <2>2
<1> DEFINE j == k - 1
<1>8. j \in Nat /\ k = j + 1 /\ j < k
  BY <1>6, <1>7
<1>9. part(j) <= paid
  <2>1. j \notin K
    BY <1>5, <1>8
  <2>2. part(j) \in Int
    BY <1>3
  <2> QED  BY <1>2, <1>8, <2>1, <2>2
<1> HIDE DEF j, K
<1>10. PICK e \in Earlier(v, place, k) : e \notin Earlier(v, place, j)
  <2> SUFFICES ASSUME \A d \in Expenses : d \in Earlier(v, place, k) => d \in Earlier(v, place, j)
               PROVE  FALSE
    BY DEF Earlier
  <2>1. \A d \in Expenses : d \in Earlier(v, place, k) <=> d \in Earlier(v, place, j)
    BY <1>1, <1>8 DEF Earlier
  <2>2. part(k) = part(j)
    <3>1. [d \in Expenses |-> IF d \in Earlier(v, place, k) THEN OwedFor(d, u) ELSE 0]
             = [d \in Expenses |-> IF d \in Earlier(v, place, j) THEN OwedFor(d, u) ELSE 0]
      BY <2>1
    <3> QED  BY <3>1 DEF PartOf
  <2>3. part(k) \in Int /\ part(j) \in Int
    BY <1>3
  <2> HIDE DEF part
  <2> QED  BY <1>2, <1>6, <1>9, <2>2, <2>3
<1>11. /\ e \in Expenses /\ expense[e] # NoExpense /\ expense[e].paidBy = v
       /\ place[e] = j
  BY <1>1, <1>8, <1>10 DEF Earlier
<1>12. part(place[e]) <= paid /\ part(place[e] + 1) > paid
  BY <1>6, <1>8, <1>9, <1>11
<1>13. u \in DOMAIN shares[e]
  <2> SUFFICES ASSUME u \notin DOMAIN shares[e] PROVE FALSE
    OBVIOUS
  <2>1. OwedFor(e, u) = 0
    BY DEF OwedFor
  <2> DEFINE X == Earlier(v, place, place[e])
             Y == Earlier(v, place, place[e] + 1)
  <2>2. \A d \in Expenses : d # e => place[d] # place[e]
    BY <1>11 DEF Orders, IsInjective
  <2>3. e \in Y /\ e \notin X /\ \A d \in Expenses : d # e => (d \in Y <=> d \in X)
    BY <1>1, <1>11, <2>2 DEF Earlier
  <2> HIDE DEF X, Y
  <2>4. PartOf(Y, u) = PartOf(X, u) + OwedFor(e, u)
    BY <1>11, <2>3, PartOfMore
  <2>5. PartOf(X, u) \in Int
    BY PartType
  <2>6. PartOf(X, u) <= paid /\ PartOf(Y, u) > paid
    BY <1>12 DEF X, Y
  <2> HIDE DEF paid
  <2> QED  BY <1>2, <2>1, <2>4, <2>5, <2>6
<1> DEFINE before == SharesBefore(e, place, u)
<1>14. /\ before = part(place[e])
       /\ before + shares[e][u] = part(place[e] + 1)
       /\ before \in Int /\ shares[e][u] \in Int
  <2>1. u \in DOMAIN shares[e] /\ e \in Expenses /\ expense[e] # NoExpense /\ expense[e].paidBy = v
    BY <1>11, <1>13
  <2>2. /\ before = PartOf(Earlier(v, place, place[e]), u)
        /\ before + shares[e][u] = PartOf(Earlier(v, place, place[e] + 1), u)
        /\ before \in Int /\ shares[e][u] \in Int
    BY <2>1, DueByPlace
  <2> QED  BY <2>2
<1> HIDE DEF part, n
<1>15. before <= paid /\ before + shares[e][u] > paid
  BY <1>12, <1>14
<1>16. StillDue(before + shares[e][u], paid) > StillDue(before, paid)
  <2> HIDE DEF before, paid
  <2> QED  BY <1>2, <1>14, <1>15 DEF StillDue
<1>17. ExpenseIsDue(e, place)
  <2>1. u \in DOMAIN shares[e] \ {expense[e].paidBy}
    BY <1>11, <1>13
  <2> QED  BY <1>11, <1>16, <2>1 DEF ExpenseIsDue, SharesBefore
<1> QED  BY <1>11, <1>17

(* And the other way round, but for negative shares. *)
LEMMA RemindedIsInDebt ==
    ASSUME ValueInv, NEW place \in Orders, NEW v \in Users, NEW e \in Expenses,
           expense[e] # NoExpense, expense[e].paidBy = v, ExpenseIsDue(e, place)
    PROVE  \E u \in Users \ {v} : ShareIn(v, u) > PaidTo(u, v) \/ NegativeShares(u)
<1> DEFINE before(u) == SharesBefore(e, place, u)
           n == Cardinality(Expenses)
<1>1. PICK u \in DOMAIN shares[e] \ {v} :
         StillDue(before(u) + shares[e][u], PaidTo(u, v)) > StillDue(before(u), PaidTo(u, v))
  BY DEF ExpenseIsDue, SharesBefore
<1>2. u \in Users \ {v}
  BY DEF ValueInv, IInv, TypeOK
<1> SUFFICES ASSUME ~NegativeShares(u) PROVE ShareIn(v, u) > PaidTo(u, v)
  BY <1>2
<1> DEFINE X == Earlier(v, place, place[e] + 1)
           Y == Earlier(v, place, n + 1)
           b == before(u)
           s == shares[e][u]
           paid == PaidTo(u, v)
<1>3. b + s = PartOf(X, u) /\ b \in Int /\ s \in Int
  BY DueByPlace
<1>4. paid \in Int /\ PartOf(Y, u) \in Int /\ PartOf(X, u) \in Int
  BY PairPartsType, PartType
<1>5. StillDue(b + s, paid) > StillDue(b, paid)
  BY <1>1
<1>6. ShareIn(v, u) = PartOf(Y, u)
  BY EarlierOfPayer
<1>7. \A d \in Expenses : d \in X => d \in Y
  <2>1. n \in Nat /\ \A d \in Expenses : place[d] \in 1..n
    BY LedgerConstants, FS_CardinalityType DEF Orders
  <2> QED  BY <2>1 DEF Earlier
<1> HIDE DEF b, s, paid, X, Y
<1>8. PartOf(X, u) <= PartOf(Y, u)
  BY <1>7, PartGrows
<1>9. b + s > paid
  BY <1>3, <1>4, <1>5 DEF StillDue
<1> QED  BY <1>3, <1>4, <1>6, <1>8, <1>9 DEF paid

(* With any number of workers and on any books, the expenses of a payer have a
   reminder to send as long as somebody has not paid the payer back, and no
   longer but for negative shares (Reminder.target_is_active). *)
THEOREM RemindersFollowDebts == Spec => []ExpenseRemindersFollowDebts
<1>1. ValueInv => ExpenseRemindersFollowDebts
  BY DebtorIsReminded, RemindedIsInDebt DEF ExpenseRemindersFollowDebts
<1> QED  BY <1>1, InitValueInv, NextValueInv, PTL DEF Spec

=============================================================================
