-------------------------- MODULE PermissionVecProofs --------------------------
(***************************************************************************)
(* Proofs about PermissionVec, for every set of rules, templates, callers  *)
(* and every bound: type correctness, that a walk sees the list it started *)
(* on, and that the Vec behind its lock implements PermissionTree.         *)
(***************************************************************************)
EXTENDS PermissionVec, FiniteSetTheorems, SequenceTheorems, TLAPS

(***************************************************************************)
(* Induction.  The least number of a set of naturals is the one whose      *)
(* initial segment is minimal among finite sets.                           *)
(***************************************************************************)
LEMMA LeastElement ==
  ASSUME NEW T \in SUBSET Nat, T # {}
  PROVE  \E m \in T : \A n \in T : m <= n
<1> DEFINE F == {0..n : n \in T}
<1>1. F \subseteq FiniteSubsetsOf(Nat) /\ F # {}
  <2>1. ASSUME NEW n \in T
        PROVE  0..n \in FiniteSubsetsOf(Nat)
    BY FS_Interval DEF FiniteSubsetsOf
  <2> QED BY <2>1
<1>2. IsWellFoundedOn(StrictSubsetOrdering(Nat), FiniteSubsetsOf(Nat))
  BY FS_StrictSubsetOrderingWellFounded
<1> HIDE DEF F
<1>3. PICK X \in F : \A Y \in F : ~(<<Y, X>> \in StrictSubsetOrdering(Nat))
  BY <1>1, <1>2, WFMin
<1>4. PICK m \in T : X = 0..m
  BY DEF F
<1>5. ASSUME NEW n \in T, ~(m <= n)
      PROVE  FALSE
  <2>1. 0..n \in F
    BY DEF F
  <2>2. 0..n \subseteq 0..m /\ m \in 0..m /\ m \notin 0..n /\ 0..m \subseteq Nat
    BY <1>5
  <2>3. <<0..n, 0..m>> \in StrictSubsetOrdering(Nat)
    BY <2>2 DEF StrictSubsetOrdering
  <2> QED BY <1>3, <1>4, <2>1, <2>3
<1> QED BY <1>5

\* What holds of 0 and is passed on from each number to the next holds up to n.
LEMMA UpTo ==
  ASSUME NEW n \in Nat, NEW T, 0 \in T, \A i \in 1..n : i - 1 \in T => i \in T
  PROVE  0..n \subseteq T
<1> DEFINE Bad == (0..n) \ T
<1> SUFFICES ASSUME Bad # {} PROVE FALSE
  OBVIOUS
<1>1. Bad \in SUBSET Nat
  OBVIOUS
<1> HIDE DEF Bad
<1>2. PICK m \in Bad : \A k \in Bad : m <= k
  BY <1>1, LeastElement
<1>3. m \in 1..n /\ m \notin T
  BY <1>2 DEF Bad
<1>4. m - 1 \in 0..n /\ ~(m <= m - 1)
  BY <1>3
<1>5. m - 1 \in T
  BY <1>2, <1>4 DEF Bad
<1> QED BY <1>3, <1>5
-----------------------------------------------------------------------------
(***************************************************************************)
(* Retain.                                                                 *)
(***************************************************************************)
\* Positions grow along the list.
InOrder(s) == \A i, j \in 1..Len(s) : i < j => s[i].pos < s[j].pos

\* One step of the loop of Retain.
Turn(s, R, before, i) == IF s[i] \in R THEN Append(before, s[i]) ELSE before

\* The recursive function exists: it is built one argument at a time.
LEMMA KeptDefined ==
  ASSUME NEW s \in Seq(Rule), NEW R
  PROVE  \E f : f = [i \in 0..Len(s) |-> IF i = 0 THEN <<>>
                                         ELSE IF s[i] \in R THEN Append(f[i - 1], s[i])
                                         ELSE f[i - 1]]
<1> DEFINE Good(f, n) == f = [i \in 0..n |-> IF i = 0 THEN <<>>
                                             ELSE IF s[i] \in R THEN Append(f[i - 1], s[i])
                                             ELSE f[i - 1]]
           T == {n \in 0..Len(s) : \E f : Good(f, n)}
<1>1. Len(s) \in Nat
  OBVIOUS
<1>2. 0 \in T
  <2>1. Good([i \in 0..0 |-> <<>>], 0)
    OBVIOUS
  <2>2. \E f : Good(f, 0)
    BY <2>1, Zenon
  <2> HIDE DEF Good
  <2> QED BY <1>1, <2>2
<1>3. ASSUME NEW n \in 1..Len(s), n - 1 \in T
      PROVE  n \in T
  <2>1. PICK f : Good(f, n - 1)
    BY <1>3
  <2> DEFINE g == [i \in 0..n |-> IF i = n THEN Turn(s, R, f[n - 1], n) ELSE f[i]]
  <2>2. n \in Nat \ {0} /\ 0 # n /\ n - 1 \in 0..n /\ n - 1 # n
    BY <1>1
  <2>3. g[0] = <<>>
    <3>1. 0 \in 0..n /\ 0 \in 0..(n - 1)
      BY <2>2
    <3> QED BY <2>1, <2>2, <3>1
  <2>4. ASSUME NEW i \in 1..n
        PROVE  g[i] = Turn(s, R, g[i - 1], i)
    <3>1. i \in 0..n /\ i - 1 \in 0..n /\ i - 1 # n /\ i # 0
      BY <2>2
    <3>2. g[i - 1] = f[i - 1]
      BY <3>1
    <3>3. CASE i = n
      BY <3>1, <3>2, <3>3
    <3>4. CASE i # n
      <4>1. i \in 0..(n - 1)
        BY <2>2, <3>4
      <4>2. f[i] = Turn(s, R, f[i - 1], i)
        BY <2>1, <3>1, <4>1 DEF Turn
      <4> QED BY <3>1, <3>2, <3>4, <4>2
    <3> QED BY <3>3, <3>4
  <2>5. g = [i \in 0..n |-> g[i]]
    OBVIOUS
  <2> HIDE DEF g
  <2>6. \A i \in 0..n : i = 0 \/ i \in 1..n
    BY <2>2
  <2>7. Good(g, n)
    BY <2>3, <2>4, <2>5, <2>6, Zenon DEF Turn
  <2> QED BY <2>2, <2>7, <1>1
<1> HIDE DEF T
<1>4. 0..Len(s) \subseteq T
  BY <1>1, <1>2, <1>3, UpTo
<1>5. Len(s) \in T
  BY <1>1, <1>4
<1> QED BY <1>5 DEF T

LEMMA KeptValues ==
  ASSUME NEW s \in Seq(Rule), NEW R
  PROVE  /\ Kept(s, R)[0] = <<>>
         /\ \A i \in 1..Len(s) : Kept(s, R)[i] = Turn(s, R, Kept(s, R)[i - 1], i)
<1>1. Kept(s, R) = [i \in 0..Len(s) |-> IF i = 0 THEN <<>>
                      ELSE IF s[i] \in R THEN Append(Kept(s, R)[i - 1], s[i])
                      ELSE Kept(s, R)[i - 1]]
  <2> DEFINE Good(f) == f = [i \in 0..Len(s) |-> IF i = 0 THEN <<>>
                               ELSE IF s[i] \in R THEN Append(f[i - 1], s[i]) ELSE f[i - 1]]
  <2>1. \E f : Good(f)
    BY KeptDefined, Zenon
  <2>2. Kept(s, R) = CHOOSE f : Good(f)
    BY Zenon DEF Kept
  <2> HIDE DEF Good
  <2>3. Good(Kept(s, R))
    BY <2>1, <2>2, Zenon
  <2> QED BY <2>3 DEF Good
<1>2. 0 \in 0..Len(s) /\ \A i \in 1..Len(s) : i \in 0..Len(s) /\ i # 0
  OBVIOUS
<1> QED BY <1>1, <1>2 DEF Turn

\* Retain keeps the rules of the list that are in R, in their order.
LEMMA RetainProperties ==
  ASSUME NEW s \in Seq(Rule), NEW R, InOrder(s)
  PROVE  /\ Retain(s, R) \in Seq(Rule)
         /\ Len(Retain(s, R)) <= Len(s)
         /\ ToSet(Retain(s, R)) = ToSet(s) \cap R
         /\ InOrder(Retain(s, R))
<1> DEFINE k == Kept(s, R)
           T == {n \in 0..Len(s) :
                   /\ k[n] \in Seq(Rule)
                   /\ Len(k[n]) <= n
                   /\ \A x : x \in ToSet(k[n]) <=> x \in R /\ \E j \in 1..n : x = s[j]
                   /\ InOrder(k[n])}
<1>1. Len(s) \in Nat /\ \A i \in 1..Len(s) : s[i] \in Rule
  OBVIOUS
<1>2. 0 \in T
  <2>1. k[0] = <<>>
    BY KeptValues
  <2> HIDE DEF k
  <2>2. k[0] \in Seq(Rule) /\ Len(k[0]) = 0 /\ ToSet(k[0]) = {}
    BY <2>1 DEF ToSet
  <2>3. InOrder(k[0])
    BY <2>2 DEF InOrder
  <2> QED BY <1>1, <2>2, <2>3
<1>3. ASSUME NEW n \in 1..Len(s), n - 1 \in T
      PROVE  n \in T
  <2>1. k[n] = Turn(s, R, k[n - 1], n)
    BY KeptValues
  <2> DEFINE b == k[n - 1]
  <2>2. /\ b \in Seq(Rule)
        /\ Len(b) <= n - 1
        /\ \A x : x \in ToSet(b) <=> x \in R /\ \E j \in 1..(n - 1) : x = s[j]
        /\ InOrder(b)
    BY <1>3
  <2>3. n \in 0..Len(s) /\ n \in Nat /\ s[n] \in Rule
        /\ \A j : j \in 1..n <=> j = n \/ j \in 1..(n - 1)
    BY <1>1
  <2>4. k[n] = IF s[n] \in R THEN Append(b, s[n]) ELSE b
    BY <2>1 DEF Turn
  <2> HIDE DEF k
  <2>5. CASE s[n] \notin R
    <3>1. k[n] = b
      BY <2>4, <2>5
    <3>2. \A x : x \in ToSet(b) <=> x \in R /\ \E j \in 1..n : x = s[j]
      BY <2>2, <2>3, <2>5
    <3>3. Len(b) <= n
      BY <2>2, <2>3
    <3> QED BY <2>2, <2>3, <3>1, <3>2, <3>3
  <2>6. CASE s[n] \in R
    <3>1. k[n] = Append(b, s[n])
      BY <2>4, <2>6
    <3> HIDE DEF b
    <3>2. /\ k[n] \in Seq(Rule)
          /\ Len(k[n]) = Len(b) + 1 /\ Len(b) \in Nat
          /\ \A i \in 1..Len(b) : k[n][i] = b[i]
          /\ k[n][Len(b) + 1] = s[n]
      BY <2>2, <2>3, <3>1
    <3>3. \A x : x \in ToSet(k[n]) <=> x = s[n] \/ x \in ToSet(b)
      <4>1. DOMAIN k[n] = 1..(Len(b) + 1) /\ DOMAIN b = 1..Len(b)
        BY <2>2, <3>2
      <4>2. \A i : i \in 1..(Len(b) + 1) <=> i = Len(b) + 1 \/ i \in 1..Len(b)
        BY <3>2
      <4> QED BY <3>2, <4>1, <4>2 DEF ToSet
    <3>4. \A x : x \in ToSet(k[n]) <=> x \in R /\ \E j \in 1..n : x = s[j]
      BY <2>2, <2>3, <2>6, <3>3
    <3>5. InOrder(k[n])
      <4> SUFFICES ASSUME NEW i \in 1..(Len(b) + 1), NEW j \in 1..(Len(b) + 1), i < j
                   PROVE  k[n][i].pos < k[n][j].pos
        BY <3>2 DEF InOrder
      <4>1. i \in 1..Len(b)
        BY <3>2
      <4>2. CASE j \in 1..Len(b)
        BY <2>2, <3>2, <4>1, <4>2 DEF InOrder
      <4>3. CASE j = Len(b) + 1
        <5>1. b[i] \in ToSet(b)
          BY <2>2, <4>1 DEF ToSet
        <5>2. PICK m \in 1..(n - 1) : b[i] = s[m]
          BY <2>2, <5>1
        <5>3. m \in 1..Len(s) /\ m < n
          BY <1>1, <2>3
        <5>4. s[m].pos < s[n].pos
          BY <5>3 DEF InOrder
        <5> QED BY <3>2, <4>1, <4>3, <5>2, <5>4
      <4> QED BY <3>2, <4>2, <4>3
    <3>6. Len(k[n]) <= n
      BY <2>2, <2>3, <3>2
    <3> QED BY <2>3, <3>2, <3>4, <3>5, <3>6
  <2> QED BY <2>5, <2>6
<1> HIDE DEF T
<1>4. 0..Len(s) \subseteq T
  BY <1>1, <1>2, <1>3, UpTo
<1>5. Len(s) \in T
  BY <1>1, <1>4
<1>6. Retain(s, R) = k[Len(s)]
  BY DEF Retain
<1>7. \A x : x \in ToSet(s) <=> \E j \in 1..Len(s) : x = s[j]
  BY DEF ToSet
<1> HIDE DEF k
<1> QED BY <1>5, <1>6, <1>7 DEF T
-----------------------------------------------------------------------------
(***************************************************************************)
(* The inductive invariant.                                                *)
(***************************************************************************)
Walking(c) == At(c, "forbids") \/ At(c, "permits")

Shape ==
  /\ vec \in Seq(Rule)
  /\ walk \in [Caller -> Walk]
  /\ writer \in Caller \cup {NoCaller}
  /\ readers \subseteq Caller
  /\ nextPos \in 1..(MaxRules + 1)
  /\ now \in 0..MaxTime
  /\ call \in [Caller -> Tree!Call]
  /\ grants \in [Tree!Pos -> Nat]

\* The list is in the order of the positions, which leaves room for a walk's index.
Positions ==
  /\ \A i \in 1..Len(vec) : vec[i].pos \in 1..(nextPos - 1)
  /\ InOrder(vec)
  /\ Len(vec) < nextPos

\* A caller is in the lock exactly while it walks.
LockOf(c) ==
  /\ c \in readers <=> Walking(c) /\ call[c].op = "has_forbid"
  /\ writer = c <=> Walking(c) /\ call[c].op = "evaluate"

Excluded == writer # NoCaller => readers = {}

\* The call of a caller and its walk agree; the clock was read during the call.
CallOf(c) ==
  /\ call[c].since <= now
  /\ At(c, "idle") <=> Tree!Idle(c)
  /\ Walking(c) => walk[c].t \in call[c].since..now
  /\ ~Walking(c) => walk[c].i = 1
  /\ At(c, "permits") => call[c].op = "evaluate"

VecInv ==
  /\ Shape
  /\ Positions
  /\ Excluded
  /\ \A c \in Caller : LockOf(c) /\ CallOf(c)
  /\ WalkSound

\* WalkSound, of one caller.
WalkOf(c) ==
  /\ walk[c].i \in 1..(Len(vec) + 1)
  /\ At(c, "forbids") =>
       \A i \in 1..(walk[c].i - 1) : ~Applies(vec[i], c, "forbid")
  /\ At(c, "permits") =>
       /\ \A r \in ToSet(vec) : ~Applies(r, c, "forbid")
       /\ \A i \in 1..(walk[c].i - 1) :
            Applies(vec[i], c, "permit") => IsSpent(vec[i])

LEMMA VecInvType == VecInv => TypeOK
<1> SUFFICES ASSUME VecInv PROVE TypeOK
  OBVIOUS
<1>1. Tree!Rule = Rule
  BY DEF Tree!Rule, Rule, Tree!Never, Never, Tree!Effect, Effect, Tree!RuleType, RuleType
<1>2. \A r \in ToSet(vec) : \E i \in 1..Len(vec) : r = vec[i]
  BY DEF ToSet, VecInv, Shape
<1>3. ToSet(vec) \subseteq Rule /\ \A r \in ToSet(vec) : r.pos \in 1..(nextPos - 1)
  <2>1. \A i \in 1..Len(vec) : vec[i] \in Rule /\ vec[i].pos \in 1..(nextPos - 1)
    BY DEF VecInv, Shape, Positions
  <2> QED BY <1>2, <2>1
<1>4. ASSUME NEW r \in ToSet(vec), NEW q \in ToSet(vec), r.pos = q.pos
      PROVE  r = q
  <2>1. PICK i \in 1..Len(vec), j \in 1..Len(vec) : r = vec[i] /\ q = vec[j]
    BY <1>2
  <2>2. ~(i < j) /\ ~(j < i)
    BY <1>4, <2>1 DEF VecInv, Shape, Positions, InOrder, Rule
  <2>3. i = j
    BY <2>2 DEF VecInv, Shape
  <2> QED BY <2>1, <2>3
<1> QED BY <1>1, <1>3, <1>4
        DEF TypeOK, Tree!TypeOK, VecInv, Shape, CallOf

LEMMA VecInvInit == Init => VecInv
<1> SUFFICES ASSUME Init PROVE VecInv
  OBVIOUS
<1> USE RulesAssumption, VecAssumption
<1>1. Shape
  BY DEF Init, Tree!Init, Shape, Walk, Tree!Call, Tree!Op, Tree!Result, Tree!Pos
<1>2. Positions
  BY DEF Init, Tree!Init, Positions, InOrder
<1>3. ASSUME NEW c \in Caller
      PROVE  /\ walk[c] = [pc |-> "idle", i |-> 1, t |-> 0]
             /\ call[c].op = "none" /\ call[c].since = 0 /\ now = 0
             /\ c # NoCaller /\ writer = NoCaller /\ readers = {} /\ vec = <<>>
  BY DEF Init, Tree!Init
<1>4. \A c \in Caller : LockOf(c)
  BY <1>3 DEF LockOf, Walking, At
<1>5. \A c \in Caller : CallOf(c)
  BY <1>3 DEF CallOf, Walking, At, Tree!Idle
<1>6. \A c \in Caller : WalkOf(c)
  BY <1>3 DEF WalkOf, At
<1> QED BY <1>1, <1>2, <1>4, <1>5, <1>6 DEF VecInv, WalkSound, WalkOf, Excluded, Init

\* A step of one caller: the others keep theirs, and see no change of the list.
LEMMA OneCaller ==
  ASSUME VecInv, NEW c \in Caller, now' = now,
         \A d \in Caller \ {c} : /\ walk'[d] = walk[d] /\ call'[d] = call[d]
                                 /\ writer' = d <=> writer = d
                                 /\ d \in readers' <=> d \in readers,
         vec' = vec \/ \A d \in Caller \ {c} : ~Walking(d),
         Shape', Positions', Excluded', LockOf(c)', CallOf(c)', WalkOf(c)'
  PROVE  VecInv'
<1>1. ASSUME NEW d \in Caller \ {c}
      PROVE  LockOf(d)' /\ CallOf(d)'
  <2>1. LockOf(d) /\ CallOf(d)
    BY DEF VecInv
  <2> QED BY <2>1 DEF LockOf, CallOf, Walking, At, Tree!Idle
<1>2. ASSUME NEW d \in Caller \ {c}
      PROVE  WalkOf(d)'
  <2>1. WalkOf(d) /\ CallOf(d)
    BY DEF VecInv, WalkSound, WalkOf
  <2>2. CASE vec' = vec
    BY <2>1, <2>2 DEF WalkOf, At, Applies, ToSet
  <2>3. CASE ~Walking(d)
    <3>1. walk'[d].i = 1 /\ ~At(d, "forbids")' /\ ~At(d, "permits")'
      BY <2>1, <2>3 DEF CallOf, Walking, At
    <3>2. Len(vec') \in Nat
      BY DEF Shape
    <3> QED BY <3>1, <3>2 DEF WalkOf
  <2> QED BY <2>2, <2>3
<1>3. \A d \in Caller : LockOf(d)' /\ CallOf(d)' /\ WalkOf(d)'
  BY <1>1, <1>2
<1> QED BY <1>3 DEF VecInv, WalkSound, WalkOf

\* While nobody is in the lock nobody walks, so the list may change.
LEMMA NobodyWalks ==
  ASSUME VecInv, LockFree, NEW c \in Caller
  PROVE  ~Walking(c)
<1>1. call[c] \in Tree!Call /\ LockOf(c) /\ CallOf(c) /\ c # NoCaller
  BY VecAssumption DEF VecInv, Shape
<1>2. Walking(c) => call[c].op \in {"evaluate", "has_forbid"}
  BY <1>1 DEF CallOf, Walking, At, Tree!Idle, Tree!Call, Tree!Op
<1> QED BY <1>1, <1>2 DEF LockOf, LockFree

LEMMA ListChanges ==
  ASSUME VecInv, ChangeList, vec' \in Seq(Rule), InOrder(vec'), Len(vec') < nextPos',
         nextPos' \in 1..(MaxRules + 1),
         \A i \in 1..Len(vec') : vec'[i].pos \in 1..(nextPos' - 1)
  PROVE  VecInv'
<1> USE DEF ChangeList, lock
<1>1. Shape' /\ Positions' /\ Excluded'
  BY DEF VecInv, Shape, Positions, Excluded, InOrder
<1>2. ASSUME NEW c \in Caller
      PROVE  LockOf(c)' /\ CallOf(c)' /\ WalkOf(c)'
  <2>1. LockOf(c) /\ CallOf(c) /\ ~Walking(c)
    BY NobodyWalks DEF VecInv
  <2>2. LockOf(c)' /\ CallOf(c)'
    BY <2>1 DEF LockOf, CallOf, Walking, At, Tree!Idle
  <2>3. walk'[c].i = 1 /\ ~At(c, "forbids")' /\ ~At(c, "permits")'
    BY <2>1 DEF CallOf, Walking, At
  <2>4. Len(vec') \in Nat
    OBVIOUS
  <2> QED BY <2>2, <2>3, <2>4 DEF WalkOf
<1> QED BY <1>1, <1>2 DEF VecInv, WalkSound, WalkOf
-----------------------------------------------------------------------------
(***************************************************************************)
(* The steps of a caller keep the invariant.                               *)
(***************************************************************************)
\* A caller that walks on in the lock.
LEMMA MovesOn ==
  ASSUME VecInv, NEW c \in Caller, Walking(c), NEW pc \in {"forbids", "permits"},
         NEW i \in 1..(Len(vec) + 1), pc = "permits" => call[c].op = "evaluate",
         GoTo(c, pc, i), UNCHANGED <<vec, lock, nextPos, now, call, grants>>,
         WalkOf(c)'
  PROVE  VecInv'
<1> USE DEF lock
<1>1. walk \in [Caller -> Walk] /\ LockOf(c) /\ CallOf(c) /\ Len(vec) + 1 \in 1..(MaxRules + 1)
  BY VecAssumption DEF VecInv, Shape, Positions
<1>2. i \in 1..(MaxRules + 1)
  BY <1>1, VecAssumption DEF VecInv, Shape
<1>3. walk' \in [Caller -> Walk] /\ walk'[c].pc = pc /\ walk'[c].i = i /\ walk'[c].t = walk[c].t
  BY <1>1, <1>2 DEF GoTo, Walk
<1>4. Shape' /\ Positions' /\ Excluded'
  BY <1>3 DEF VecInv, Shape, Positions, Excluded, InOrder
<1>5. LockOf(c)' /\ CallOf(c)'
  BY <1>1, <1>3 DEF LockOf, CallOf, Walking, At, Tree!Idle
<1>6. \A d \in Caller \ {c} : walk'[d] = walk[d] /\ call'[d] = call[d]
  BY <1>1 DEF GoTo
<1> QED BY <1>4, <1>5, <1>6, OneCaller

\* A caller that answers and leaves the lock.
LEMMA Returns ==
  ASSUME VecInv, NEW c \in Caller, Walking(c), NEW result \in Tree!Result \ {"none"},
         Return(c, result), UNCHANGED <<nextPos, now>>,
         vec' = vec \/ call[c].op = "evaluate",
         vec' \in Seq(Rule), InOrder(vec'), Len(vec') = Len(vec),
         \A i \in 1..Len(vec') : vec'[i].pos = vec[i].pos,
         grants' \in [Tree!Pos -> Nat]
  PROVE  VecInv'
<1>1. /\ walk \in [Caller -> Walk] /\ call \in [Caller -> Tree!Call]
      /\ LockOf(c) /\ CallOf(c) /\ c # NoCaller
  BY VecAssumption DEF VecInv, Shape
<1>2. walk' \in [Caller -> Walk] /\ walk'[c].pc = "idle" /\ walk'[c].i = 1
  <2>1. 1 \in 1..(MaxRules + 1)
    BY VecAssumption
  <2>2. GoTo(c, "idle", 1)
    BY DEF Return
  <2> QED BY <1>1, <2>1, <2>2 DEF GoTo, Walk
<1>3. /\ call' \in [Caller -> Tree!Call]
      /\ call'[c].op = call[c].op /\ call'[c].result = result /\ call'[c].since = call[c].since
  BY <1>1 DEF Return, Tree!Call
<1>4. /\ writer' \in {writer, NoCaller} /\ readers' \in {readers, readers \ {c}}
      /\ writer' # c /\ c \notin readers'
      /\ call[c].op = "evaluate" => writer = c /\ writer' = NoCaller /\ readers' = readers
      /\ call[c].op # "evaluate" => writer' = writer /\ readers' = readers \ {c}
  BY <1>1 DEF Return, ReleaseWrite, ReleaseRead, LockOf
<1>5. Shape' /\ Positions' /\ Excluded'
  <2>1. Shape'
    BY <1>2, <1>3, <1>4 DEF VecInv, Shape
  <2>2. Positions'
    BY DEF VecInv, Positions, Shape
  <2>3. Excluded'
    BY <1>4 DEF VecInv, Excluded
  <2> QED BY <2>1, <2>2, <2>3
<1>6. LockOf(c)' /\ CallOf(c)'
  <2>1. ~Walking(c)' /\ At(c, "idle")' /\ ~At(c, "permits")'
    BY <1>2 DEF Walking, At
  <2>2. Tree!Idle(c)'
    BY <1>3 DEF Tree!Idle
  <2> QED BY <1>1, <1>2, <1>3, <1>4, <2>1, <2>2 DEF LockOf, CallOf
<1>7. WalkOf(c)'
  <2>1. Len(vec') \in Nat
    OBVIOUS
  <2> QED BY <1>2, <2>1 DEF WalkOf, At
<1>8. ASSUME NEW d \in Caller \ {c}
      PROVE  /\ walk'[d] = walk[d] /\ call'[d] = call[d]
             /\ writer' = d <=> writer = d
             /\ d \in readers' <=> d \in readers
  <2>1. d # NoCaller
    BY VecAssumption
  <2>2. walk'[d] = walk[d] /\ call'[d] = call[d]
    BY <1>1 DEF Return, GoTo
  <2> QED BY <1>4, <2>1, <2>2
<1>9. vec' = vec \/ \A d \in Caller \ {c} : ~Walking(d)
  <2> SUFFICES ASSUME call[c].op = "evaluate", NEW d \in Caller \ {c}, Walking(d)
               PROVE  FALSE
    OBVIOUS
  <2>1. writer = c /\ readers = {}
    BY <1>1 DEF LockOf, VecInv, Excluded
  <2>2. LockOf(d) /\ CallOf(d) /\ call[d] \in Tree!Call
    BY DEF VecInv, Shape
  <2>3. call[d].op \in {"evaluate", "has_forbid"}
    BY <2>2 DEF CallOf, Walking, At, Tree!Idle, Tree!Call, Tree!Op
  <2> QED BY <2>1, <2>2, <2>3 DEF LockOf
<1> HIDE DEF Return
<1> QED BY <1>5, <1>6, <1>7, <1>8, <1>9, OneCaller

LEMMA InvokeStep ==
  ASSUME VecInv, NEW c \in Caller, NEW op \in {"evaluate", "has_forbid"}, NEW a \in Action,
         Invoke(c, op, a)
  PROVE  VecInv'
<1> DEFINE k == [op |-> op, action |-> a, since |-> now, result |-> "none"]
<1> USE DEF lock
<1>1. /\ walk \in [Caller -> Walk] /\ call \in [Caller -> Tree!Call] /\ now \in 0..MaxTime
      /\ LockOf(c) /\ CallOf(c) /\ At(c, "idle")
  BY DEF VecInv, Shape, Invoke
<1>2. k \in Tree!Call
  BY <1>1 DEF Tree!Call, Tree!Op, Tree!Result
<1>3. call' = [call EXCEPT ![c] = k]
  BY DEF Invoke
<1> HIDE DEF k
<1>4. call' \in [Caller -> Tree!Call] /\ call'[c] = k
  BY <1>1, <1>2, <1>3
<1>5. walk' \in [Caller -> Walk] /\ walk'[c].pc = "enter" /\ walk'[c].i = 1
  <2>1. 1 \in 1..(MaxRules + 1)
    BY VecAssumption
  <2> QED BY <1>1, <2>1 DEF Invoke, GoTo, Walk
<1>6. UNCHANGED <<vec, writer, readers, nextPos, now, grants>>
  BY DEF Invoke
<1>7. Shape' /\ Positions' /\ Excluded'
  BY <1>4, <1>5, <1>6 DEF VecInv, Shape, Positions, Excluded, InOrder
<1>8. LockOf(c)'
  <2>1. ~Walking(c) /\ ~Walking(c)'
    BY <1>1, <1>5 DEF Walking, At
  <2> QED BY <1>1, <1>6, <2>1 DEF LockOf
<1>9. CallOf(c)'
  <2>1. call'[c].op # "none" /\ call'[c].result = "none" /\ call'[c].since = now
    BY <1>4 DEF k
  <2> QED BY <1>1, <1>5, <1>6, <2>1 DEF CallOf, Walking, At, Tree!Idle
<1>10. WalkOf(c)'
  <2>1. Len(vec') \in Nat
    BY <1>7 DEF Shape
  <2> QED BY <1>5, <2>1 DEF WalkOf, At
<1>11. \A d \in Caller \ {c} : walk'[d] = walk[d] /\ call'[d] = call[d]
  BY <1>1, <1>3 DEF Invoke, GoTo
<1> QED BY <1>6, <1>7, <1>8, <1>9, <1>10, <1>11, OneCaller

LEMMA EnterStep ==
  ASSUME VecInv, NEW c \in Caller, Enter(c)
  PROVE  VecInv'
<1> DEFINE w == [pc |-> "forbids", i |-> 1, t |-> now]
<1>1. /\ walk \in [Caller -> Walk] /\ call \in [Caller -> Tree!Call] /\ now \in 0..MaxTime
      /\ LockOf(c) /\ CallOf(c) /\ At(c, "enter") /\ c # NoCaller
  BY VecAssumption DEF VecInv, Shape, Enter
<1>2. w \in Walk
  <2>1. 1 \in 1..(MaxRules + 1)
    BY VecAssumption
  <2> QED BY <1>1, <2>1 DEF Walk
<1>3. walk' = [walk EXCEPT ![c] = w]
  BY DEF Enter
<1>4. w.pc = "forbids" /\ w.i = 1 /\ w.t = now
  OBVIOUS
<1> HIDE DEF w
<1>5. walk' \in [Caller -> Walk] /\ walk'[c] = w
  BY <1>1, <1>2, <1>3
<1>6. UNCHANGED <<vec, nextPos, now, call, grants>>
  BY DEF Enter
<1>7. /\ call[c].op \in {"evaluate", "has_forbid"}
      /\ writer = NoCaller
      /\ call[c].op = "evaluate" => readers = {} /\ writer' = c /\ readers' = readers
      /\ call[c].op = "has_forbid" => writer' = writer /\ readers' = readers \cup {c}
  <2>1. call[c].op \in {"evaluate", "has_forbid"}
    BY <1>1 DEF CallOf, At, Tree!Idle, Tree!Call, Tree!Op
  <2> QED BY <2>1 DEF Enter, AcquireWrite, AcquireRead, LockFree, NoWriter
<1>8. Shape' /\ Positions' /\ Excluded'
  <2>1. writer' \in Caller \cup {NoCaller} /\ readers' \subseteq Caller
    BY <1>7 DEF VecInv, Shape
  <2>2. Shape' /\ Positions'
    BY <1>5, <1>6, <2>1 DEF VecInv, Shape, Positions, InOrder
  <2> QED BY <1>7, <2>2 DEF Excluded
<1>9. LockOf(c)'
  <2>1. Walking(c)'
    BY <1>4, <1>5 DEF Walking, At
  <2>2. c \notin readers
    BY <1>1 DEF LockOf, Walking, At
  <2> QED BY <1>1, <1>6, <1>7, <2>1, <2>2 DEF LockOf
<1>10. CallOf(c)'
  <2>1. ~Tree!Idle(c) /\ call[c].since \in 0..MaxTime
    BY <1>1 DEF CallOf, At, Tree!Call
  <2>2. ~Tree!Idle(c)' /\ walk'[c].t \in call'[c].since..now'
    BY <1>1, <1>4, <1>5, <1>6, <2>1 DEF Tree!Idle, CallOf
  <2>3. ~At(c, "idle")' /\ ~At(c, "permits")' /\ Walking(c)'
    BY <1>4, <1>5 DEF Walking, At
  <2> QED BY <1>1, <1>6, <2>2, <2>3 DEF CallOf
<1>11. WalkOf(c)'
  <2>1. Len(vec') \in Nat
    BY <1>8 DEF Shape
  <2> QED BY <1>4, <1>5, <2>1 DEF WalkOf, At
<1>12. \A d \in Caller \ {c} : /\ walk'[d] = walk[d] /\ call'[d] = call[d]
                               /\ writer' = d <=> writer = d
                               /\ d \in readers' <=> d \in readers
  <2>1. NoCaller \notin Caller
    BY VecAssumption
  <2> QED BY <1>1, <1>3, <1>6, <1>7, <2>1
<1> QED BY <1>6, <1>8, <1>9, <1>10, <1>11, <1>12, OneCaller

\* The rules before the index of a walk have been looked at; so have all, past the end.
LEMMA LookedAt ==
  ASSUME VecInv, NEW c \in Caller
  PROVE  /\ walk[c].i \in 1..(Len(vec) + 1) /\ Len(vec) \in Nat
         /\ At(c, "forbids") /\ walk[c].i > Len(vec) =>
              \A r \in ToSet(vec) : ~Applies(r, c, "forbid")
         /\ At(c, "permits") /\ walk[c].i > Len(vec) =>
              \A r \in ToSet(vec) : Applies(r, c, "permit") => IsSpent(r)
         /\ At(c, "permits") => \A r \in ToSet(vec) : ~Applies(r, c, "forbid")
<1>1. WalkOf(c) /\ Len(vec) \in Nat
  BY DEF VecInv, WalkSound, WalkOf, Shape
<1>2. \A r \in ToSet(vec) : \E i \in 1..Len(vec) : r = vec[i]
  BY DEF ToSet, VecInv, Shape
<1>3. walk[c].i > Len(vec) => \A i \in 1..Len(vec) : i \in 1..(walk[c].i - 1)
  BY <1>1 DEF WalkOf
<1> QED BY <1>1, <1>2, <1>3 DEF WalkOf

\* What a walk has passed stays passed when it moves on without an answer.
LEMMA ForbidTurnStep ==
  ASSUME VecInv, NEW c \in Caller, ForbidTurn(c)
  PROVE  VecInv'
<1>1. /\ Walking(c) /\ At(c, "forbids") /\ walk[c].i \in 1..Len(vec)
      /\ UNCHANGED <<vec, nextPos, now, grants>>
      /\ walk \in [Caller -> Walk] /\ WalkOf(c) /\ Len(vec) \in Nat
  BY LookedAt DEF ForbidTurn, Walking, VecInv, Shape, WalkSound, WalkOf
<1>2. CASE Applies(vec[walk[c].i], c, "forbid")
  <2> DEFINE result == IF call[c].op = "evaluate" THEN "forbidden" ELSE "true"
  <2>1. result \in Tree!Result \ {"none"}
    BY DEF Tree!Result
  <2>2. Return(c, result)
    BY <1>2 DEF ForbidTurn
  <2>3. /\ vec' \in Seq(Rule) /\ InOrder(vec') /\ grants' \in [Tree!Pos -> Nat]
    BY <1>1 DEF VecInv, Shape, Positions
  <2> HIDE DEF result
  <2> QED BY <1>1, <2>1, <2>2, <2>3, Returns
<1>3. CASE ~Applies(vec[walk[c].i], c, "forbid")
  <2>1. GoTo(c, "forbids", walk[c].i + 1) /\ UNCHANGED <<call, lock>>
    BY <1>3 DEF ForbidTurn
  <2>2. walk[c].i + 1 \in 1..(Len(vec) + 1)
    BY <1>1
  <2>3. walk'[c].pc = "forbids" /\ walk'[c].i = walk[c].i + 1 /\ walk'[c].t = walk[c].t
    BY <1>1, <2>1 DEF GoTo, Walk
  <2>4. \A i \in 1..walk[c].i : i = walk[c].i \/ i \in 1..(walk[c].i - 1)
    BY <1>1
  <2>5. \A i \in 1..walk[c].i : ~Applies(vec[i], c, "forbid")
    BY <1>1, <1>3, <2>4 DEF WalkOf
  <2>6. \A i \in 1..walk[c].i : ~Applies(vec[i], c, "forbid")'
    BY <1>1, <2>1, <2>3, <2>5 DEF Applies
  <2>7. WalkOf(c)'
    <3>1. walk'[c].i - 1 = walk[c].i
      BY <1>1, <2>3
    <3> QED BY <1>1, <2>2, <2>3, <2>6, <3>1 DEF WalkOf, At
  <2> QED BY <1>1, <2>1, <2>2, <2>7, MovesOn
<1> QED BY <1>2, <1>3

LEMMA ForbidsDoneStep ==
  ASSUME VecInv, NEW c \in Caller, ForbidsDone(c)
  PROVE  VecInv'
<1>1. /\ Walking(c) /\ At(c, "forbids") /\ walk[c].i > Len(vec) /\ Len(vec) \in Nat
      /\ UNCHANGED <<vec, nextPos, now, grants>>
      /\ walk \in [Caller -> Walk]
      /\ \A r \in ToSet(vec) : ~Applies(r, c, "forbid")
  BY LookedAt DEF ForbidsDone, Walking, VecInv, Shape
<1>2. CASE call[c].op = "evaluate"
  <2>1. GoTo(c, "permits", 1) /\ UNCHANGED <<call, lock>>
    BY <1>2 DEF ForbidsDone
  <2>2. walk'[c].pc = "permits" /\ walk'[c].i = 1 /\ walk'[c].t = walk[c].t
    BY <1>1, <2>1 DEF GoTo, Walk
  <2>3. 1 \in 1..(Len(vec) + 1)
    BY <1>1
  <2>4. \A r \in ToSet(vec) : ~Applies(r, c, "forbid")'
    BY <1>1, <2>1, <2>2 DEF Applies
  <2>5. WalkOf(c)'
    BY <1>1, <2>2, <2>3, <2>4 DEF WalkOf, At, ToSet
  <2> QED BY <1>1, <1>2, <2>1, <2>3, <2>5, MovesOn
<1>3. CASE call[c].op # "evaluate"
  <2>1. Return(c, "false")
    BY <1>3 DEF ForbidsDone
  <2>2. "false" \in Tree!Result \ {"none"}
    BY DEF Tree!Result
  <2>3. vec' \in Seq(Rule) /\ InOrder(vec') /\ grants' \in [Tree!Pos -> Nat]
    BY <1>1 DEF VecInv, Shape, Positions
  <2> QED BY <1>1, <2>1, <2>2, <2>3, Returns
<1> QED BY <1>2, <1>3

\* The write at the index that answers changes a flag of one rule.
LEMMA Consumes ==
  ASSUME VecInv, NEW i \in 1..Len(vec), vec' = [vec EXCEPT ![i].consumed = TRUE]
  PROVE  /\ vec' \in Seq(Rule) /\ Len(vec') = Len(vec) /\ InOrder(vec')
         /\ \A j \in 1..Len(vec) : vec'[j] = IF j = i THEN [vec[i] EXCEPT !.consumed = TRUE]
                                             ELSE vec[j]
         /\ \A j \in 1..Len(vec) : vec'[j].pos = vec[j].pos
<1>1. vec \in Seq(Rule) /\ vec[i] \in Rule
  BY DEF VecInv, Shape
<1>2. [vec[i] EXCEPT !.consumed = TRUE] \in Rule
      /\ [vec[i] EXCEPT !.consumed = TRUE].pos = vec[i].pos
  BY <1>1 DEF Rule
<1>3. vec' \in Seq(Rule) /\ Len(vec') = Len(vec)
  BY <1>1, <1>2
<1>4. \A j \in 1..Len(vec) : vec'[j] = IF j = i THEN [vec[i] EXCEPT !.consumed = TRUE]
                                       ELSE vec[j]
  BY <1>1
<1>5. \A j \in 1..Len(vec) : vec'[j].pos = vec[j].pos
  BY <1>2, <1>4
<1>6. InOrder(vec')
  BY <1>3, <1>5 DEF InOrder, VecInv, Positions
<1> QED BY <1>3, <1>4, <1>5, <1>6

LEMMA PermitTurnStep ==
  ASSUME VecInv, NEW c \in Caller, PermitTurn(c)
  PROVE  VecInv'
<1> DEFINE n == walk[c].i
<1>1. /\ Walking(c) /\ At(c, "permits") /\ n \in 1..Len(vec) /\ Len(vec) \in Nat
      /\ UNCHANGED <<nextPos, now>>
      /\ walk \in [Caller -> Walk] /\ WalkOf(c)
      /\ call[c].op = "evaluate"
      /\ vec \in Seq(Rule) /\ grants \in [Tree!Pos -> Nat]
  BY LookedAt DEF PermitTurn, Walking, VecInv, Shape, WalkSound, WalkOf, CallOf
<1>2. CASE Applies(vec[n], c, "permit") /\ ~IsSpent(vec[n])
  <2>1. Return(c, "allow") /\ "allow" \in Tree!Result \ {"none"}
    BY <1>2 DEF PermitTurn, Tree!Result
  <2>2. CASE vec[n].rule_type = "one-shot"
    <3>1. /\ vec' = [vec EXCEPT ![n].consumed = TRUE]
          /\ grants' = [grants EXCEPT ![vec[n].pos] = @ + 1]
      BY <1>2, <2>2 DEF PermitTurn
    <3>2. grants' \in [Tree!Pos -> Nat]
      <4>1. vec[n].pos \in Tree!Pos
        BY <1>1, VecAssumption DEF VecInv, Shape, Positions, Tree!Pos
      <4> QED BY <1>1, <3>1, <4>1
    <3> HIDE DEF n
    <3>3. /\ vec' \in Seq(Rule) /\ Len(vec') = Len(vec) /\ InOrder(vec')
          /\ \A j \in 1..Len(vec) : vec'[j].pos = vec[j].pos
      BY <1>1, <3>1, Consumes
    <3> QED BY <1>1, <2>1, <3>2, <3>3, Returns
  <2>3. CASE vec[n].rule_type # "one-shot"
    <3>1. UNCHANGED <<vec, grants>>
      BY <1>2, <2>3 DEF PermitTurn
    <3>2. InOrder(vec')
      BY <3>1 DEF VecInv, Positions
    <3> QED BY <1>1, <2>1, <3>1, <3>2, Returns
  <2> QED BY <2>2, <2>3
<1>3. CASE ~(Applies(vec[n], c, "permit") /\ ~IsSpent(vec[n]))
  <2>1. GoTo(c, "permits", n + 1) /\ UNCHANGED <<vec, grants, call, lock>>
    BY <1>3 DEF PermitTurn
  <2>2. n + 1 \in 1..(Len(vec) + 1)
    BY <1>1
  <2>3. walk'[c].pc = "permits" /\ walk'[c].i = n + 1 /\ walk'[c].t = walk[c].t
    BY <1>1, <2>1 DEF GoTo, Walk
  <2>4. \A i \in 1..n : i = n \/ i \in 1..(n - 1)
    BY <1>1
  <2>5. \A i \in 1..n : Applies(vec[i], c, "permit") => IsSpent(vec[i])
    BY <1>1, <1>3, <2>4 DEF WalkOf
  <2>6. \A i \in 1..n : Applies(vec[i], c, "permit")' => IsSpent(vec[i])'
    BY <1>1, <2>1, <2>3, <2>5 DEF Applies
  <2>7. \A r \in ToSet(vec) : ~Applies(r, c, "forbid")'
    BY <1>1, <2>1, <2>3 DEF Applies, WalkOf
  <2>8. WalkOf(c)'
    <3>1. walk'[c].i - 1 = n
      BY <1>1, <2>3
    <3> HIDE DEF n
    <3> QED BY <2>1, <2>2, <2>3, <2>6, <2>7, <3>1 DEF WalkOf, At, ToSet
  <2> QED BY <1>1, <2>1, <2>2, <2>8, MovesOn
<1> QED BY <1>2, <1>3

LEMMA NoMatchStep ==
  ASSUME VecInv, NEW c \in Caller, NoMatch(c)
  PROVE  VecInv'
<1>1. Walking(c) /\ Return(c, "no match") /\ UNCHANGED <<vec, nextPos, now, grants>>
  BY DEF NoMatch, Walking
<1>2. "no match" \in Tree!Result \ {"none"}
  BY DEF Tree!Result
<1>3. vec' \in Seq(Rule) /\ InOrder(vec') /\ grants' \in [Tree!Pos -> Nat]
  BY <1>1 DEF VecInv, Shape, Positions
<1> QED BY <1>1, <1>2, <1>3, Returns
-----------------------------------------------------------------------------
(***************************************************************************)
(* The operations on the whole list.                                       *)
(***************************************************************************)
LEMMA TaggedProperties ==
  ASSUME VecInv, NEW s \in Seq(Rule)
  PROVE  /\ Tagged(s) \in Seq(Rule) /\ Len(Tagged(s)) = Len(s)
         /\ \A i \in 1..Len(s) : Tagged(s)[i].pos = nextPos + i - 1
         /\ InOrder(Tagged(s))
         /\ ToSet(Tagged(s)) = Placed(s, nextPos)
<1> DEFINE at(i) == [s[i] EXCEPT !.pos = nextPos + i - 1]
<1>1. nextPos \in Nat \ {0} /\ Len(s) \in Nat /\ DOMAIN s = 1..Len(s)
  BY DEF VecInv, Shape
<1>2. ASSUME NEW i \in 1..Len(s)
      PROVE  at(i) \in Rule /\ at(i).pos = nextPos + i - 1
  <2>1. s[i] \in Rule /\ nextPos + i - 1 \in Nat
    BY <1>1
  <2> QED BY <2>1 DEF Rule
<1>3. Tagged(s) = [i \in 1..Len(s) |-> at(i)]
  BY <1>1 DEF Tagged
<1> HIDE DEF at
<1>4. Tagged(s) \in Seq(Rule) /\ Len(Tagged(s)) = Len(s)
  BY <1>1, <1>2, <1>3
<1>5. \A i \in 1..Len(s) : Tagged(s)[i] = at(i) /\ Tagged(s)[i].pos = nextPos + i - 1
  BY <1>2, <1>3
<1>6. InOrder(Tagged(s))
  BY <1>1, <1>4, <1>5 DEF InOrder
<1>7. ToSet(Tagged(s)) = Placed(s, nextPos)
  <2>1. Placed(s, nextPos) = {at(i) : i \in 1..Len(s)}
    BY <1>1 DEF Placed, at
  <2> QED BY <1>3, <2>1 DEF ToSet
<1> QED BY <1>4, <1>5, <1>6, <1>7

\* Pushing rules on the list, or in place of it, adds or leaves their set.
LEMMA ExtendProperties ==
  ASSUME VecInv, NEW base \in {<<>>, vec}, NEW s \in Seq(Rule), Extend(base, s)
  PROVE  /\ vec' \in Seq(Rule) /\ InOrder(vec') /\ Len(vec') < nextPos'
         /\ nextPos' \in 1..(MaxRules + 1)
         /\ \A i \in 1..Len(vec') : vec'[i].pos \in 1..(nextPos' - 1)
         /\ ToSet(vec') = ToSet(base) \cup Placed(s, nextPos)
<1> DEFINE u == Tagged(s)
           b == Len(base)
<1>1. /\ u \in Seq(Rule) /\ Len(u) = Len(s)
      /\ \A i \in 1..Len(s) : u[i].pos = nextPos + i - 1
      /\ ToSet(u) = Placed(s, nextPos)
  BY TaggedProperties
<1>2. /\ base \in Seq(Rule) /\ b \in Nat /\ b < nextPos
      /\ \A i \in 1..b : base[i].pos \in 1..(nextPos - 1)
      /\ InOrder(base)
      /\ nextPos \in 1..(MaxRules + 1) /\ Len(s) \in Nat
  <2>1. CASE base = <<>>
    BY <2>1 DEF VecInv, Shape, InOrder
  <2>2. CASE base = vec
    BY <2>2 DEF VecInv, Shape, Positions
  <2> QED BY <2>1, <2>2
<1>3. vec' = base \o u /\ nextPos' = nextPos + Len(s) /\ nextPos + Len(s) <= MaxRules + 1
  BY DEF Extend
<1> HIDE DEF u
<1>4. /\ vec' \in Seq(Rule) /\ Len(vec') = b + Len(s)
      /\ \A i \in 1..b : vec'[i] = base[i]
      /\ \A i \in 1..Len(s) : vec'[b + i] = u[i]
  <2>1. vec' = base \o u /\ base \in Seq(Rule) /\ u \in Seq(Rule) /\ Len(u) = Len(s)
    BY <1>1, <1>2, <1>3
  <2> HIDE DEF b
  <2>2. vec' \in Seq(Rule) /\ Len(vec') = Len(base) + Len(u)
    BY <2>1, ConcatProperties
  <2>3. /\ \A i \in 1..Len(base) : vec'[i] = base[i]
        /\ \A i \in 1..Len(u) : vec'[Len(base) + i] = u[i]
    BY <2>1
  <2> QED BY <2>1, <2>2, <2>3 DEF b
<1> HIDE DEF b
<1>5. \A i \in 1..(b + Len(s)) : i \in 1..b \/ (i - b \in 1..Len(s) /\ i = b + (i - b))
  BY <1>2
<1>6. nextPos' \in 1..(MaxRules + 1) /\ Len(vec') < nextPos'
  BY <1>2, <1>3, <1>4, VecAssumption
<1>7. \A i \in 1..(b + Len(s)) :
        \/ i \in 1..b /\ vec'[i].pos = base[i].pos /\ vec'[i].pos \in 1..(nextPos - 1)
        \/ i > b /\ vec'[i].pos = nextPos + (i - b) - 1
  <2> SUFFICES ASSUME NEW i \in 1..(b + Len(s)), i \notin 1..b
               PROVE  i > b /\ vec'[i].pos = nextPos + (i - b) - 1
    BY <1>2, <1>4
  <2> DEFINE j == i - b
  <2>1. j \in 1..Len(s) /\ i = b + j /\ i > b
    BY <1>2
  <2> HIDE DEF j
  <2>2. vec'[i].pos = nextPos + j - 1
    BY <1>1, <1>4, <2>1
  <2> QED BY <2>1, <2>2 DEF j
<1>8. \A i \in 1..Len(vec') : vec'[i].pos \in 1..(nextPos' - 1)
  <2> SUFFICES ASSUME NEW i \in 1..(b + Len(s))
               PROVE  vec'[i].pos \in 1..(nextPos' - 1)
    BY <1>4
  <2>1. CASE vec'[i].pos \in 1..(nextPos - 1)
    <3>1. \A x \in 1..(nextPos - 1) : x \in 1..(nextPos' - 1)
      BY <1>2, <1>3
    <3> QED BY <2>1, <3>1
  <2>2. CASE i > b /\ vec'[i].pos = nextPos + (i - b) - 1
    BY <1>2, <1>3, <2>2
  <2> QED BY <1>7, <2>1, <2>2
<1>9. InOrder(vec')
  <2> SUFFICES ASSUME NEW i \in 1..(b + Len(s)), NEW j \in 1..(b + Len(s)), i < j
               PROVE  vec'[i].pos < vec'[j].pos
    BY <1>4 DEF InOrder
  <2>1. CASE i \in 1..b /\ j \in 1..b
    BY <1>2, <1>4, <2>1 DEF InOrder, b
  <2>2. CASE i \in 1..b /\ j \notin 1..b
    BY <1>2, <1>7, <2>2
  <2>3. CASE i \notin 1..b
    BY <1>2, <1>7, <2>3
  <2> QED BY <2>1, <2>2, <2>3
<1>10. ToSet(vec') = ToSet(base) \cup ToSet(u)
  <2>1. /\ DOMAIN vec' = 1..(b + Len(s)) /\ DOMAIN base = 1..b /\ DOMAIN u = 1..Len(s)
    BY <1>1, <1>2, <1>4 DEF b
  <2>2. \A i \in 1..b : i \in 1..(b + Len(s))
    BY <1>2
  <2>3. \A i \in 1..Len(s) : b + i \in 1..(b + Len(s))
    BY <1>2
  <2>4. ASSUME NEW x \in ToSet(vec')
        PROVE  x \in ToSet(base) \cup ToSet(u)
    <3>1. PICK i \in 1..(b + Len(s)) : x = vec'[i]
      BY <2>1 DEF ToSet
    <3>2. CASE i \in 1..b
      BY <1>4, <2>1, <3>1, <3>2 DEF ToSet
    <3>3. CASE i - b \in 1..Len(s) /\ i = b + (i - b)
      <4>1. x = u[i - b]
        BY <1>4, <3>1, <3>3
      <4> QED BY <2>1, <3>3, <4>1 DEF ToSet
    <3> QED BY <1>5, <3>2, <3>3
  <2>5. ASSUME NEW x \in ToSet(base) \cup ToSet(u)
        PROVE  x \in ToSet(vec')
    <3>1. CASE x \in ToSet(base)
      BY <1>4, <2>1, <2>2, <3>1 DEF ToSet
    <3>2. CASE x \in ToSet(u)
      BY <1>4, <2>1, <2>3, <3>2 DEF ToSet
    <3> QED BY <3>1, <3>2
  <2> QED BY <2>4, <2>5
<1> QED BY <1>1, <1>4, <1>6, <1>8, <1>9, <1>10

LEMMA ExtendStep ==
  ASSUME VecInv, NEW base \in {<<>>, vec}, NEW s \in Seq(Rule), ChangeList, Extend(base, s)
  PROVE  VecInv'
BY ExtendProperties, ListChanges

LEMMA RetainStep ==
  ASSUME VecInv, NEW R, ChangeList, vec' = Retain(vec, R), UNCHANGED nextPos
  PROVE  /\ VecInv'
         /\ ToSet(vec') = ToSet(vec) \cap R
<1>1. /\ vec' \in Seq(Rule) /\ InOrder(vec') /\ Len(vec') <= Len(vec)
      /\ ToSet(vec') = ToSet(vec) \cap R
  BY RetainProperties DEF VecInv, Shape, Positions
<1>2. /\ nextPos' = nextPos /\ nextPos \in 1..(MaxRules + 1) /\ Len(vec) < nextPos
      /\ vec \in Seq(Rule)
      /\ \A i \in 1..Len(vec) : vec[i].pos \in 1..(nextPos - 1)
  BY DEF VecInv, Shape, Positions
<1>3. Len(vec') < nextPos'
  BY <1>1, <1>2
<1>4. ASSUME NEW i \in 1..Len(vec')
      PROVE  vec'[i].pos \in 1..(nextPos' - 1)
  <2>1. vec'[i] \in ToSet(vec')
    BY <1>1 DEF ToSet
  <2>2. vec'[i] \in ToSet(vec)
    BY <1>1, <2>1
  <2>3. PICK j \in 1..Len(vec) : vec'[i] = vec[j]
    BY <1>2, <2>2 DEF ToSet
  <2> QED BY <1>2, <2>3
<1> QED BY <1>1, <1>2, <1>3, <1>4, ListChanges

LEMMA TickStep ==
  ASSUME VecInv, Tick
  PROVE  VecInv'
<1>1. now \in 0..MaxTime /\ now' \in 0..MaxTime /\ now <= now'
      /\ UNCHANGED <<vec, writer, readers, walk, nextPos, call, grants>>
  BY RulesAssumption DEF VecInv, Shape, Tick, lock
<1>2. Shape' /\ Positions' /\ Excluded'
  BY <1>1 DEF VecInv, Shape, Positions, Excluded, InOrder
<1>3. ASSUME NEW c \in Caller
      PROVE  LockOf(c)' /\ CallOf(c)' /\ WalkOf(c)'
  <2>1. LockOf(c) /\ CallOf(c) /\ WalkOf(c) /\ walk[c].t \in 0..MaxTime
        /\ call[c].since \in 0..MaxTime
    BY DEF VecInv, WalkSound, WalkOf, Shape, Walk, Tree!Call
  <2>2. LockOf(c)'
    BY <1>1, <2>1 DEF LockOf, Walking, At
  <2>3. CallOf(c)'
    BY <1>1, <2>1 DEF CallOf, Walking, At, Tree!Idle
  <2>4. WalkOf(c)'
    BY <1>1, <2>1 DEF WalkOf, At, Applies, ToSet
  <2> QED BY <2>2, <2>3, <2>4
<1> QED BY <1>2, <1>3 DEF VecInv, WalkSound, WalkOf

LEMMA VecInvStep == VecInv /\ [Next]_vars => VecInv'
<1> SUFFICES ASSUME VecInv, [Next]_vars PROVE VecInv'
  OBVIOUS
<1>1. ASSUME NEW c \in Caller, NEW a \in Action,
             Invoke(c, "evaluate", a) \/ Invoke(c, "has_forbid", a)
      PROVE  VecInv'
  BY <1>1, InvokeStep
<1>2. ASSUME NEW c \in Caller,
             \/ Enter(c) \/ ForbidTurn(c) \/ ForbidsDone(c) \/ PermitTurn(c) \/ NoMatch(c)
      PROVE  VecInv'
  BY <1>2, EnterStep, ForbidTurnStep, ForbidsDoneStep, PermitTurnStep, NoMatchStep
<1>3. ASSUME NEW r \in NewRules, AddRule(r)
      PROVE  VecInv'
  <2>1. <<r>> \in Seq(Rule)
    BY VecAssumption
  <2> QED BY <1>3, <2>1, ExtendStep DEF AddRule
<1>4. ASSUME NEW t \in Templates, LoadTemplate(t)
      PROVE  VecInv'
  BY <1>4, VecAssumption, ExtendStep DEF LoadTemplate
<1>5. ASSUME NEW s \in Restorable, ReplaceRules(s)
      PROVE  VecInv'
  <2>1. s \in Seq(Rule)
    BY VecAssumption
  <2> QED BY <1>5, <2>1, ExtendStep DEF ReplaceRules
<1>6. ASSUME NEW id \in RuleId, RemoveRule(id)
      PROVE  VecInv'
  BY <1>6, RetainStep DEF RemoveRule
<1>7. ASSUME NEW p \in PlanId, RevokePlan(p)
      PROVE  VecInv'
  BY <1>7, RetainStep DEF RevokePlan
<1>8. CASE UNCHANGED vars
  <2>1. UNCHANGED <<vec, writer, readers, walk, nextPos, now, call, grants>>
    BY <1>8 DEF vars, lock
  <2> QED BY <2>1 DEF VecInv, Shape, Positions, InOrder, Excluded, LockOf, CallOf,
                      WalkSound, Walking, At, Applies, ToSet, Tree!Idle
<1> QED BY <1>1, <1>2, <1>3, <1>4, <1>5, <1>6, <1>7, <1>8, TickStep DEF Next

LEMMA VecInvHolds == Spec => []VecInv
BY VecInvInit, VecInvStep, PTL DEF Spec

(***************************************************************************)
(* The Vec, the walks and the lock keep their shapes, and the rules of the *)
(* Vec those of PermissionTree: no position is given twice.                *)
(***************************************************************************)
THEOREM VecTypeCorrect == Spec => []TypeOK
BY VecInvHolds, VecInvType, PTL

(***************************************************************************)
(* No walk runs off the list, skips a rule, or resumes on another list     *)
(* than it started on: every other call and change waits for the lock.     *)
(***************************************************************************)
THEOREM WalksSound == Spec => []WalkSound
<1>1. VecInv => WalkSound
  BY DEF VecInv
<1> QED BY <1>1, VecInvHolds, PTL
-----------------------------------------------------------------------------
(***************************************************************************)
(* The Vec behind its lock implements PermissionTree.                      *)
(***************************************************************************)
\* The instance's operators on rules are those of PermissionRules.
LEMMA SameVerdicts ==
  ASSUME NEW R, NEW a, NEW t
  PROVE  /\ Tree!HasForbid(R, a, t) = HasForbid(R, a, t)
         /\ Tree!Outcome(R, a, t) = Outcome(R, a, t)
         /\ Tree!UsedUp(R, a, t) = UsedUp(R, a, t)
         /\ Tree!RulesAfter(R, a, t) = RulesAfter(R, a, t)
BY DEF Tree!HasForbid, Tree!Outcome, Tree!UsedUp, Tree!RulesAfter, Tree!MarkConsumed,
       Tree!ForbidsOf, Tree!PermitsOf, Tree!IsExpired, Tree!Matches, Tree!IsSpent,
       HasForbid, Outcome, UsedUp, RulesAfter, MarkConsumed,
       ForbidsOf, PermitsOf, IsExpired, Matches, IsSpent

LEMMA SameLists ==
  ASSUME NEW R, NEW s, NEW p
  PROVE  /\ Tree!Placed(s, p) = Placed(s, p)
         /\ Tree!WithoutId(R, p) = WithoutId(R, p)
         /\ Tree!WithoutPlan(R, p) = WithoutPlan(R, p)
         /\ Tree!TemplateRules(s) = TemplateRules(s)
BY DEF Tree!Placed, Placed, Tree!WithoutId, WithoutId, Tree!WithoutPlan, WithoutPlan,
       Tree!TemplateRules, TemplateRules, Tree!Never, Never

\* A walking caller waits for its answer, at a clock reading of its call.
LEMMA WalkerWaits ==
  ASSUME VecInv, NEW c \in Caller, Walking(c)
  PROVE  /\ Tree!Waiting(c)
         /\ walk[c].t \in call[c].since..now
         /\ call[c].op \in {"evaluate", "has_forbid"}
<1>1. CallOf(c) /\ call[c] \in Tree!Call /\ ~At(c, "idle")
  BY DEF VecInv, Shape, Walking, At
<1> QED BY <1>1 DEF CallOf, Tree!Idle, Tree!Waiting, Tree!Call, Tree!Op

\* An evaluation that answers without using a one-shot up.
LEMMA AnswersOnly ==
  ASSUME VecInv, NEW c \in Caller, Walking(c), call[c].op = "evaluate",
         NEW result, result = Outcome(ToSet(vec), call[c].action, walk[c].t),
         UsedUp(ToSet(vec), call[c].action, walk[c].t) = {},
         Return(c, result), UNCHANGED <<vec, nextPos, now, grants>>
  PROVE  Tree!Evaluate(c)
<1> DEFINE R == ToSet(vec)
           a == call[c].action
           t == walk[c].t
<1>1. Tree!Waiting(c) /\ t \in call[c].since..now
  BY WalkerWaits
<1>2. Tree!Return(c, Tree!Outcome(R, a, t))
  BY SameVerdicts DEF Return, Tree!Return
<1>3. ToSet(vec)' = Tree!RulesAfter(R, a, t)
  <2>1. RulesAfter(R, a, t) = R
    BY DEF RulesAfter, MarkConsumed
  <2>2. ToSet(vec)' = R
    BY DEF ToSet
  <2> QED BY <2>1, <2>2, SameVerdicts
<1>4. grants' = [p \in Tree!Pos |->
         grants[p] + IF \E r \in Tree!UsedUp(R, a, t) : r.pos = p THEN 1 ELSE 0]
  <2>1. Tree!UsedUp(R, a, t) = {}
    BY SameVerdicts
  <2>2. grants \in [Tree!Pos -> Nat] /\ grants' = grants
    BY DEF VecInv, Shape
  <2> HIDE DEF R, a, t
  <2>3. \A p \in Tree!Pos :
          grants[p] = grants[p] + IF \E r \in Tree!UsedUp(R, a, t) : r.pos = p THEN 1 ELSE 0
    BY <2>1, <2>2
  <2> QED BY <2>2, <2>3
<1> HIDE DEF R, t
<1>5. \E u \in call[c].since..now :
         /\ Tree!Return(c, Tree!Outcome(R, a, u))
         /\ ToSet(vec)' = Tree!RulesAfter(R, a, u)
         /\ grants' = [p \in Tree!Pos |->
              grants[p] + IF \E r \in Tree!UsedUp(R, a, u) : r.pos = p THEN 1 ELSE 0]
  BY <1>1, <1>2, <1>3, <1>4
<1> QED BY <1>1, <1>5 DEF Tree!Evaluate, R

LEMMA ChecksOnly ==
  ASSUME VecInv, NEW c \in Caller, Walking(c), call[c].op # "evaluate",
         NEW result, result = (IF HasForbid(ToSet(vec), call[c].action, walk[c].t)
                               THEN "true" ELSE "false"),
         Return(c, result), UNCHANGED <<vec, nextPos, now, grants>>
  PROVE  Tree!CheckForbid(c)
<1>1. Tree!Waiting(c) /\ walk[c].t \in call[c].since..now /\ call[c].op = "has_forbid"
  BY WalkerWaits
<1>2. Tree!Return(c, IF Tree!HasForbid(ToSet(vec), call[c].action, walk[c].t)
                     THEN "true" ELSE "false")
  BY SameVerdicts DEF Return, Tree!Return
<1>3. ToSet(vec)' = ToSet(vec)
  BY DEF ToSet
<1> QED BY <1>1, <1>2, <1>3 DEF Tree!CheckForbid

\* The answer of the first loop is that of the set of rules.
LEMMA ForbidTurnDecides ==
  ASSUME VecInv, NEW c \in Caller, ForbidTurn(c), ~UNCHANGED call
  PROVE  Tree!Evaluate(c) \/ Tree!CheckForbid(c)
<1> DEFINE R == ToSet(vec)
           a == call[c].action
           t == walk[c].t
<1>1. /\ Walking(c) /\ Applies(vec[walk[c].i], c, "forbid")
      /\ Return(c, IF call[c].op = "evaluate" THEN "forbidden" ELSE "true")
      /\ UNCHANGED <<vec, nextPos, now, grants>>
      /\ walk[c].i \in 1..Len(vec)
  BY LookedAt DEF ForbidTurn, Walking
<1>2. HasForbid(R, a, t)
  <2>1. vec[walk[c].i] \in R
    BY <1>1 DEF ToSet, VecInv, Shape
  <2> QED BY <1>1, <2>1 DEF HasForbid, ForbidsOf, Applies
<1>3. Outcome(R, a, t) = "forbidden" /\ UsedUp(R, a, t) = {}
  BY <1>2 DEF Outcome, UsedUp
<1> HIDE DEF Return
<1>4. CASE call[c].op = "evaluate"
  BY <1>1, <1>3, <1>4, AnswersOnly
<1>5. CASE call[c].op # "evaluate"
  BY <1>1, <1>2, <1>5, ChecksOnly
<1> QED BY <1>4, <1>5

LEMMA ForbidsDoneDecides ==
  ASSUME VecInv, NEW c \in Caller, ForbidsDone(c), ~UNCHANGED call
  PROVE  Tree!CheckForbid(c)
<1>1. /\ Walking(c) /\ call[c].op # "evaluate" /\ Return(c, "false")
      /\ UNCHANGED <<vec, nextPos, now, grants>>
      /\ \A r \in ToSet(vec) : ~Applies(r, c, "forbid")
  BY LookedAt DEF ForbidsDone, Walking
<1>2. ~HasForbid(ToSet(vec), call[c].action, walk[c].t)
  BY <1>1 DEF HasForbid, ForbidsOf, Applies
<1> QED BY <1>1, <1>2, ChecksOnly

LEMMA NoMatchDecides ==
  ASSUME VecInv, NEW c \in Caller, NoMatch(c)
  PROVE  Tree!Evaluate(c)
<1>1. /\ Walking(c) /\ call[c].op = "evaluate" /\ Return(c, "no match")
      /\ UNCHANGED <<vec, nextPos, now, grants>>
      /\ \A r \in ToSet(vec) : ~Applies(r, c, "forbid")
      /\ \A r \in ToSet(vec) : Applies(r, c, "permit") => IsSpent(r)
  BY LookedAt DEF NoMatch, Walking, VecInv, CallOf
<1>2. ~HasForbid(ToSet(vec), call[c].action, walk[c].t)
  BY <1>1 DEF HasForbid, ForbidsOf, Applies
<1>3. PermitsOf(ToSet(vec), call[c].action, walk[c].t) = {}
  BY <1>1 DEF PermitsOf, Applies
<1>4. /\ Outcome(ToSet(vec), call[c].action, walk[c].t) = "no match"
      /\ UsedUp(ToSet(vec), call[c].action, walk[c].t) = {}
  BY <1>2, <1>3 DEF Outcome, UsedUp
<1> QED BY <1>1, <1>4, AnswersOnly

\* The permit the second loop answers on is the first of those in force.
LEMMA FirstPermit ==
  ASSUME VecInv, NEW c \in Caller, NEW n, n = walk[c].i, At(c, "permits"),
         n \in 1..Len(vec), Applies(vec[n], c, "permit"), ~IsSpent(vec[n])
  PROVE  /\ ~HasForbid(ToSet(vec), call[c].action, walk[c].t)
         /\ vec[n] \in PermitsOf(ToSet(vec), call[c].action, walk[c].t)
         /\ Outcome(ToSet(vec), call[c].action, walk[c].t) = "allow"
         /\ UsedUp(ToSet(vec), call[c].action, walk[c].t)
              = IF vec[n].rule_type = "one-shot" THEN {vec[n]} ELSE {}
<1> DEFINE R == ToSet(vec)
           P == PermitsOf(R, call[c].action, walk[c].t)
<1>1. /\ \A r \in R : ~Applies(r, c, "forbid")
      /\ \A i \in 1..(n - 1) : Applies(vec[i], c, "permit") => IsSpent(vec[i])
      /\ vec \in Seq(Rule) /\ Len(vec) \in Nat
  BY DEF VecInv, Shape, WalkSound
<1>2. ~HasForbid(R, call[c].action, walk[c].t)
  BY <1>1 DEF HasForbid, ForbidsOf, Applies
<1>3. \A r : r \in P <=> r \in R /\ Applies(r, c, "permit") /\ ~IsSpent(r)
  BY DEF PermitsOf, Applies
<1>4. vec[n] \in P
  BY <1>1, <1>3 DEF ToSet
<1>5. Outcome(R, call[c].action, walk[c].t) = "allow"
  BY <1>2, <1>4 DEF Outcome
<1>6. ASSUME NEW q \in P
      PROVE  /\ vec[n].pos <= q.pos
             /\ q.pos <= vec[n].pos => q = vec[n]
  <2>1. PICK j \in 1..Len(vec) : q = vec[j]
    BY <1>1, <1>3 DEF ToSet
  <2>2. ~(j \in 1..(n - 1))
    BY <1>1, <1>3, <2>1
  <2>3. j = n \/ n < j
    BY <1>1, <2>2
  <2>4. n < j => vec[n].pos < vec[j].pos
    BY DEF VecInv, Positions, InOrder
  <2>5. vec[n].pos \in Nat /\ vec[j].pos \in Nat
    <3>1. vec[n] \in Rule /\ vec[j] \in Rule
      BY <1>1
    <3> QED BY <3>1 DEF Rule
  <2> QED BY <2>1, <2>3, <2>4, <2>5
<1> HIDE DEF R, P
<1>7. ASSUME NEW r
      PROVE  r \in {q \in P : /\ ~HasForbid(R, call[c].action, walk[c].t)
                              /\ \A p \in P : q.pos <= p.pos
                              /\ q.rule_type = "one-shot"}
               <=> r = vec[n] /\ vec[n].rule_type = "one-shot"
  BY <1>2, <1>4, <1>6
<1>8. UsedUp(R, call[c].action, walk[c].t)
        = {q \in P : /\ ~HasForbid(R, call[c].action, walk[c].t)
                     /\ \A p \in P : q.pos <= p.pos
                     /\ q.rule_type = "one-shot"}
  BY DEF UsedUp, P
<1>9. UsedUp(R, call[c].action, walk[c].t)
        = IF vec[n].rule_type = "one-shot" THEN {vec[n]} ELSE {}
  BY <1>7, <1>8
<1> QED BY <1>2, <1>4, <1>5, <1>9 DEF R, P

LEMMA PermitTurnDecides ==
  ASSUME VecInv, NEW c \in Caller, PermitTurn(c), ~UNCHANGED call
  PROVE  Tree!Evaluate(c)
<1> DEFINE n == walk[c].i
           R == ToSet(vec)
           a == call[c].action
           t == walk[c].t
<1>1. /\ Walking(c) /\ call[c].op = "evaluate" /\ At(c, "permits") /\ n \in 1..Len(vec)
      /\ Applies(vec[n], c, "permit") /\ ~IsSpent(vec[n])
      /\ Return(c, "allow") /\ UNCHANGED <<nextPos, now>>
  BY LookedAt DEF PermitTurn, Walking, VecInv, CallOf
<1> HIDE DEF n
<1>2. /\ Outcome(R, a, t) = "allow"
      /\ UsedUp(R, a, t) = IF vec[n].rule_type = "one-shot" THEN {vec[n]} ELSE {}
  BY <1>1, FirstPermit DEF n
<1>3. CASE vec[n].rule_type # "one-shot"
  <2>1. UNCHANGED <<vec, grants>>
    BY <1>1, <1>3 DEF PermitTurn, n
  <2> HIDE DEF Return
  <2> QED BY <1>1, <1>2, <1>3, <2>1, AnswersOnly
<1>4. CASE vec[n].rule_type = "one-shot"
  <2> DEFINE used == [vec[n] EXCEPT !.consumed = TRUE]
  <2>1. /\ vec' = [vec EXCEPT ![n].consumed = TRUE]
        /\ grants' = [grants EXCEPT ![vec[n].pos] = @ + 1]
    BY <1>1, <1>4 DEF PermitTurn, n
  <2>2. UsedUp(R, a, t) = {vec[n]}
    BY <1>2, <1>4
  <2>3. /\ vec \in Seq(Rule) /\ vec' \in Seq(Rule) /\ Len(vec') = Len(vec) /\ Len(vec) \in Nat
        /\ \A j \in 1..Len(vec) : vec'[j] = IF j = n THEN used ELSE vec[j]
    <3>1. vec \in Seq(Rule) /\ Len(vec) \in Nat
      BY DEF VecInv, Shape
    <3>2. /\ vec' \in Seq(Rule) /\ Len(vec') = Len(vec)
          /\ \A j \in 1..Len(vec) : vec'[j] = IF j = n THEN used ELSE vec[j]
      BY <1>1, <2>1, Consumes, Zenon
    <3> QED BY <3>1, <3>2
  <2>4. \A j \in 1..Len(vec) : vec[j] = vec[n] => j = n
    <3> SUFFICES ASSUME NEW j \in 1..Len(vec), vec[j] = vec[n], j # n
                 PROVE  FALSE
      OBVIOUS
    <3>1. vec[n].pos \in Nat /\ (j < n \/ n < j)
      <4>1. vec[n] \in Rule
        BY <1>1, <2>3
      <4>2. j < n \/ n < j
        BY <1>1, <2>3
      <4> QED BY <4>1, <4>2 DEF Rule
    <3>2. vec[j].pos < vec[n].pos \/ vec[n].pos < vec[j].pos
      BY <1>1, <3>1 DEF VecInv, Positions, InOrder
    <3> QED BY <3>1, <3>2
  <2>5. {x : x \in ToSet(vec')} = (ToSet(vec) \ {vec[n]}) \cup {used}
    <3>1. \A x : x \in ToSet(vec') <=> \E j \in 1..Len(vec) : x = vec'[j]
      BY <2>3 DEF ToSet
    <3>2. \A x : x \in ToSet(vec) <=> \E j \in 1..Len(vec) : x = vec[j]
      BY <2>3 DEF ToSet
    <3> HIDE DEF used
    <3>3. ASSUME NEW x
          PROVE  x \in ToSet(vec') <=> x \in (ToSet(vec) \ {vec[n]}) \cup {used}
      BY <1>1, <2>3, <2>4, <3>1, <3>2
    <3> QED BY <3>3
  <2>6. ToSet(vec)' = Tree!RulesAfter(R, a, t)
    <3>1. RulesAfter(R, a, t) = (R \ {vec[n]}) \cup {used}
      BY <2>2 DEF RulesAfter, MarkConsumed
    <3>2. ToSet(vec)' = ToSet(vec')
      BY DEF ToSet
    <3> QED BY <2>5, <3>1, <3>2, SameVerdicts
  <2>7. grants' = [p \in Tree!Pos |->
           grants[p] + IF \E r \in Tree!UsedUp(R, a, t) : r.pos = p THEN 1 ELSE 0]
    <3>1. Tree!UsedUp(R, a, t) = {vec[n]}
      BY <2>2, SameVerdicts
    <3>2. grants \in [Tree!Pos -> Nat]
      BY DEF VecInv, Shape
    <3> HIDE DEF R, a, t
    <3>3. \A p \in Tree!Pos :
            (\E r \in Tree!UsedUp(R, a, t) : r.pos = p) <=> vec[n].pos = p
      BY <3>1
    <3>4. grants' = [p \in Tree!Pos |-> grants[p] + IF vec[n].pos = p THEN 1 ELSE 0]
      <4> DEFINE g == vec[n].pos
      <4>1. grants' = [grants EXCEPT ![g] = grants[g] + 1]
        BY <2>1
      <4> HIDE DEF g
      <4>2. grants' = [p \in Tree!Pos |-> grants[p] + IF g = p THEN 1 ELSE 0]
        <5>1. grants' = [p \in Tree!Pos |-> IF p = g THEN grants[g] + 1 ELSE grants[p]]
          BY <3>2, <4>1
        <5>2. \A p \in Tree!Pos : (IF p = g THEN grants[g] + 1 ELSE grants[p])
                                   = grants[p] + IF g = p THEN 1 ELSE 0
          BY <3>2
        <5> QED BY <5>1, <5>2
      <4> QED BY <4>2 DEF g
    <3> QED BY <3>3, <3>4
  <2>8. Tree!Waiting(c) /\ t \in call[c].since..now
    BY <1>1, WalkerWaits
  <2>9. Tree!Return(c, Tree!Outcome(R, a, t))
    BY <1>1, <1>2, SameVerdicts DEF Return, Tree!Return
  <2> HIDE DEF R, t
  <2>10. \E u \in call[c].since..now :
           /\ Tree!Return(c, Tree!Outcome(R, a, u))
           /\ ToSet(vec)' = Tree!RulesAfter(R, a, u)
           /\ grants' = [p \in Tree!Pos |->
                grants[p] + IF \E r \in Tree!UsedUp(R, a, u) : r.pos = p THEN 1 ELSE 0]
    BY <2>6, <2>7, <2>8, <2>9
  <2> QED BY <1>1, <2>8, <2>10 DEF Tree!Evaluate, R
<1> QED BY <1>3, <1>4

\* The list operations are those of the tree.
LEMMA PushesList ==
  ASSUME VecInv, NEW s \in Seq(Rule), ChangeList, Extend(vec, s)
  PROVE  Tree!Push(s)
<1>1. ToSet(vec') = ToSet(vec) \cup Placed(s, nextPos)
  BY ExtendProperties
<1>2. ToSet(vec)' = ToSet(vec')
  BY DEF ToSet
<1> QED BY <1>1, <1>2, SameLists DEF Tree!Push, Extend, ChangeList

LEMMA ReplacesList ==
  ASSUME VecInv, NEW s \in Seq(Rule), ReplaceRules(s)
  PROVE  Tree!ReplaceRules(s)
<1>1. ToSet(vec') = ToSet(<<>>) \cup Placed(s, nextPos)
  BY ExtendProperties DEF ReplaceRules
<1>2. ToSet(<<>>) = {} /\ ToSet(vec)' = ToSet(vec')
  BY DEF ToSet
<1> QED BY <1>1, <1>2, SameLists DEF Tree!ReplaceRules, ReplaceRules, Extend, ChangeList

LEMMA RetainsList ==
  ASSUME VecInv, NEW x
  PROVE  /\ RemoveRule(x) => Tree!RemoveRule(x)
         /\ RevokePlan(x) => Tree!RevokePlan(x)
<1>1. ToSet(vec)' = ToSet(vec')
  BY DEF ToSet
<1>2. ASSUME RemoveRule(x)
      PROVE  Tree!RemoveRule(x)
  <2>1. ToSet(vec') = ToSet(vec) \cap WithoutId(ToSet(vec), x)
    BY <1>2, RetainStep DEF RemoveRule
  <2>2. ToSet(vec') = WithoutId(ToSet(vec), x)
    BY <2>1 DEF WithoutId
  <2> QED BY <1>1, <1>2, <2>2, SameLists DEF Tree!RemoveRule, RemoveRule, ChangeList
<1>3. ASSUME RevokePlan(x)
      PROVE  Tree!RevokePlan(x)
  <2>1. ToSet(vec') = ToSet(vec) \cap WithoutPlan(ToSet(vec), x)
    BY <1>3, RetainStep DEF RevokePlan
  <2>2. ToSet(vec') = WithoutPlan(ToSet(vec), x)
    BY <2>1 DEF WithoutPlan
  <2> QED BY <1>1, <1>3, <2>2, SameLists DEF Tree!RevokePlan, RevokePlan, ChangeList
<1> QED BY <1>2, <1>3

LEMMA StepIsTreeStep == VecInv /\ [Next]_vars => [Tree!Next]_(Tree!vars)
<1> SUFFICES ASSUME VecInv, [Next]_vars PROVE Tree!Next \/ UNCHANGED Tree!vars
  OBVIOUS
<1> USE VecAssumption
<1>0. vec' = vec => ToSet(vec)' = ToSet(vec)
  BY DEF ToSet
<1>1. ASSUME NEW c \in Caller, NEW op, NEW a \in Action, Invoke(c, op, a)
      PROVE  Tree!Invoke(c, op, a)
  BY <1>0, <1>1 DEF Invoke, Tree!Invoke
<1>2. ASSUME NEW c \in Caller,
             \/ Enter(c)
             \/ (ForbidTurn(c) \/ ForbidsDone(c) \/ PermitTurn(c)) /\ UNCHANGED call
      PROVE  UNCHANGED Tree!vars
  <2>1. ASSUME Enter(c) PROVE UNCHANGED <<vec, nextPos, now, call, grants>>
    BY <2>1 DEF Enter
  <2>2. ASSUME ForbidTurn(c) \/ ForbidsDone(c), UNCHANGED call
        PROVE  UNCHANGED <<vec, nextPos, now, call, grants>>
    BY <2>2 DEF ForbidTurn, ForbidsDone
  <2>3. ASSUME PermitTurn(c), UNCHANGED call
        PROVE  UNCHANGED <<vec, nextPos, now, call, grants>>
    <3>1. ~Return(c, "allow")
      <4>1. Walking(c) /\ call \in [Caller -> Tree!Call]
        BY <2>3 DEF PermitTurn, Walking, VecInv, Shape
      <4>2. call[c].result = "none"
        BY <4>1, WalkerWaits DEF Tree!Waiting
      <4> QED BY <2>3, <4>1, <4>2 DEF Return, Tree!Call
    <3> QED BY <2>3, <3>1 DEF PermitTurn
  <2> QED BY <1>0, <1>2, <2>1, <2>2, <2>3 DEF Tree!vars
<1>3. ASSUME NEW c \in Caller,
             \/ (ForbidTurn(c) \/ ForbidsDone(c) \/ PermitTurn(c)) /\ ~UNCHANGED call
             \/ NoMatch(c)
      PROVE  Tree!Evaluate(c) \/ Tree!CheckForbid(c)
  BY <1>3, ForbidTurnDecides, ForbidsDoneDecides, PermitTurnDecides, NoMatchDecides
<1>4. ASSUME NEW r \in NewRules, AddRule(r)
      PROVE  Tree!AddRule(r)
  <2>1. <<r>> \in Seq(Rule)
    OBVIOUS
  <2> QED BY <1>4, <2>1, PushesList DEF AddRule, Tree!AddRule
<1>5. ASSUME NEW x \in Templates, LoadTemplate(x)
      PROVE  Tree!LoadTemplate(x)
  BY <1>5, PushesList, SameLists DEF LoadTemplate, Tree!LoadTemplate
<1>6. ASSUME NEW s \in Restorable, ReplaceRules(s)
      PROVE  Tree!ReplaceRules(s)
  <2>1. s \in Seq(Rule)
    OBVIOUS
  <2> QED BY <1>6, <2>1, ReplacesList
<1>7. Tick => Tree!Tick
  BY <1>0 DEF Tick, Tree!Tick
<1>8. UNCHANGED vars => UNCHANGED Tree!vars
  BY <1>0 DEF vars, Tree!vars
<1> QED BY <1>1, <1>2, <1>3, <1>4, <1>5, <1>6, <1>7, <1>8, RetainsList DEF Next, Tree!Next

(***************************************************************************)
(* The Vec behind its RwLock implements PermissionTree: every call of the  *)
(* code takes effect as one step on the set of its rules, at the turn of   *)
(* the loop that answers, and every other step changes nothing of the tree.*)
(***************************************************************************)
THEOREM VecImplementsTree == Spec => ImplementsTree
<1>1. Init => Tree!Init
  BY DEF Init
<1> QED BY <1>1, VecInvHolds, StepIsTreeStep, PTL DEF Spec, ImplementsTree, Tree!Spec
=============================================================================
