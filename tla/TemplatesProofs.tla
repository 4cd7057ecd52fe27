--------------------------- MODULE TemplatesProofs ---------------------------
(***************************************************************************)
(* Proofs about Templates: the text of a policy is read back as the        *)
(* policy (EmitReadBack); the inductive invariant Inv of the commands, and *)
(* from it TypeOK, what list shows, what check says, what a generated file *)
(* permits and what a logged action keeps of its method.                   *)
(*                                                                         *)
(* The recursive readers and the matcher are recursive functions: that     *)
(* one exists is shown once (RecursionDefined), by induction along a       *)
(* measure of its arguments, and every property of a reader follows from   *)
(* its defining equation by the same induction.                            *)
(***************************************************************************)
EXTENDS Templates, FiniteSetTheorems, SequenceTheorems, TLAPS

(***************************************************************************)
(* Induction.  The least number of a set of naturals is the one whose      *)
(* initial segment is minimal among finite sets.                           *)
(***************************************************************************)
LEMMA LeastElement ==
  ASSUME NEW T \in SUBSET Nat, T # {}
  PROVE  \E m \in T : \A n \in T : m <= n
<1> DEFINE F == {0..n : n \in T}
<1>1. F \subseteq FiniteSubsetsOf(Nat) /\ F # {}
  <2>1. ASSUME NEW n \in T
        PROVE  0..n \in FiniteSubsetsOf(Nat)
    BY FS_Interval DEF FiniteSubsetsOf
  <2> QED BY <2>1
<1>2. IsWellFoundedOn(StrictSubsetOrdering(Nat), FiniteSubsetsOf(Nat))
  BY FS_StrictSubsetOrderingWellFounded
<1> HIDE DEF F
<1>3. PICK X \in F : \A Y \in F : ~(<<Y, X>> \in StrictSubsetOrdering(Nat))
  BY <1>1, <1>2, WFMin
<1>4. PICK m \in T : X = 0..m
  BY DEF F
<1>5. ASSUME NEW n \in T, ~(m <= n)
      PROVE  FALSE
  <2>1. 0..n \in F
    BY DEF F
  <2>2. 0..n \subseteq 0..m /\ m \in 0..m /\ m \notin 0..n /\ 0..m \subseteq Nat
    BY <1>5
  <2>3. <<0..n, 0..m>> \in StrictSubsetOrdering(Nat)
    BY <2>2 DEF StrictSubsetOrdering
  <2> QED BY <1>3, <1>4, <2>1, <2>3
<1> QED BY <1>5

\* What holds of 0 and is passed on from each number to the next holds up to n.
LEMMA UpTo ==
  ASSUME NEW n \in Nat, NEW T, 0 \in T, \A i \in 1..n : i - 1 \in T => i \in T
  PROVE  0..n \subseteq T
<1> DEFINE Bad == (0..n) \ T
<1> SUFFICES ASSUME Bad # {} PROVE FALSE
  OBVIOUS
<1>1. Bad \in SUBSET Nat
  OBVIOUS
<1> HIDE DEF Bad
<1>2. PICK m \in Bad : \A k \in Bad : m <= k
  BY <1>1, LeastElement
<1>3. m \in 1..n /\ m \notin T
  BY <1>2 DEF Bad
<1>4. m - 1 \in 0..n /\ ~(m <= m - 1)
  BY <1>3
<1>5. m - 1 \in T
  BY <1>2, <1>4 DEF Bad
<1> QED BY <1>3, <1>5

\* Induction and recursion along a measure of at most n.
LEMMA ByMeasure ==
  ASSUME NEW n \in Nat, NEW D, NEW m \in [D -> 1..n], NEW T,
         \A i \in D : (\A j \in D : m[j] < m[i] => j \in T) => i \in T
  PROVE  D \subseteq T
<1> DEFINE U == {k \in 0..n : \A i \in D : m[i] <= k => i \in T}
<1>1. 0 \in U
  OBVIOUS
<1>2. ASSUME NEW k \in 1..n, k - 1 \in U
      PROVE  k \in U
  <2>1. ASSUME NEW i \in D, m[i] <= k
        PROVE  i \in T
    <3>1. \A j \in D : m[j] < m[i] => m[j] <= k - 1
      BY <2>1
    <3> QED BY <1>2, <3>1
  <2> QED BY <2>1
<1> HIDE DEF U
<1>3. n \in U
  <2>1. 0..n \subseteq U
    BY <1>1, <1>2, UpTo
  <2> QED BY <2>1
<1> QED BY <1>3 DEF U

\* What a step makes of a function depends on its values of a smaller measure only.
Recursion(n, D, m, V, step) ==
  /\ n \in Nat /\ m \in [D -> 1..n]
  /\ V # {} /\ step \in [D -> [[D -> V] -> V]]
  /\ \A i \in D : \A g, h \in [D -> V] :
       (\A j \in D : m[j] < m[i] => g[j] = h[j]) => step[i][g] = step[i][h]

\* A recursion whose step looks only at smaller arguments has a function that satisfies it.
LEMMA RecursionDefined ==
  ASSUME NEW n, NEW D, NEW m, NEW V, NEW step, Recursion(n, D, m, V, step)
  PROVE  \E f \in [D -> V] : \A i \in D : f[i] = step[i][f]
<1> USE DEF Recursion
<1> DEFINE U == {k \in 0..n : \E f \in [D -> V] : \A i \in D : m[i] <= k => f[i] = step[i][f]}
<1>1. 0 \in U
  <2>1. PICK v \in V : TRUE
    OBVIOUS
  <2> DEFINE f == [i \in D |-> v]
  <2>2. f \in [D -> V]
    OBVIOUS
  <2> HIDE DEF f
  <2>3. \A i \in D : m[i] \in 1..n
    OBVIOUS
  <2>4. \A i \in D : m[i] <= 0 => f[i] = step[i][f]
    BY <2>3
  <2> QED BY <2>2, <2>4
<1>2. ASSUME NEW k \in 1..n, k - 1 \in U
      PROVE  k \in U
  <2>1. PICK f \in [D -> V] : \A i \in D : m[i] <= k - 1 => f[i] = step[i][f]
    BY <1>2
  <2> DEFINE g == [i \in D |-> IF m[i] = k THEN step[i][f] ELSE f[i]]
  <2>2. g \in [D -> V]
    OBVIOUS
  <2>3. \A i \in D : (m[i] = k => g[i] = step[i][f]) /\ (m[i] # k => g[i] = f[i])
    OBVIOUS
  <2> HIDE DEF g
  <2>4. ASSUME NEW i \in D, m[i] <= k
        PROVE  g[i] = step[i][g]
    <3>1. \A j \in D : m[j] < m[i] => f[j] = g[j]
      BY <2>3, <2>4
    <3>2. step[i][f] = step[i][g]
      BY <2>2, <3>1
    <3>3. m[i] # k => m[i] <= k - 1
      <4>1. m[i] \in 1..n
        OBVIOUS
      <4>2. \A x, y \in 1..n : x <= y /\ x # y => x <= y - 1
        OBVIOUS
      <4> QED BY <2>4, <4>1, <4>2
    <3> QED BY <2>1, <2>3, <3>2, <3>3
  <2> QED BY <2>2, <2>4
<1> HIDE DEF U
<1>3. n \in U
  <2>1. 0..n \subseteq U
    BY <1>1, <1>2, UpTo
  <2> QED BY <2>1
<1>4. PICK f \in [D -> V] : \A i \in D : m[i] <= n => f[i] = step[i][f]
  BY <1>3 DEF U
<1>5. \A i \in D : m[i] <= n
  OBVIOUS
<1> QED BY <1>4, <1>5
\* A function that follows the step on what it has of a smaller measure.
Follows(f, D, m, V, step) ==
  /\ f = [i \in D |-> f[i]]
  /\ \A i \in D : \A g \in [D -> V] :
       (\A j \in D : m[j] < m[i] => g[j] = f[j]) => f[i] = step[i][g]

\* And what satisfies it has the type that every step keeps.
LEMMA RecursionTyped ==
  ASSUME NEW n, NEW D, NEW m, NEW V, NEW step, Recursion(n, D, m, V, step),
         NEW f, Follows(f, D, m, V, step)
  PROVE  f \in [D -> V]
<1> DEFINE T == {i \in D : f[i] \in V}
<1>1. n \in Nat /\ m \in [D -> 1..n] /\ V # {} /\ step \in [D -> [[D -> V] -> V]]
  BY DEF Recursion
<1>2. ASSUME NEW i \in D, \A j \in D : m[j] < m[i] => j \in T
      PROVE  i \in T
  <2>1. PICK v \in V : TRUE
    BY <1>1
  <2> DEFINE g == [j \in D |-> IF m[j] < m[i] THEN f[j] ELSE v]
  <2>2. g \in [D -> V] /\ \A j \in D : m[j] < m[i] => g[j] = f[j]
    BY <1>2
  <2> HIDE DEF g
  <2>3. f[i] = step[i][g]
    BY <2>2 DEF Follows
  <2>4. step[i][g] \in V
    BY <1>1, <2>2
  <2> QED BY <2>3, <2>4
<1> HIDE DEF T
<1>3. D \subseteq T
  BY <1>1, <1>2, ByMeasure
<1>4. f = [i \in D |-> f[i]] /\ \A i \in D : f[i] \in V
  BY <1>3 DEF Follows, T
<1> QED BY <1>4
-----------------------------------------------------------------------------
(***************************************************************************)
(* FlattenSeq.                                                             *)
(***************************************************************************)
\* One step of its recursion, and the recursive function up to n.
Longer(ss, before, i) == IF i = 1 THEN ss[i] ELSE before \o ss[i]

Flattens(f, ss, n) == f = [i \in 1..n |-> IF i = 1 THEN ss[i] ELSE f[i - 1] \o ss[i]]

\* FlattenSeq satisfies its own recursion.
LEMMA FlattenDefined ==
  ASSUME NEW ss, Len(ss) \in Nat
  PROVE  \E f : Flattens(f, ss, Len(ss))
<1> DEFINE T == {n \in 0..Len(ss) : \E f : Flattens(f, ss, n)}
<1>1. 0 \in T
  <2> DEFINE f == [i \in 1..0 |-> IF i = 1 THEN ss[i] ELSE <<>> \o ss[i]]
  <2>1. Flattens(f, ss, 0)
    BY DEF Flattens
  <2>2. \E g : Flattens(g, ss, 0)
    BY <2>1, Zenon
  <2> QED BY <2>2
<1>2. ASSUME NEW n \in 1..Len(ss), n - 1 \in T
      PROVE  n \in T
  <2>1. PICK f : Flattens(f, ss, n - 1)
    BY <1>2
  <2> DEFINE g == [i \in 1..n |-> IF i = n THEN Longer(ss, f[n - 1], n) ELSE f[i]]
  <2>2. ASSUME NEW i \in 1..n
        PROVE  g[i] = Longer(ss, g[i - 1], i)
    <3>1. CASE i = n
      <4>1. CASE i = 1
        BY <3>1, <4>1 DEF Longer
      <4>2. CASE i # 1
        <5>1. i - 1 \in 1..n /\ i - 1 # n
          BY <4>2
        <5> QED BY <3>1, <5>1
      <4> QED BY <4>1, <4>2
    <3>2. CASE i # n
      <4>1. i \in 1..(n - 1)
        BY <3>2
      <4>2. f[i] = Longer(ss, f[i - 1], i)
        BY <2>1, <4>1 DEF Longer, Flattens
      <4>3. i # 1 => i - 1 \in 1..n /\ i - 1 # n
        BY <4>1
      <4> QED BY <3>2, <4>2, <4>3 DEF Longer
    <3> QED BY <3>1, <3>2
  <2>3. g = [i \in 1..n |-> g[i]]
    OBVIOUS
  <2> HIDE DEF g
  <2>4. Flattens(g, ss, n)
    BY <2>2, <2>3, Zenon DEF Longer, Flattens
  <2> QED BY <2>4
<1> HIDE DEF T
<1>3. Len(ss) \in T
  <2>1. 0..Len(ss) \subseteq T
    BY <1>1, <1>2, UpTo
  <2> QED BY <2>1
<1> QED BY <1>3 DEF T

(***************************************************************************)
(* The sequences lie one after the other, the k-th after off[k-1] symbols. *)
(***************************************************************************)
Lie(ss, flat, off) ==
  /\ off \in [0..Len(ss) -> Nat]
  /\ off[0] = 0
  /\ off[Len(ss)] = Len(flat)
  /\ \A k \in 1..Len(ss) : off[k] = off[k - 1] + Len(ss[k])
  /\ \A k \in 1..Len(ss) : \A j \in 1..Len(ss[k]) :
       off[k - 1] + j \in 1..Len(flat) /\ flat[off[k - 1] + j] = ss[k][j]

\* FlattenSeq lays its sequences one after the other and adds nothing.
LEMMA FlattenProperties ==
  ASSUME NEW S, NEW ss \in Seq(Seq(S))
  PROVE  FlattenSeq(ss) \in Seq(S) /\ \E off : Lie(ss, FlattenSeq(ss), off)
<1>1. Len(ss) \in Nat /\ \A k \in 1..Len(ss) : ss[k] \in Seq(S) /\ Len(ss[k]) \in Nat
  OBVIOUS
<1>2. CASE Len(ss) = 0
  <2>1. ss = <<>> /\ FlattenSeq(ss) = <<>>
    BY <1>2 DEF FlattenSeq
  <2> DEFINE off == [k \in 0..0 |-> 0]
  <2>2. Lie(ss, FlattenSeq(ss), off)
    <3>1. off \in [0..Len(ss) -> Nat] /\ off[0] = 0 /\ off[Len(ss)] = Len(FlattenSeq(ss))
      BY <1>2, <2>1
    <3>2. 1..Len(ss) = {}
      BY <1>2
    <3> QED BY <3>1, <3>2 DEF Lie
  <2>3. FlattenSeq(ss) \in Seq(S)
    <3>1. <<>> \in Seq(S)
      OBVIOUS
    <3> QED BY <2>1, <3>1, Zenon
  <2> QED BY <2>2, <2>3, Zenon
<1>3. CASE Len(ss) # 0
  <2> DEFINE f == CHOOSE f : Flattens(f, ss, Len(ss))
  <2>1. FlattenSeq(ss) = f[Len(ss)]
    BY <1>3, Zenon DEF FlattenSeq, Flattens
  <2>2. Flattens(f, ss, Len(ss))
    BY <1>1, FlattenDefined, Zenon
  <2> HIDE DEF f
  <2>3. f[1] = ss[1] /\ \A k \in 2..Len(ss) : f[k] = f[k - 1] \o ss[k]
    <3>1. 1 \in 1..Len(ss) /\ \A k \in 2..Len(ss) : k \in 1..Len(ss) /\ k # 1
      BY <1>1, <1>3
    <3> QED BY <2>2, <3>1 DEF Flattens
  <2> DEFINE off == [k \in 0..Len(ss) |-> IF k = 0 THEN 0 ELSE Len(f[k])]
             T == {n \in 0..Len(ss) : n = 0 \/
                     /\ f[n] \in Seq(S)
                     /\ off[n] = off[n - 1] + Len(ss[n])
                     /\ \A k \in 1..n : \A j \in 1..Len(ss[k]) :
                          off[k - 1] + j \in 1..Len(f[n]) /\ f[n][off[k - 1] + j] = ss[k][j]}
  <2>4. 0 \in T
    BY <1>1
  <2>5. ASSUME NEW n \in 1..Len(ss), n - 1 \in T
        PROVE  n \in T
    <3>1. CASE n = 1
      <4>1. off[0] = 0 /\ off[1] = Len(f[1]) /\ f[1] = ss[1] /\ ss[1] \in Seq(S)
        BY <1>1, <1>3, <2>3
      <4>2. \A k \in 1..1 : k = 1
        OBVIOUS
      <4>3. \A j \in 1..Len(ss[1]) : 0 + j = j
        BY <1>1, <1>3
      <4> HIDE DEF off
      <4> QED BY <1>1, <3>1, <4>1, <4>2, <4>3
    <3>2. CASE n # 1
      <4>1. n \in 2..Len(ss) /\ n - 1 \in 1..Len(ss) /\ n - 1 # 0 /\ n \in 1..Len(ss) /\ n # 0
        BY <1>1, <3>2
      <4>2. /\ f[n - 1] \in Seq(S)
            /\ \A k \in 1..(n - 1) : \A j \in 1..Len(ss[k]) :
                 /\ off[k - 1] + j \in 1..Len(f[n - 1])
                 /\ f[n - 1][off[k - 1] + j] = ss[k][j]
        BY <2>5, <4>1
      <4>3. off[n - 1] = Len(f[n - 1]) /\ off[n] = Len(f[n]) /\ Len(f[n - 1]) \in Nat
        BY <4>1, <4>2
      <4>4. f[n] = f[n - 1] \o ss[n] /\ ss[n] \in Seq(S)
        BY <1>1, <2>3, <4>1
      <4> HIDE DEF off, f
      <4>5. /\ f[n] \in Seq(S) /\ Len(f[n]) = Len(f[n - 1]) + Len(ss[n])
            /\ \A i \in 1..Len(f[n - 1]) : i \in 1..Len(f[n]) /\ f[n][i] = f[n - 1][i]
            /\ \A j \in 1..Len(ss[n]) :
                 Len(f[n - 1]) + j \in 1..Len(f[n]) /\ f[n][Len(f[n - 1]) + j] = ss[n][j]
        <5> DEFINE a == f[n - 1]
                   b == ss[n]
        <5>1. a \in Seq(S) /\ b \in Seq(S) /\ f[n] = a \o b
          BY <4>2, <4>4
        <5> HIDE DEF a, b
        <5>2. /\ a \o b \in Seq(S) /\ Len(a \o b) = Len(a) + Len(b)
              /\ \A i \in 1..Len(a) : i \in 1..Len(a \o b) /\ (a \o b)[i] = a[i]
              /\ \A j \in 1..Len(b) :
                   Len(a) + j \in 1..Len(a \o b) /\ (a \o b)[Len(a) + j] = b[j]
          BY <5>1
        <5> QED BY <5>1, <5>2 DEF a, b
      <4>6. \A k \in 1..n : k = n \/ k \in 1..(n - 1)
        OBVIOUS
      <4>7. \A k \in 1..n : \A j \in 1..Len(ss[k]) :
              off[k - 1] + j \in 1..Len(f[n]) /\ f[n][off[k - 1] + j] = ss[k][j]
        BY <4>2, <4>3, <4>5, <4>6
      <4>8. n \in 0..Len(ss) /\ off[n] = off[n - 1] + Len(ss[n])
        BY <4>1, <4>3, <4>5
      <4> QED BY <4>5, <4>7, <4>8
    <3> QED BY <3>1, <3>2
  <2> HIDE DEF T, off
  <2>6. 0..Len(ss) \subseteq T
    BY <1>1, <2>4, <2>5, UpTo
  <2>7. /\ \A k \in 1..Len(ss) : f[k] \in Seq(S) /\ off[k] = off[k - 1] + Len(ss[k])
        /\ \A k \in 1..Len(ss) : \A j \in 1..Len(ss[k]) :
             /\ off[k - 1] + j \in 1..Len(f[Len(ss)])
             /\ f[Len(ss)][off[k - 1] + j] = ss[k][j]
    <3>1. \A k \in 1..Len(ss) : k \in 0..Len(ss) /\ k # 0
      BY <1>1
    <3>2. Len(ss) \in 1..Len(ss)
      BY <1>1, <1>3
    <3>3. \A k \in 1..Len(ss) : k \in T /\ k # 0
      BY <2>6, <3>1
    <3> QED BY <3>2, <3>3 DEF T
  <2>8. off \in [0..Len(ss) -> Nat] /\ off[0] = 0 /\ off[Len(ss)] = Len(f[Len(ss)])
    <3>1. \A k \in 0..Len(ss) : k = 0 \/ k \in 1..Len(ss)
      BY <1>1
    <3> QED BY <1>1, <1>3, <2>7, <3>1 DEF off
  <2>9. Lie(ss, FlattenSeq(ss), off)
    BY <2>1, <2>7, <2>8 DEF Lie
  <2>10. FlattenSeq(ss) \in Seq(S)
    BY <1>1, <1>3, <2>1, <2>7
  <2> QED BY <2>9, <2>10, Zenon
<1> QED BY <1>2, <1>3
-----------------------------------------------------------------------------
(***************************************************************************)
(* Reading a string.                                                       *)
(***************************************************************************)
\* The words of the format are symbols.
LEMMA SyntaxSymbols ==
  \A x \in Syntax : x \in Symbol
BY SymbolAssumption

\* The quote and the backslash are different symbols.
LEMMA Signs ==
  /\ Quote \in Symbol /\ Backslash \in Symbol /\ "newline" \in Symbol /\ "*" \in Symbol
  /\ Quote # Backslash
BY SymbolAssumption DEF Syntax, Sign, Quote, Backslash

\* A part read: nothing, or a value and where the next part starts.
Part(t, V) == {r \in [next: 0..(Len(t) + 1), value: V] : r.next # 0 \/ r = Nothing}

Beyond(r, i) == r.next # 0 => r.next > i

StringStep(t, f, i) ==
  IF i > Len(t) THEN Nothing
  ELSE IF t[i] = Quote THEN [next |-> i + 1, value |-> <<>>]
  ELSE IF t[i] # Backslash THEN Onto(<<t[i]>>, f[i + 1])
  ELSE IF i = Len(t) THEN Nothing
  ELSE Onto(Unescaped(t[i + 1]), f[i + 2])

\* Nothing is what is returned when nothing is read.
LEMMA NothingRead ==
  ASSUME NEW t \in Seq(Symbol), NEW V, <<>> \in V
  PROVE  Nothing \in Part(t, V) /\ \A i : Beyond(Nothing, i)
BY DEF Nothing, Part, Beyond

\* What is put before what was read is a string.
LEMMA OntoType ==
  ASSUME NEW t, NEW u \in Seq(Symbol), NEW r \in Part(t, Seq(Symbol))
  PROVE  Onto(u, r) \in Part(t, Seq(Symbol)) /\ Onto(u, r).next = r.next
<1>1. CASE r.next = 0
  BY <1>1 DEF Onto
<1>2. CASE r.next # 0
  <2>1. r \in [next: 0..(Len(t) + 1), value: Seq(Symbol)]
    BY DEF Part
  <2> DEFINE w == u \o r.value
  <2>2. Onto(u, r) = [r EXCEPT !.value = w] /\ w \in Seq(Symbol)
    BY <1>2, <2>1 DEF Onto
  <2> HIDE DEF w
  <2>3. /\ [r EXCEPT !.value = w] \in [next: 0..(Len(t) + 1), value: Seq(Symbol)]
        /\ [r EXCEPT !.value = w].next = r.next
    BY <2>1, <2>2
  <2> QED BY <1>2, <2>2, <2>3 DEF Part
<1> QED BY <1>1, <1>2

\* One step of reading a string keeps the type of what is read.
LEMMA StringStepType ==
  ASSUME NEW t \in Seq(Symbol), NEW i \in 1..(Len(t) + 1),
         NEW f \in [1..(Len(t) + 1) -> Part(t, Seq(Symbol))]
  PROVE  /\ StringStep(t, f, i) \in Part(t, Seq(Symbol))
         /\ (\A j \in 1..(Len(t) + 1) : j > i => Beyond(f[j], j)) => Beyond(StringStep(t, f, i), i)
<1>1. Len(t) \in Nat /\ \A k \in 1..Len(t) : t[k] \in Symbol
  OBVIOUS
<1>2. Nothing \in Part(t, Seq(Symbol)) /\ Beyond(Nothing, i)
  <2>1. <<>> \in Seq(Symbol)
    OBVIOUS
  <2> QED BY <2>1, NothingRead
<1>3. ASSUME NEW u \in Seq(Symbol), NEW j \in (i + 1)..(Len(t) + 1),
             StringStep(t, f, i) = Onto(u, f[j])
      PROVE  /\ StringStep(t, f, i) \in Part(t, Seq(Symbol))
             /\ Beyond(f[j], j) => Beyond(StringStep(t, f, i), i)
  <2>1. f[j] \in Part(t, Seq(Symbol))
    BY <1>1
  <2>2. f[j].next \in Int
    BY <1>1, <2>1 DEF Part
  <2>3. StringStep(t, f, i) \in Part(t, Seq(Symbol)) /\ StringStep(t, f, i).next = f[j].next
    BY <1>3, <2>1, OntoType
  <2> QED BY <1>1, <2>2, <2>3 DEF Beyond
<1>4. CASE i > Len(t)
  BY <1>2, <1>4 DEF StringStep
<1>5. CASE i <= Len(t) /\ t[i] = Quote
  <2>1. StringStep(t, f, i) = [next |-> i + 1, value |-> <<>>]
    BY <1>1, <1>5 DEF StringStep
  <2> QED BY <1>1, <1>5, <2>1 DEF Part, Beyond
<1>6. CASE i <= Len(t) /\ t[i] # Quote /\ t[i] # Backslash
  <2>1. StringStep(t, f, i) = Onto(<<t[i]>>, f[i + 1])
    BY <1>1, <1>6 DEF StringStep
  <2>2. <<t[i]>> \in Seq(Symbol) /\ i + 1 \in (i + 1)..(Len(t) + 1) /\ i + 1 > i
    BY <1>1, <1>6
  <2>3. /\ StringStep(t, f, i) \in Part(t, Seq(Symbol))
        /\ Beyond(f[i + 1], i + 1) => Beyond(StringStep(t, f, i), i)
    BY <1>3, <2>1, <2>2
  <2>4. i + 1 \in 1..(Len(t) + 1)
    BY <1>1, <1>6
  <2> QED BY <2>2, <2>3, <2>4
<1>7. CASE i = Len(t) /\ t[i] = Backslash
  BY <1>1, <1>2, <1>7, Signs DEF StringStep
<1>8. CASE i < Len(t) /\ t[i] = Backslash
  <2>1. StringStep(t, f, i) = Onto(Unescaped(t[i + 1]), f[i + 2])
    BY <1>1, <1>8, Signs DEF StringStep
  <2>2. t[i + 1] \in Symbol /\ i + 2 \in (i + 1)..(Len(t) + 1) /\ i + 2 > i
    BY <1>1, <1>8
  <2>3. Unescaped(t[i + 1]) \in Seq(Symbol)
    <3>1. \A a, b \in Symbol : <<a>> \in Seq(Symbol) /\ <<a, b>> \in Seq(Symbol)
      OBVIOUS
    <3> QED BY <2>2, <3>1, Signs, Zenon DEF Unescaped
  <2>4. /\ StringStep(t, f, i) \in Part(t, Seq(Symbol))
        /\ Beyond(f[i + 2], i + 2) => Beyond(StringStep(t, f, i), i)
    BY <1>3, <2>1, <2>2, <2>3
  <2>5. i + 2 \in 1..(Len(t) + 1)
    BY <1>1, <1>8
  <2> QED BY <2>2, <2>4, <2>5
<1> QED BY <1>1, <1>4, <1>5, <1>6, <1>7, <1>8

\* StringFrom is the function that its recursion describes.
LEMMA StringFromDefined ==
  ASSUME NEW t \in Seq(Symbol)
  PROVE  /\ StringFrom(t) \in [1..(Len(t) + 1) -> Part(t, Seq(Symbol))]
         /\ \A i \in 1..(Len(t) + 1) : StringFrom(t)[i] = StringStep(t, StringFrom(t), i)
<1> DEFINE N == Len(t) + 1
           D == 1..N
           V == Part(t, Seq(Symbol))
           m == [i \in D |-> Len(t) + 2 - i]
           step == [i \in D |-> [g \in [D -> V] |-> StringStep(t, g, i)]]
           Good(f) == f = [i \in D |-> StringStep(t, f, i)]
<1>1. Len(t) \in Nat /\ N \in Nat
  OBVIOUS
<1>2. Nothing \in V /\ V # {}
  <2>1. <<>> \in Seq(Symbol)
    OBVIOUS
  <2> QED BY <2>1, NothingRead
<1>3. m \in [D -> 1..N] /\ \A i, j \in D : j > i => m[j] < m[i]
  BY <1>1
<1>4. step \in [D -> [[D -> V] -> V]]
  BY StringStepType
<1>5. ASSUME NEW i \in D, NEW g, NEW h, \A j \in D : m[j] < m[i] => g[j] = h[j]
      PROVE  StringStep(t, g, i) = StringStep(t, h, i)
  <2>1. \A j \in D : j > i => g[j] = h[j]
    BY <1>3, <1>5
  <2>2. i <= Len(t) => i + 1 \in D /\ i + 1 > i
    BY <1>1
  <2>3. i <= Len(t) /\ i # Len(t) => i + 2 \in D /\ i + 2 > i
    BY <1>1
  <2> QED BY <1>1, <2>1, <2>2, <2>3 DEF StringStep
<1>6. \A i \in D : \A g \in [D -> V] : step[i][g] = StringStep(t, g, i)
  OBVIOUS
<1>7. Recursion(N, D, m, V, step)
  <2>1. \A i \in D : \A g, h \in [D -> V] :
          (\A j \in D : m[j] < m[i] => g[j] = h[j]) => step[i][g] = step[i][h]
    <3> HIDE DEF D, V, m, step
    <3> QED BY <1>5, <1>6
  <2> HIDE DEF N, D, V, m, step
  <2> QED BY <1>1, <1>2, <1>3, <1>4, <2>1 DEF Recursion
<1> HIDE DEF N, D, V, m, step
<1>8. \E f : Good(f)
  <2>1. PICK f \in [D -> V] : \A i \in D : f[i] = step[i][f]
    BY <1>7, RecursionDefined
  <2>2. \A i \in D : f[i] = StringStep(t, f, i)
    BY <1>6, <2>1
  <2>3. f = [i \in D |-> f[i]]
    OBVIOUS
  <2> QED BY <2>2, <2>3
<1>9. StringFrom(t) = CHOOSE f : Good(f)
  BY Zenon DEF StringFrom, StringStep, D, N
<1> DEFINE f == StringFrom(t)
<1> HIDE DEF f
<1>10. Good(f)
  <2> HIDE DEF Good
  <2> QED BY <1>8, <1>9, Zenon DEF f
<1>11. \A i \in D : f[i] = StringStep(t, f, i)
  BY <1>10
<1>12. f \in [D -> V]
  <2>1. ASSUME NEW i \in D, NEW g \in [D -> V], \A j \in D : m[j] < m[i] => g[j] = f[j]
        PROVE  f[i] = step[i][g]
    <3>1. StringStep(t, g, i) = StringStep(t, f, i)
      BY <1>5, <2>1
    <3> QED BY <1>6, <1>11, <3>1
  <2>2. f = [i \in D |-> f[i]]
    BY <1>10, <1>11
  <2>3. Follows(f, D, m, V, step)
    BY <2>1, <2>2 DEF Follows
  <2> QED BY <1>7, <2>3, RecursionTyped
<1> QED BY <1>11, <1>12 DEF f, N, D, V

\* Beyond the text no string is read.
LEMMA StringFromBeyond ==
  ASSUME NEW t \in Seq(Symbol)
  PROVE  \A i \in 1..(Len(t) + 1) : Beyond(StringFrom(t)[i], i)
<1> DEFINE N == Len(t) + 1
           D == 1..N
           f == StringFrom(t)
           m == [i \in D |-> Len(t) + 2 - i]
           T == {i \in D : Beyond(f[i], i)}
<1>1. Len(t) \in Nat /\ N \in Nat
  OBVIOUS
<1>2. m \in [D -> 1..N] /\ \A i, j \in D : j > i => m[j] < m[i]
  BY <1>1
<1>3. ASSUME NEW i \in D, \A j \in D : m[j] < m[i] => j \in T
      PROVE  i \in T
  <2>1. \A j \in D : j > i => Beyond(f[j], j)
    BY <1>2, <1>3
  <2>2. f[i] = StringStep(t, f, i) /\ f \in [D -> Part(t, Seq(Symbol))]
    BY StringFromDefined
  <2> HIDE DEF f
  <2>3. Beyond(StringStep(t, f, i), i)
    BY <2>1, <2>2, StringStepType
  <2> QED BY <2>2, <2>3
<1> HIDE DEF T, D, N, m, f
<1>4. D \subseteq T
  BY <1>1, <1>2, <1>3, ByMeasure
<1> QED BY <1>4 DEF T, D, N, f

(***************************************************************************)
(* What the parts read.                                                    *)
(***************************************************************************)
LEMMA ReadStringType ==
  ASSUME NEW t \in Seq(Symbol), NEW i \in Int
  PROVE  ReadString(t, i) \in Part(t, Seq(Symbol)) /\ Beyond(ReadString(t, i), i)
<1>1. <<>> \in Seq(Symbol) /\ Len(t) \in Nat /\ DOMAIN t = 1..Len(t)
  OBVIOUS
<1>2. CASE At(t, i, Quote)
  <2>1. i + 1 \in 1..(Len(t) + 1)
    BY <1>1, <1>2 DEF At
  <2>2. ReadString(t, i) = StringFrom(t)[i + 1]
    BY <1>2 DEF ReadString
  <2>3. ReadString(t, i) \in Part(t, Seq(Symbol)) /\ Beyond(ReadString(t, i), i + 1)
    BY <2>1, <2>2, StringFromDefined, StringFromBeyond
  <2>4. ReadString(t, i).next \in Int
    BY <1>1, <2>3 DEF Part
  <2> QED BY <2>3, <2>4 DEF Beyond
<1>3. CASE ~At(t, i, Quote)
  BY <1>1, <1>3, NothingRead DEF ReadString
<1> QED BY <1>2, <1>3

\* What is read up to a closing parenthesis.
LEMMA ClosedType ==
  ASSUME NEW t \in Seq(Symbol), NEW r \in [next: Int, value: Seq(Symbol)]
  PROVE  /\ Closed(t, r) \in Part(t, Seq(Symbol))
         /\ Closed(t, r).next # 0 => r.next # 0 /\ Closed(t, r).next = r.next + 1
<1>1. <<>> \in Seq(Symbol) /\ Len(t) \in Nat /\ DOMAIN t = 1..Len(t)
  OBVIOUS
<1>2. CASE At(t, r.next, ")")
  <2>1. r.next \in 1..Len(t)
    BY <1>1, <1>2 DEF At
  <2> DEFINE n == r.next + 1
  <2>2. n \in 1..(Len(t) + 1) /\ n # 0
    BY <1>1, <2>1
  <2>3. Closed(t, r) = [r EXCEPT !.next = n]
    BY <1>2 DEF Closed
  <2> HIDE DEF n
  <2>4. /\ [r EXCEPT !.next = n] \in [next: 0..(Len(t) + 1), value: Seq(Symbol)]
        /\ [r EXCEPT !.next = n].next = n
    BY <1>1, <2>2
  <2> QED BY <2>1, <2>2, <2>3, <2>4 DEF Part, n
<1>3. CASE ~At(t, r.next, ")")
  <2>1. Closed(t, r) = Nothing
    BY <1>3 DEF Closed
  <2>2. Nothing \in Part(t, Seq(Symbol)) /\ Nothing.next = 0
    BY <1>1, NothingRead DEF Nothing
  <2> QED BY <2>1, <2>2
<1> QED BY <1>2, <1>3

\* What is read of a bracketed string.
LEMMA ReadArgumentType ==
  ASSUME NEW t \in Seq(Symbol), NEW i \in Int
  PROVE  ReadArgument(t, i) \in Part(t, Seq(Symbol)) /\ Beyond(ReadArgument(t, i), i)
<1>1. <<>> \in Seq(Symbol)
  OBVIOUS
<1>2. CASE At(t, i, "(")
  <2> DEFINE r == ReadString(t, i + 1)
  <2>1. r \in Part(t, Seq(Symbol)) /\ Beyond(r, i + 1)
    BY ReadStringType
  <2>2. r \in [next: Int, value: Seq(Symbol)]
    BY <2>1 DEF Part
  <2>3. ReadArgument(t, i) = Closed(t, r)
    BY <1>2 DEF ReadArgument
  <2> HIDE DEF r
  <2> QED BY <2>1, <2>2, <2>3, ClosedType DEF Beyond
<1>3. CASE ~At(t, i, "(")
  BY <1>1, <1>3, NothingRead DEF ReadArgument
<1> QED BY <1>2, <1>3

\* What is read of the scope of a statement.
LEMMA ReadScopeType ==
  ASSUME NEW t \in Seq(Symbol), NEW i \in Nat
  PROVE  ReadScope(t, i) \in Part(t, Seq(Symbol)) /\ Beyond(ReadScope(t, i), i)
<1>1. CASE At(t, i, "==")
  <2> DEFINE r == ReadString(t, i + 1)
  <2>1. r \in Part(t, Seq(Symbol)) /\ Beyond(r, i + 1)
    BY ReadStringType
  <2>2. r \in [next: Int, value: Seq(Symbol)]
    BY <2>1 DEF Part
  <2>3. ReadScope(t, i) = Closed(t, r)
    BY <1>1 DEF ReadScope
  <2> HIDE DEF r
  <2> QED BY <2>1, <2>2, <2>3, ClosedType DEF Beyond
<1>2. CASE ~At(t, i, "==")
  <2> DEFINE r == [next |-> i, value |-> <<"*">>]
  <2>1. r \in [next: Int, value: Seq(Symbol)] /\ r.next = i
    BY Signs
  <2>2. ReadScope(t, i) = Closed(t, r)
    BY <1>2 DEF ReadScope
  <2> HIDE DEF r
  <2> QED BY <2>1, <2>2, ClosedType DEF Beyond
<1> QED BY <1>1, <1>2
-----------------------------------------------------------------------------
(***************************************************************************)
(* Reading the clauses of a statement.                                     *)
(***************************************************************************)
ClausesStep(t, f, i) ==
  IF At(t, i, Semicolon) THEN [next |-> i + 1, value |-> NoReason]
  ELSE IF At(t, i, "reason")
    THEN Reasoned(ReadArgument(t, i + 1).value, f[ReadArgument(t, i + 1).next])
  ELSE Nothing

\* A reason before what follows it is a reason.
LEMMA ReasonedType ==
  ASSUME NEW t, NEW u \in Seq(Symbol), NEW r \in Part(t, Seq(Symbol))
  PROVE  Reasoned(u, r) \in Part(t, Seq(Symbol)) /\ Reasoned(u, r).next = r.next
<1>1. CASE r.next # 0 /\ r.value = NoReason
  <2>1. r \in [next: 0..(Len(t) + 1), value: Seq(Symbol)]
    BY DEF Part
  <2>2. Reasoned(u, r) = [r EXCEPT !.value = u]
    BY <1>1 DEF Reasoned
  <2>3. /\ [r EXCEPT !.value = u] \in [next: 0..(Len(t) + 1), value: Seq(Symbol)]
        /\ [r EXCEPT !.value = u].next = r.next
    BY <2>1
  <2> QED BY <1>1, <2>2, <2>3 DEF Part
<1>2. CASE ~(r.next # 0 /\ r.value = NoReason)
  BY <1>2 DEF Reasoned
<1> QED BY <1>1, <1>2

\* Where the clauses go on is before the end, or 0.
LEMMA ArgumentNext ==
  ASSUME NEW t \in Seq(Symbol), NEW i \in 0..(Len(t) + 1), At(t, i, "reason")
  PROVE  /\ ReadArgument(t, i + 1).value \in Seq(Symbol)
         /\ ReadArgument(t, i + 1).next \in 0..(Len(t) + 1)
         /\ ReadArgument(t, i + 1).next = 0 \/ ReadArgument(t, i + 1).next > i + 1
         /\ i # 0
<1>1. ReadArgument(t, i + 1) \in Part(t, Seq(Symbol)) /\ Beyond(ReadArgument(t, i + 1), i + 1)
  BY ReadArgumentType
<1>2. i # 0
  BY DEF At
<1> QED BY <1>1, <1>2 DEF Part, Beyond

\* One step of reading clauses keeps the type of what is read.
LEMMA ClausesStepType ==
  ASSUME NEW t \in Seq(Symbol), NEW i \in 0..(Len(t) + 1),
         NEW f \in [0..(Len(t) + 1) -> Part(t, Seq(Symbol))]
  PROVE  /\ ClausesStep(t, f, i) \in Part(t, Seq(Symbol))
         /\ (f[0] = Nothing /\ \A j \in 1..(Len(t) + 1) : j > i => Beyond(f[j], j)) =>
              Beyond(ClausesStep(t, f, i), i)
<1>1. <<>> \in Seq(Symbol) /\ Len(t) \in Nat /\ DOMAIN t = 1..Len(t)
  OBVIOUS
<1>2. CASE At(t, i, Semicolon)
  <2>1. i \in 1..Len(t)
    BY <1>1, <1>2 DEF At
  <2>2. ClausesStep(t, f, i) = [next |-> i + 1, value |-> <<>>]
    BY <1>2 DEF ClausesStep, NoReason
  <2> QED BY <1>1, <2>1, <2>2 DEF Part, Beyond
<1>3. CASE ~At(t, i, Semicolon) /\ At(t, i, "reason")
  <2> DEFINE a == ReadArgument(t, i + 1)
  <2>1. a.value \in Seq(Symbol) /\ a.next \in 0..(Len(t) + 1) /\ (a.next = 0 \/ a.next > i + 1)
    BY <1>3, ArgumentNext
  <2>2. ClausesStep(t, f, i) = Reasoned(a.value, f[a.next])
    BY <1>3 DEF ClausesStep
  <2> HIDE DEF a
  <2>3. f[a.next] \in Part(t, Seq(Symbol))
    BY <2>1
  <2>4. /\ ClausesStep(t, f, i) \in Part(t, Seq(Symbol))
        /\ ClausesStep(t, f, i).next = f[a.next].next
    BY <2>1, <2>2, <2>3, ReasonedType
  <2>5. f[a.next].next \in Int
    BY <1>1, <2>3 DEF Part
  <2> QED BY <1>1, <2>1, <2>4, <2>5 DEF Beyond, Nothing
<1>4. CASE ~At(t, i, Semicolon) /\ ~At(t, i, "reason")
  BY <1>1, <1>4, NothingRead DEF ClausesStep
<1> QED BY <1>2, <1>3, <1>4

\* The reader of clauses satisfies its own recursion.
LEMMA ClausesFromDefined ==
  ASSUME NEW t \in Seq(Symbol)
  PROVE  /\ ClausesFrom(t) \in [0..(Len(t) + 1) -> Part(t, Seq(Symbol))]
         /\ \A i \in 0..(Len(t) + 1) : ClausesFrom(t)[i] = ClausesStep(t, ClausesFrom(t), i)
<1> DEFINE N == Len(t) + 2
           D == 0..(Len(t) + 1)
           V == Part(t, Seq(Symbol))
           m == [i \in D |-> IF i = 0 THEN 1 ELSE Len(t) + 3 - i]
           step == [i \in D |-> [g \in [D -> V] |-> ClausesStep(t, g, i)]]
           Good(f) == f = [i \in D |-> ClausesStep(t, f, i)]
<1>1. Len(t) \in Nat /\ N \in Nat
  OBVIOUS
<1>2. Nothing \in V /\ V # {}
  <2>1. <<>> \in Seq(Symbol)
    OBVIOUS
  <2> QED BY <2>1, NothingRead
<1>3. m \in [D -> 1..N] /\ \A i, j \in D : i # 0 /\ (j > i \/ j = 0) => m[j] < m[i]
  BY <1>1
<1>4. step \in [D -> [[D -> V] -> V]]
  BY ClausesStepType
<1>5. ASSUME NEW i \in D, NEW g, NEW h, \A j \in D : m[j] < m[i] => g[j] = h[j]
      PROVE  ClausesStep(t, g, i) = ClausesStep(t, h, i)
  <2> DEFINE j == ReadArgument(t, i + 1).next
  <2>1. At(t, i, "reason") => j \in D /\ m[j] < m[i]
    <3>1. At(t, i, "reason") => j \in D /\ i # 0 /\ (j = 0 \/ j > i)
      BY <1>1, ArgumentNext
    <3> QED BY <1>3, <3>1
  <2>2. At(t, i, "reason") => g[j] = h[j]
    BY <1>5, <2>1
  <2> QED BY <2>2 DEF ClausesStep
<1>6. Recursion(N, D, m, V, step)
  <2>1. \A i \in D : \A g, h \in [D -> V] :
          (\A j \in D : m[j] < m[i] => g[j] = h[j]) => step[i][g] = step[i][h]
    BY <1>5
  <2> HIDE DEF N, D, V, m, step
  <2> QED BY <1>1, <1>2, <1>3, <1>4, <2>1 DEF Recursion
<1>7. \A i \in D : \A g \in [D -> V] : step[i][g] = ClausesStep(t, g, i)
  OBVIOUS
<1> HIDE DEF N, D, V, m, step
<1>8. \E f : Good(f)
  <2>1. PICK f \in [D -> V] : \A i \in D : f[i] = step[i][f]
    BY <1>6, RecursionDefined
  <2>2. \A i \in D : f[i] = ClausesStep(t, f, i)
    BY <1>7, <2>1
  <2>3. f = [i \in D |-> f[i]]
    OBVIOUS
  <2> QED BY <2>2, <2>3
<1>9. ClausesFrom(t) = CHOOSE f : Good(f)
  BY Zenon DEF ClausesFrom, ClausesStep, D
<1> DEFINE f == ClausesFrom(t)
<1> HIDE DEF f
<1>10. Good(f)
  <2> HIDE DEF Good
  <2> QED BY <1>8, <1>9, Zenon DEF f
<1>11. \A i \in D : f[i] = ClausesStep(t, f, i)
  BY <1>10
<1>12. f \in [D -> V]
  <2>1. ASSUME NEW i \in D, NEW g \in [D -> V], \A j \in D : m[j] < m[i] => g[j] = f[j]
        PROVE  f[i] = step[i][g]
    <3>1. ClausesStep(t, g, i) = ClausesStep(t, f, i)
      BY <1>5, <2>1
    <3> QED BY <1>7, <1>11, <3>1
  <2>2. f = [i \in D |-> f[i]]
    BY <1>10, <1>11
  <2>3. Follows(f, D, m, V, step)
    BY <2>1, <2>2 DEF Follows
  <2> QED BY <1>6, <2>3, RecursionTyped
<1> QED BY <1>11, <1>12 DEF f, N, D, V

\* Beyond the text no clause is read.
LEMMA ClausesFromBeyond ==
  ASSUME NEW t \in Seq(Symbol)
  PROVE  /\ ClausesFrom(t)[0] = Nothing
         /\ \A i \in 1..(Len(t) + 1) : Beyond(ClausesFrom(t)[i], i)
<1> DEFINE N == Len(t) + 1
           D == 1..N
           f == ClausesFrom(t)
           m == [i \in D |-> Len(t) + 2 - i]
           T == {i \in D : Beyond(f[i], i)}
<1>1. Len(t) \in Nat /\ N \in Nat
  OBVIOUS
<1>2. m \in [D -> 1..N] /\ \A i, j \in D : j > i => m[j] < m[i]
  BY <1>1
<1>3. f[0] = Nothing
  <2>1. f[0] = ClausesStep(t, f, 0)
    BY <1>1, ClausesFromDefined
  <2>2. 0 \notin DOMAIN t
    OBVIOUS
  <2> HIDE DEF f
  <2> QED BY <2>1, <2>2 DEF ClausesStep, At
<1>4. ASSUME NEW i \in D, \A j \in D : m[j] < m[i] => j \in T
      PROVE  i \in T
  <2>1. \A j \in D : j > i => Beyond(f[j], j)
    BY <1>2, <1>4
  <2>2. i \in 0..(Len(t) + 1)
    BY <1>1
  <2>3. f[i] = ClausesStep(t, f, i) /\ f \in [0..(Len(t) + 1) -> Part(t, Seq(Symbol))]
    BY <2>2, ClausesFromDefined
  <2> HIDE DEF f
  <2>4. Beyond(ClausesStep(t, f, i), i)
    BY <1>3, <2>1, <2>2, <2>3, ClausesStepType
  <2> QED BY <2>3, <2>4
<1> HIDE DEF T, D, N, m, f
<1>5. D \subseteq T
  BY <1>1, <1>2, <1>4, ByMeasure
<1> QED BY <1>3, <1>5 DEF T, D, N, f

\* A statement that is read ends after its start and within the text.
LEMMA ReadStatementType ==
  ASSUME NEW t \in Seq(Symbol), NEW i \in Nat, At(t, i, "permit") \/ At(t, i, "forbid")
  PROVE  ReadStatement(t, i) \in Part(t, Seq(Statement)) /\ Beyond(ReadStatement(t, i), i)
<1>1. <<>> \in Seq(Statement) /\ Len(t) \in Nat /\ i + 3 \in Nat /\ i \in Int
  OBVIOUS
<1>2. Nothing \in Part(t, Seq(Statement)) /\ Beyond(Nothing, i)
  BY <1>1, NothingRead
<1>3. t[i] \in {"permit", "forbid"}
  BY DEF At
<1>4. CASE At(t, i + 1, "(") /\ At(t, i + 2, "action")
  <2> DEFINE scope == ReadScope(t, i + 3)
             clauses == ReadClauses(t, scope.next)
  <2>1. /\ scope.next \in 0..(Len(t) + 1) /\ scope.value \in Seq(Symbol)
        /\ scope.next # 0 => scope.next > i + 3
    BY <1>1, ReadScopeType DEF Part, Beyond
  <2> HIDE DEF scope
  <2>2. /\ clauses.next \in 0..(Len(t) + 1) /\ clauses.value \in Seq(Symbol)
        /\ clauses.next # 0 => clauses.next > i
    <3>1. clauses \in Part(t, Seq(Symbol))
      BY <2>1, ClausesFromDefined DEF ReadClauses
    <3>2. clauses.next # 0 => scope.next # 0 /\ clauses.next > scope.next
      <4>1. CASE scope.next = 0
        BY <4>1, ClausesFromBeyond DEF ReadClauses, Nothing
      <4>2. CASE scope.next # 0
        <5>1. scope.next \in 1..(Len(t) + 1)
          BY <1>1, <2>1, <4>2
        <5>2. Beyond(clauses, scope.next)
          BY <5>1, ClausesFromBeyond DEF ReadClauses
        <5> QED BY <4>2, <5>2 DEF Beyond
      <4> QED BY <4>1, <4>2
    <3>3. clauses.next \in 0..(Len(t) + 1) /\ clauses.value \in Seq(Symbol)
      BY <3>1 DEF Part
    <3> HIDE DEF clauses
    <3> QED BY <1>1, <2>1, <3>2, <3>3
  <2>3. ReadStatement(t, i) =
          IF clauses.next = 0 THEN Nothing
          ELSE [next |-> clauses.next,
                value |-> <<[effect |-> t[i], action |-> scope.value, reason |-> clauses.value]>>]
    BY <1>4 DEF ReadStatement, scope
  <2> HIDE DEF clauses
  <2>4. CASE clauses.next = 0
    BY <1>2, <2>3, <2>4
  <2>5. CASE clauses.next # 0
    <3>1. [effect |-> t[i], action |-> scope.value, reason |-> clauses.value] \in Statement
      BY <1>3, <2>1, <2>2 DEF Statement
    <3>2. \A st \in Statement : <<st>> \in Seq(Statement)
      OBVIOUS
    <3> QED BY <2>2, <2>3, <2>5, <3>1, <3>2 DEF Part, Beyond
  <2> QED BY <2>4, <2>5
<1>5. CASE ~(At(t, i + 1, "(") /\ At(t, i + 2, "action"))
  BY <1>2, <1>5 DEF ReadStatement
<1> QED BY <1>4, <1>5
-----------------------------------------------------------------------------
(***************************************************************************)
(* Reading a policy.                                                       *)
(***************************************************************************)
NoPolicy == [name |-> <<>>, description |-> <<>>, statements |-> <<>>]

Annotates(t, i) == At(t, i, "@") /\ (At(t, i + 1, "name") \/ At(t, i + 1, "description"))

States(t, i) == At(t, i, "permit") \/ At(t, i, "forbid")

Annotated(p, key, value) == IF p[key] # <<>> THEN p ELSE [p EXCEPT ![key] = value]

Stated(p, statements) == [p EXCEPT !.statements = statements \o @]

PolicyStep(t, f, i) ==
  IF i > Len(t) THEN {NoPolicy}
  ELSE IF Annotates(t, i) THEN
    {Annotated(p, t[i + 1], ReadArgument(t, i + 2).value) : p \in f[ReadArgument(t, i + 2).next]}
  ELSE IF States(t, i) THEN
    {Stated(p, ReadStatement(t, i).value) : p \in f[ReadStatement(t, i).next]}
  ELSE {}

\* At most one policy.
OnePolicy == {P \in SUBSET Policy : \A p, q \in P : p = q}

\* A policy with an annotation is at most one policy.
LEMMA AnnotatedType ==
  ASSUME NEW p \in Policy, NEW key \in {"name", "description"}, NEW value \in Seq(Symbol)
  PROVE  Annotated(p, key, value) \in Policy
<1>1. CASE key = "name"
  BY <1>1 DEF Annotated, Policy
<1>2. CASE key = "description"
  BY <1>2 DEF Annotated, Policy
<1> QED BY <1>1, <1>2

\* A policy with a statement is at most one policy.
LEMMA StatedType ==
  ASSUME NEW p \in Policy, NEW statements \in Seq(Statement)
  PROVE  Stated(p, statements) \in Policy
<1> DEFINE w == statements \o p.statements
<1>1. w \in Seq(Statement)
  BY DEF Policy
<1>2. Stated(p, statements) = [p EXCEPT !.statements = w]
  BY DEF Stated
<1> HIDE DEF w
<1> QED BY <1>1, <1>2 DEF Policy

\* Where an annotation or a statement goes on.
PolicyNext(t, i) == IF Annotates(t, i) THEN ReadArgument(t, i + 2).next ELSE ReadStatement(t, i).next

\* What a policy reads next lies further on in the text.
LEMMA PolicyNextType ==
  ASSUME NEW t \in Seq(Symbol), NEW i \in 0..(Len(t) + 1), Annotates(t, i) \/ States(t, i)
  PROVE  /\ i # 0 /\ PolicyNext(t, i) \in 0..(Len(t) + 1)
         /\ PolicyNext(t, i) = 0 \/ PolicyNext(t, i) > i
<1>1. i # 0 /\ Len(t) \in Nat
  BY DEF Annotates, States, At
<1>2. CASE Annotates(t, i)
  <2>1. ReadArgument(t, i + 2) \in Part(t, Seq(Symbol)) /\ Beyond(ReadArgument(t, i + 2), i + 2)
    BY ReadArgumentType
  <2>2. PolicyNext(t, i) = ReadArgument(t, i + 2).next
    BY <1>2 DEF PolicyNext
  <2> QED BY <1>1, <2>1, <2>2 DEF Part, Beyond
<1>3. CASE ~Annotates(t, i)
  <2>1. ReadStatement(t, i) \in Part(t, Seq(Statement)) /\ Beyond(ReadStatement(t, i), i)
    BY <1>3, ReadStatementType DEF States
  <2>2. PolicyNext(t, i) = ReadStatement(t, i).next
    BY <1>3 DEF PolicyNext
  <2> QED BY <1>1, <2>1, <2>2 DEF Part, Beyond
<1> QED BY <1>2, <1>3

\* One step of reading a policy yields at most one policy.
LEMMA PolicyStepType ==
  ASSUME NEW t \in Seq(Symbol), NEW i \in 0..(Len(t) + 1), NEW f \in [0..(Len(t) + 1) -> OnePolicy]
  PROVE  PolicyStep(t, f, i) \in OnePolicy
<1>1. CASE i > Len(t)
  <2>1. NoPolicy \in Policy
    BY DEF NoPolicy, Policy
  <2> QED BY <1>1, <2>1 DEF PolicyStep, OnePolicy
<1>2. CASE ~(i > Len(t)) /\ Annotates(t, i)
  <2> DEFINE a == ReadArgument(t, i + 2)
  <2>1. a.next \in 0..(Len(t) + 1) /\ a.value \in Seq(Symbol)
    <3>1. i + 2 \in Int
      OBVIOUS
    <3>2. a \in Part(t, Seq(Symbol))
      BY <3>1, ReadArgumentType
    <3> QED BY <3>2 DEF Part
  <2>2. PolicyStep(t, f, i) = {Annotated(p, t[i + 1], a.value) : p \in f[a.next]}
    BY <1>2 DEF PolicyStep
  <2>3. t[i + 1] \in {"name", "description"}
    BY <1>2 DEF Annotates, At
  <2> HIDE DEF a
  <2>4. f[a.next] \in SUBSET Policy /\ \A p, q \in f[a.next] : p = q
    BY <2>1 DEF OnePolicy
  <2>5. \A p \in f[a.next] : Annotated(p, t[i + 1], a.value) \in Policy
    BY <2>1, <2>3, <2>4, AnnotatedType
  <2> QED BY <2>2, <2>4, <2>5, Zenon DEF OnePolicy
<1>3. CASE ~(i > Len(t)) /\ ~Annotates(t, i) /\ States(t, i)
  <2> DEFINE r == ReadStatement(t, i)
  <2>1. r.next \in 0..(Len(t) + 1) /\ r.value \in Seq(Statement)
    BY <1>3, ReadStatementType DEF Part, States
  <2>2. PolicyStep(t, f, i) = {Stated(p, r.value) : p \in f[r.next]}
    BY <1>3 DEF PolicyStep
  <2> HIDE DEF r
  <2>3. f[r.next] \in SUBSET Policy /\ \A p, q \in f[r.next] : p = q
    BY <2>1 DEF OnePolicy
  <2>4. \A p \in f[r.next] : Stated(p, r.value) \in Policy
    BY <2>1, <2>3, StatedType
  <2> QED BY <2>2, <2>3, <2>4, Zenon DEF OnePolicy
<1>4. CASE ~(i > Len(t)) /\ ~Annotates(t, i) /\ ~States(t, i)
  BY <1>4 DEF PolicyStep, OnePolicy
<1> QED BY <1>1, <1>2, <1>3, <1>4

\* The reader of policies satisfies its own recursion.
LEMMA PolicyFromDefined ==
  ASSUME NEW t \in Seq(Symbol)
  PROVE  /\ PolicyFrom(t) \in [0..(Len(t) + 1) -> OnePolicy]
         /\ \A i \in 0..(Len(t) + 1) : PolicyFrom(t)[i] = PolicyStep(t, PolicyFrom(t), i)
<1> DEFINE N == Len(t) + 2
           D == 0..(Len(t) + 1)
           V == OnePolicy
           m == [i \in D |-> IF i = 0 THEN 1 ELSE Len(t) + 3 - i]
           step == [i \in D |-> [g \in [D -> V] |-> PolicyStep(t, g, i)]]
           Good(f) == f = [i \in D |-> PolicyStep(t, f, i)]
<1>1. Len(t) \in Nat /\ N \in Nat
  OBVIOUS
<1>2. V # {}
  <2>1. {} \in V
    BY DEF OnePolicy
  <2> QED BY <2>1
<1>3. m \in [D -> 1..N] /\ \A i, j \in D : i # 0 /\ (j > i \/ j = 0) => m[j] < m[i]
  BY <1>1
<1>4. step \in [D -> [[D -> V] -> V]]
  BY PolicyStepType
<1>5. ASSUME NEW i \in D, NEW g, NEW h, \A j \in D : m[j] < m[i] => g[j] = h[j]
      PROVE  PolicyStep(t, g, i) = PolicyStep(t, h, i)
  <2> DEFINE j == PolicyNext(t, i)
  <2>1. Annotates(t, i) \/ States(t, i) => j \in D /\ m[j] < m[i]
    <3>1. Annotates(t, i) \/ States(t, i) => j \in D /\ i # 0 /\ (j = 0 \/ j > i)
      BY <1>1, PolicyNextType
    <3> QED BY <1>3, <3>1
  <2>2. Annotates(t, i) \/ States(t, i) => g[j] = h[j]
    BY <1>5, <2>1
  <2> QED BY <2>2 DEF PolicyStep, PolicyNext
<1>6. Recursion(N, D, m, V, step)
  <2>1. \A i \in D : \A g, h \in [D -> V] :
          (\A j \in D : m[j] < m[i] => g[j] = h[j]) => step[i][g] = step[i][h]
    BY <1>5
  <2> HIDE DEF N, D, V, m, step
  <2> QED BY <1>1, <1>2, <1>3, <1>4, <2>1 DEF Recursion
<1>7. \A i \in D : \A g \in [D -> V] : step[i][g] = PolicyStep(t, g, i)
  OBVIOUS
<1> HIDE DEF N, D, V, m, step
<1>8. \E f : Good(f)
  <2>1. PICK f \in [D -> V] : \A i \in D : f[i] = step[i][f]
    BY <1>6, RecursionDefined
  <2>2. \A i \in D : f[i] = PolicyStep(t, f, i)
    BY <1>7, <2>1
  <2>3. f = [i \in D |-> f[i]]
    OBVIOUS
  <2> QED BY <2>2, <2>3
<1>9. PolicyFrom(t) = CHOOSE f : Good(f)
  BY Zenon DEF PolicyFrom, PolicyStep, D, NoPolicy, Annotates, States, Annotated, Stated
<1> DEFINE f == PolicyFrom(t)
<1> HIDE DEF f
<1>10. Good(f)
  <2> HIDE DEF Good
  <2> QED BY <1>8, <1>9, Zenon DEF f
<1>11. \A i \in D : f[i] = PolicyStep(t, f, i)
  BY <1>10
<1>12. f \in [D -> V]
  <2>1. ASSUME NEW i \in D, NEW g \in [D -> V], \A j \in D : m[j] < m[i] => g[j] = f[j]
        PROVE  f[i] = step[i][g]
    <3>1. PolicyStep(t, g, i) = PolicyStep(t, f, i)
      BY <1>5, <2>1
    <3> QED BY <1>7, <1>11, <3>1
  <2>2. f = [i \in D |-> f[i]]
    BY <1>10, <1>11
  <2>3. Follows(f, D, m, V, step)
    BY <2>1, <2>2 DEF Follows
  <2> QED BY <1>6, <2>3, RecursionTyped
<1> QED BY <1>11, <1>12 DEF f, N, D, V

\* A text is at most one policy.
LEMMA ParseType ==
  ASSUME NEW t \in Seq(Symbol)
  PROVE  Parse(t) \in OnePolicy
<1>1. 1 \in 0..(Len(t) + 1)
  OBVIOUS
<1> QED BY <1>1, PolicyFromDefined DEF Parse
-----------------------------------------------------------------------------
(***************************************************************************)
(* What is emitted is read back.                                           *)
(***************************************************************************)
\* u is in t from i on.
Holds(t, i, u) ==
  /\ i \in Nat \ {0} /\ i - 1 + Len(u) <= Len(t)
  /\ \A j \in 1..Len(u) : t[i - 1 + j] = u[j]

\* A text that holds two parts holds each where it lies.
LEMMA HoldsConcat ==
  ASSUME NEW t \in Seq(Symbol), NEW u \in Seq(Symbol), NEW v \in Seq(Symbol), NEW i,
         Holds(t, i, u \o v)
  PROVE  Holds(t, i, u) /\ Holds(t, i + Len(u), v) /\ Len(u \o v) = Len(u) + Len(v)
<1>1. /\ Len(t) \in Nat /\ Len(u) \in Nat /\ Len(v) \in Nat /\ Len(u \o v) = Len(u) + Len(v)
      /\ \A j \in 1..Len(u) : (u \o v)[j] = u[j] /\ j \in 1..Len(u \o v)
      /\ \A j \in 1..Len(v) : (u \o v)[Len(u) + j] = v[j] /\ Len(u) + j \in 1..Len(u \o v)
  OBVIOUS
<1> DEFINE w == u \o v
<1> HIDE DEF w
<1>2. /\ i \in Nat \ {0} /\ i - 1 + Len(w) <= Len(t)
      /\ \A j \in 1..Len(w) : t[i - 1 + j] = w[j]
  BY DEF Holds, w
<1>3. Holds(t, i, u)
  BY <1>1, <1>2 DEF Holds, w
<1>4. Holds(t, i + Len(u), v)
  <2> DEFINE k == i + Len(u)
  <2>1. k \in Nat \ {0} /\ k - 1 + Len(v) <= Len(t)
    BY <1>1, <1>2 DEF w
  <2>2. \A j \in 1..Len(v) : t[i - 1 + (Len(u) + j)] = v[j]
    BY <1>1, <1>2 DEF w
  <2>3. \A j \in 1..Len(v) : i - 1 + (Len(u) + j) = k - 1 + j
    BY <1>1, <1>2
  <2> HIDE DEF k
  <2>4. \A j \in 1..Len(v) : t[k - 1 + j] = v[j]
    BY <2>2, <2>3, Zenon
  <2>5. Holds(t, k, v)
    BY <2>1, <2>4, Zenon DEF Holds
  <2> QED BY <2>5 DEF k
<1> QED BY <1>1, <1>3, <1>4

\* The first symbols of what is held.
LEMMA HoldsAt ==
  ASSUME NEW t \in Seq(Symbol), NEW u \in Seq(Symbol), NEW i, Holds(t, i, u), NEW j \in 1..Len(u)
  PROVE  i - 1 + j \in 1..Len(t) /\ t[i - 1 + j] = u[j] /\ \A c : At(t, i - 1 + j, c) <=> u[j] = c
<1>1. Len(t) \in Nat /\ Len(u) \in Nat /\ DOMAIN t = 1..Len(t)
  OBVIOUS
<1>2. i - 1 + j \in 1..Len(t) /\ t[i - 1 + j] = u[j]
  BY <1>1 DEF Holds
<1> QED BY <1>1, <1>2 DEF At

\* A text holds itself.
LEMMA HoldsAll ==
  ASSUME NEW t \in Seq(Symbol)
  PROVE  Holds(t, 1, t)
BY DEF Holds

\* Where in an escaped string what stands for each of its symbols lies.
Escapes(s, off) ==
  /\ off \in [0..Len(s) -> Nat]
  /\ off[0] = 0
  /\ off[Len(s)] = Len(Escape(s))
  /\ \A k \in 1..Len(s) : s[k] \in Sign =>
       /\ off[k] = off[k - 1] + 2
       /\ off[k - 1] + 1 \in 1..Len(Escape(s)) /\ Escape(s)[off[k - 1] + 1] = Backslash
       /\ off[k - 1] + 2 \in 1..Len(Escape(s)) /\ Escape(s)[off[k - 1] + 2] = s[k]
  /\ \A k \in 1..Len(s) : s[k] \notin Sign =>
       /\ off[k] = off[k - 1] + 1
       /\ off[k - 1] + 1 \in 1..Len(Escape(s)) /\ Escape(s)[off[k - 1] + 1] = s[k]

\* The symbols of an escaped string lie where Escapes says.
LEMMA EscapeProperties ==
  ASSUME NEW s \in Seq(Symbol)
  PROVE  Escape(s) \in Seq(Symbol) /\ \E off : Escapes(s, off)
<1> DEFINE ss == [i \in DOMAIN s |-> IF s[i] \in Sign THEN <<Backslash, s[i]>> ELSE <<s[i]>>]
<1>1. Len(s) \in Nat /\ DOMAIN s = 1..Len(s) /\ \A k \in 1..Len(s) : s[k] \in Symbol
  OBVIOUS
<1>2. ss \in Seq(Seq(Symbol)) /\ Len(ss) = Len(s)
  <2>1. \A a, b \in Symbol : <<a>> \in Seq(Symbol) /\ <<a, b>> \in Seq(Symbol)
    OBVIOUS
  <2>2. ASSUME NEW k \in 1..Len(s)
        PROVE  ss[k] \in Seq(Symbol)
    BY <1>1, <2>1, Signs
  <2>3. ss \in [1..Len(s) -> Seq(Symbol)]
    BY <1>1, <2>2
  <2> HIDE DEF ss
  <2> QED BY <1>1, <2>3
<1>3. Escape(s) = FlattenSeq(ss)
  BY DEF Escape
<1>4. \A k \in 1..Len(s) : ss[k] = IF s[k] \in Sign THEN <<Backslash, s[k]>> ELSE <<s[k]>>
  BY <1>1
<1> HIDE DEF ss
<1>5. PICK off : Lie(ss, FlattenSeq(ss), off)
  BY <1>2, FlattenProperties
<1>6. Escape(s) \in Seq(Symbol)
  BY <1>2, <1>3, FlattenProperties
<1>7. /\ off \in [0..Len(s) -> Nat] /\ off[0] = 0 /\ off[Len(s)] = Len(Escape(s))
      /\ \A k \in 1..Len(s) : off[k] = off[k - 1] + Len(ss[k])
      /\ \A k \in 1..Len(s) : \A j \in 1..Len(ss[k]) :
           off[k - 1] + j \in 1..Len(Escape(s)) /\ Escape(s)[off[k - 1] + j] = ss[k][j]
  BY <1>2, <1>3, <1>5 DEF Lie
<1>8. \A k \in 1..Len(s) : s[k] \in Sign =>
        /\ off[k] = off[k - 1] + 2
        /\ off[k - 1] + 1 \in 1..Len(Escape(s)) /\ Escape(s)[off[k - 1] + 1] = Backslash
        /\ off[k - 1] + 2 \in 1..Len(Escape(s)) /\ Escape(s)[off[k - 1] + 2] = s[k]
  <2> SUFFICES ASSUME NEW k \in 1..Len(s), s[k] \in Sign
               PROVE  /\ off[k] = off[k - 1] + 2
                      /\ off[k - 1] + 1 \in 1..Len(Escape(s))
                      /\ Escape(s)[off[k - 1] + 1] = Backslash
                      /\ off[k - 1] + 2 \in 1..Len(Escape(s))
                      /\ Escape(s)[off[k - 1] + 2] = s[k]
    OBVIOUS
  <2>1. ss[k] = <<Backslash, s[k]>>
    BY <1>4
  <2>2. Len(ss[k]) = 2 /\ 1 \in 1..Len(ss[k]) /\ 2 \in 1..Len(ss[k])
        /\ ss[k][1] = Backslash /\ ss[k][2] = s[k]
    BY <2>1
  <2> QED BY <1>7, <2>2
<1>9. \A k \in 1..Len(s) : s[k] \notin Sign =>
        /\ off[k] = off[k - 1] + 1
        /\ off[k - 1] + 1 \in 1..Len(Escape(s)) /\ Escape(s)[off[k - 1] + 1] = s[k]
  <2> SUFFICES ASSUME NEW k \in 1..Len(s), s[k] \notin Sign
               PROVE  /\ off[k] = off[k - 1] + 1
                      /\ off[k - 1] + 1 \in 1..Len(Escape(s))
                      /\ Escape(s)[off[k - 1] + 1] = s[k]
    OBVIOUS
  <2>1. ss[k] = <<s[k]>>
    BY <1>4
  <2>2. Len(ss[k]) = 1 /\ 1 \in 1..Len(ss[k]) /\ ss[k][1] = s[k]
    BY <2>1
  <2> QED BY <1>7, <2>2
<1>10. Escapes(s, off)
  BY <1>7, <1>8, <1>9 DEF Escapes
<1> QED BY <1>6, <1>10

\* From the k-th symbol of an escaped string on, what is left is read.
LEMMA StringReadBack ==
  ASSUME NEW t \in Seq(Symbol), NEW s \in Seq(Symbol), NEW i, Holds(t, i, Escape(s)),
         Holds(t, i + Len(Escape(s)), <<Quote>>)
  PROVE  StringFrom(t)[i] = [next |-> i + Len(Escape(s)) + 1, value |-> s]
<1> DEFINE n == Len(s)
           e == Escape(s)
           f == StringFrom(t)
           Rest(k) == [next |-> i + Len(e) + 1, value |-> SubSeq(s, k + 1, n)]
<1>1. PICK off : Escapes(s, off)
  BY EscapeProperties
<1> DEFINE T == {k \in 0..n : f[i + off[n - k]] = Rest(n - k)}
<1>2. /\ n \in Nat /\ Len(t) \in Nat /\ e \in Seq(Symbol) /\ Len(e) \in Nat
      /\ \A k \in 1..n : s[k] \in Symbol
  BY EscapeProperties
<1>3. /\ i \in Nat \ {0} /\ i + Len(e) <= Len(t) /\ t[i + Len(e)] = Quote
      /\ \A j \in 1..Len(e) : t[i - 1 + j] = e[j]
  <2>1. i \in Nat \ {0} /\ \A j \in 1..Len(e) : t[i - 1 + j] = e[j]
    BY DEF Holds
  <2>2. i + Len(e) - 1 + 1 <= Len(t) /\ t[i + Len(e) - 1 + 1] = Quote
    BY DEF Holds
  <2>3. i + Len(e) - 1 + 1 = i + Len(e)
    BY <1>2, <2>1
  <2> QED BY <2>1, <2>2, <2>3
<1> HIDE DEF e
<1>4. \A j \in 1..(Len(t) + 1) : f[j] = StringStep(t, f, j)
  BY StringFromDefined
<1> HIDE DEF f
<1>5. 0 \in T
  <2>1. n - 0 = n /\ 0 \in 0..n /\ off[n] = Len(e) /\ i + Len(e) \in 1..Len(t)
    BY <1>1, <1>2, <1>3 DEF Escapes, e
  <2>2. f[i + Len(e)] = [next |-> i + Len(e) + 1, value |-> <<>>]
    <3>1. f[i + Len(e)] = StringStep(t, f, i + Len(e))
      BY <1>2, <1>4, <2>1
    <3> QED BY <1>2, <1>3, <2>1, <3>1 DEF StringStep
  <2>3. SubSeq(s, n + 1, n) = <<>>
    BY <1>2, SubSeqEmpty
  <2> QED BY <2>1, <2>2, <2>3
<1>6. ASSUME NEW k \in 1..n, k - 1 \in T
      PROVE  k \in T
  <2> DEFINE m == n - k + 1
             o == off[n - k]
             p == i + o
  <2>1. /\ m \in 1..n /\ m - 1 = n - k /\ n - (k - 1) = m /\ n - k \in 0..n /\ k \in 0..n
        /\ s[m] \in Symbol
    BY <1>2
  <2>2. o \in Nat /\ off[m - 1] = o
    BY <1>1, <2>1 DEF Escapes
  <2>3. f[i + off[m]] = [next |-> i + Len(e) + 1, value |-> SubSeq(s, m + 1, n)]
    BY <1>6, <2>1
  <2>4. <<s[m]>> \o SubSeq(s, m + 1, n) = SubSeq(s, m, n)
    <3>1. n \in m..Len(s)
      BY <1>2, <2>1
    <3> QED BY <2>1, <3>1, SubSeqRecursiveFirst
  <2>5. SUFFICES f[p] = [next |-> i + Len(e) + 1, value |-> SubSeq(s, m, n)]
    BY <2>1
  <2>6. /\ s[m] \in Sign =>
             /\ off[m] = o + 2
             /\ o + 1 \in 1..Len(e) /\ e[o + 1] = Backslash
             /\ o + 2 \in 1..Len(e) /\ e[o + 2] = s[m]
        /\ s[m] \notin Sign => off[m] = o + 1 /\ o + 1 \in 1..Len(e) /\ e[o + 1] = s[m]
    <3>1. \A x \in 1..n :
            LET w == off[x - 1]
            IN /\ s[x] \in Sign =>
                    /\ off[x] = w + 2
                    /\ w + 1 \in 1..Len(e) /\ e[w + 1] = Backslash
                    /\ w + 2 \in 1..Len(e) /\ e[w + 2] = s[x]
               /\ s[x] \notin Sign =>
                    off[x] = w + 1 /\ w + 1 \in 1..Len(e) /\ e[w + 1] = s[x]
      BY <1>1, Zenon DEF Escapes, e
    <3> HIDE DEF m, o
    <3> QED BY <2>1, <2>2, <3>1, Zenon
  <2> HIDE DEF m, o
  <2>7. p \in 1..Len(t) /\ t[p] = e[o + 1] /\ p \in Int
    <3>1. o + 1 \in 1..Len(e)
      BY <2>6
    <3>2. t[i - 1 + (o + 1)] = e[o + 1]
      BY <1>3, <3>1
    <3>3. i - 1 + (o + 1) = p
      BY <1>3, <2>2
    <3>4. p \in 1..Len(t) /\ p \in Int
      BY <1>2, <1>3, <2>2, <3>1
    <3> QED BY <3>2, <3>3, <3>4, Zenon
  <2>8. f[p] = StringStep(t, f, p)
    BY <1>2, <1>4, <2>7
  <2> DEFINE q == SubSeq(s, m + 1, n)
             r == [next |-> i + Len(e) + 1, value |-> q]
  <2> HIDE DEF q
  <2>9. Onto(<<s[m]>>, r) = [next |-> i + Len(e) + 1, value |-> <<s[m]>> \o q]
    <3>1. r.next # 0
      BY <1>2, <1>3
    <3> QED BY <3>1 DEF Onto
  <2>10. CASE s[m] \in Sign
    <3>1. t[p + 1] = s[m] /\ p < Len(t) /\ p + 2 = i + off[m]
      <4>1. o + 2 \in 1..Len(e) /\ e[o + 2] = s[m] /\ off[m] = o + 2
        BY <2>6, <2>10
      <4>2. t[i - 1 + (o + 2)] = s[m]
        BY <1>3, <4>1
      <4>3. i - 1 + (o + 2) = p + 1 /\ p + 2 = i + (o + 2)
        BY <1>3, <2>2
      <4> QED BY <1>2, <1>3, <2>2, <4>1, <4>2, <4>3
    <3>2. t[p] = Backslash
      BY <2>6, <2>7, <2>10
    <3> HIDE DEF p, r
    <3>3. f[p] = Onto(Unescaped(t[p + 1]), f[p + 2])
      BY <1>2, <2>7, <2>8, <3>1, <3>2, Signs DEF StringStep
    <3>4. Unescaped(t[p + 1]) = <<s[m]>>
      BY <2>10, <3>1 DEF Unescaped
    <3>5. f[p + 2] = r
      BY <2>3, <3>1 DEF r, q
    <3> QED BY <2>4, <2>9, <3>3, <3>4, <3>5 DEF q
  <2>11. CASE s[m] \notin Sign
    <3>1. t[p] = s[m] /\ p + 1 = i + off[m]
      <4>1. off[m] = o + 1 /\ e[o + 1] = s[m]
        BY <2>6, <2>11
      <4> QED BY <1>3, <2>2, <2>7, <4>1
    <3>2. t[p] # Quote /\ t[p] # Backslash
      BY <2>11, <3>1 DEF Sign
    <3> HIDE DEF p, r
    <3>3. f[p] = Onto(<<t[p]>>, f[p + 1])
      BY <1>2, <2>7, <2>8, <3>2 DEF StringStep
    <3>4. f[p + 1] = r
      BY <2>3, <3>1 DEF r, q
    <3> QED BY <2>4, <2>9, <3>1, <3>3, <3>4 DEF q
  <2> QED BY <2>10, <2>11
<1> HIDE DEF T
<1>7. n \in T
  <2>1. 0..n \subseteq T
    BY <1>2, <1>5, <1>6, UpTo
  <2> QED BY <1>2, <2>1
<1>8. f[i + off[0]] = [next |-> i + Len(e) + 1, value |-> SubSeq(s, 0 + 1, n)]
  <2>1. n - n = 0
    BY <1>2
  <2> QED BY <1>7, <2>1 DEF T
<1>9. i + off[0] = i /\ SubSeq(s, 0 + 1, n) = s
  <2>1. i + off[0] = i
    BY <1>1, <1>3 DEF Escapes
  <2>2. SubSeq(s, 1, n) = s
    BY SubSeqFull
  <2> QED BY <2>1, <2>2
<1> QED BY <1>8, <1>9 DEF f, e

\* A symbol and what follows it.
LEMMA HoldsHead ==
  ASSUME NEW t \in Seq(Symbol), NEW c \in Symbol, NEW v \in Seq(Symbol), NEW i,
         Holds(t, i, <<c>> \o v)
  PROVE  /\ i \in Nat \ {0} /\ t[i] = c /\ \A x : At(t, i, x) <=> x = c
         /\ Holds(t, i + 1, v)
         /\ <<c>> \o v \in Seq(Symbol) /\ Len(<<c>> \o v) = 1 + Len(v) /\ Len(v) \in Nat
<1> DEFINE u == <<c>>
<1>0. u \in Seq(Symbol)
  OBVIOUS
<1>1. Len(u) = 1 /\ u[1] = c /\ 1 \in 1..Len(u) /\ Len(v) \in Nat
  OBVIOUS
<1> HIDE DEF u
<1>2. Holds(t, i, u) /\ Holds(t, i + Len(u), v) /\ Len(u \o v) = Len(u) + Len(v)
  <2>1. Holds(t, i, u \o v)
    BY DEF u
  <2> QED BY <1>0, <2>1, HoldsConcat
<1>3. i \in Nat \ {0} /\ i - 1 + 1 = i
  BY <1>2 DEF Holds
<1>4. t[i - 1 + 1] = u[1] /\ \A x : At(t, i - 1 + 1, x) <=> u[1] = x
  BY <1>0, <1>1, <1>2, HoldsAt
<1>5. u \o v \in Seq(Symbol)
  BY <1>0
<1>6. Holds(t, i + 1, v) /\ Len(u \o v) = 1 + Len(v)
  BY <1>1, <1>2
<1>7. t[i] = c /\ \A x : At(t, i, x) <=> x = c
  BY <1>1, <1>3, <1>4
<1> QED BY <1>1, <1>3, <1>5, <1>6, <1>7 DEF u

\* What comes before a symbol, and the symbol.
LEMMA HoldsLast ==
  ASSUME NEW t \in Seq(Symbol), NEW u \in Seq(Symbol), NEW c \in Symbol, NEW i,
         Holds(t, i, u \o <<c>>)
  PROVE  /\ i \in Nat \ {0} /\ Holds(t, i, u)
         /\ Holds(t, i + Len(u), <<c>>) /\ \A x : At(t, i + Len(u), x) <=> x = c
         /\ u \o <<c>> \in Seq(Symbol) /\ Len(u \o <<c>>) = Len(u) + 1 /\ Len(u) \in Nat
<1> DEFINE v == <<c>>
<1>0. v \in Seq(Symbol)
  OBVIOUS
<1>1. Len(v) = 1 /\ v[1] = c /\ 1 \in 1..Len(v) /\ Len(u) \in Nat
  OBVIOUS
<1> HIDE DEF v
<1>2. Holds(t, i, u) /\ Holds(t, i + Len(u), v) /\ Len(u \o v) = Len(u) + Len(v)
  <2>1. Holds(t, i, u \o v)
    BY DEF v
  <2> QED BY <1>0, <2>1, HoldsConcat
<1> DEFINE k == i + Len(u)
<1>3. i \in Nat \ {0} /\ k - 1 + 1 = k
  BY <1>1, <1>2 DEF Holds
<1>4. \A x : At(t, k - 1 + 1, x) <=> v[1] = x
  <2>1. Holds(t, k, v) /\ 1 \in 1..Len(v)
    BY <1>1, <1>2
  <2> HIDE DEF k
  <2> QED BY <1>0, <2>1, HoldsAt
<1>5. u \o v \in Seq(Symbol)
  BY <1>0
<1>6. \A x : At(t, i + Len(u), x) <=> x = c
  BY <1>1, <1>3, <1>4
<1>7. Len(u \o v) = Len(u) + 1
  BY <1>1, <1>2
<1> QED BY <1>1, <1>2, <1>3, <1>5, <1>6, <1>7 DEF v

\* A literal is text.
LEMMA LiteralType ==
  ASSUME NEW s \in Seq(Symbol)
  PROVE  Literal(s) \in Seq(Symbol)
<1> DEFINE e == Escape(s)
<1>1. e \in Seq(Symbol)
  BY EscapeProperties
<1> HIDE DEF e
<1>2. (<<Quote>> \o e) \o <<Quote>> \in Seq(Symbol)
  BY <1>1, Signs
<1> QED BY <1>2 DEF Literal, e

\* A literal is read back as its string.
LEMMA LiteralReadBack ==
  ASSUME NEW t \in Seq(Symbol), NEW s \in Seq(Symbol), NEW i, Holds(t, i, Literal(s))
  PROVE  ReadString(t, i) = [next |-> i + Len(Literal(s)), value |-> s]
<1> DEFINE e == Escape(s)
           qe == <<Quote>> \o e
<1>1. e \in Seq(Symbol) /\ Quote \in Symbol
  BY EscapeProperties, Signs
<1> HIDE DEF e
<1>2. qe \in Seq(Symbol)
  BY <1>1
<1>3. Literal(s) = qe \o <<Quote>>
  BY DEF Literal, e
<1>4. Holds(t, i, qe \o <<Quote>>)
  BY <1>3
<1> HIDE DEF qe
<1>5. /\ i \in Nat \ {0} /\ Holds(t, i, qe) /\ Holds(t, i + Len(qe), <<Quote>>)
      /\ Len(qe \o <<Quote>>) = Len(qe) + 1
  BY <1>1, <1>2, <1>4, HoldsLast
<1>6. /\ \A x : At(t, i, x) <=> x = Quote
      /\ Holds(t, i + 1, e) /\ Len(qe) = 1 + Len(e) /\ Len(e) \in Nat
  <2>1. Holds(t, i, <<Quote>> \o e)
    BY <1>5 DEF qe
  <2> QED BY <1>1, <2>1, HoldsHead DEF qe
<1>7. i + Len(qe) = (i + 1) + Len(e)
  BY <1>5, <1>6
<1>8. StringFrom(t)[i + 1] = [next |-> (i + 1) + Len(e) + 1, value |-> s]
  <2>1. Holds(t, (i + 1) + Len(e), <<Quote>>)
    BY <1>5, <1>7
  <2>2. Holds(t, i + 1, Escape(s)) /\ Holds(t, (i + 1) + Len(Escape(s)), <<Quote>>)
    BY <1>6, <2>1, Zenon DEF e
  <2> DEFINE k == i + 1
             x == Escape(s)
  <2>3. Holds(t, k, x) /\ Holds(t, k + Len(x), <<Quote>>)
    BY <2>2
  <2> HIDE DEF k
  <2>4. StringFrom(t)[k] = [next |-> k + Len(x) + 1, value |-> s]
    BY <2>3, StringReadBack, Zenon
  <2> QED BY <2>4, Zenon DEF e, k
<1>9. (i + 1) + Len(e) + 1 = i + Len(Literal(s))
  <2>1. Len(Literal(s)) = Len(qe) + 1
    BY <1>3, <1>5, Zenon
  <2> QED BY <1>5, <1>6, <2>1
<1> QED BY <1>6, <1>8, <1>9 DEF ReadString

\* A string and the bracket that closes it.
LEMMA ClosedReadBack ==
  ASSUME NEW t \in Seq(Symbol), NEW s \in Seq(Symbol), NEW i, Holds(t, i, Literal(s)),
         At(t, i + Len(Literal(s)), ")")
  PROVE  Closed(t, ReadString(t, i)) = [next |-> i + Len(Literal(s)) + 1, value |-> s]
<1> DEFINE r == ReadString(t, i)
           k == i + Len(Literal(s))
<1>1. r = [next |-> k, value |-> s] /\ At(t, k, ")")
  BY LiteralReadBack
<1> HIDE DEF r, k
<1>2. Closed(t, r) = [next |-> k + 1, value |-> s]
  BY <1>1 DEF Closed
<1> QED BY <1>2 DEF r, k

\* A bracketed literal is text.
LEMMA BracketedType ==
  ASSUME NEW s \in Seq(Symbol)
  PROVE  Bracketed(s) \in Seq(Symbol) /\ Len(Bracketed(s)) \in Nat \ {0}
<1> DEFINE l == Literal(s)
<1>1. l \in Seq(Symbol) /\ <<"(">> \in Seq(Symbol) /\ <<")">> \in Seq(Symbol)
  <2>1. "(" \in Symbol /\ ")" \in Symbol
    BY SyntaxSymbols DEF Syntax
  <2>2. l \in Seq(Symbol)
    BY LiteralType
  <2> QED BY <2>1, <2>2
<1> HIDE DEF l
<1>2. (<<"(">> \o l) \o <<")">> \in Seq(Symbol) /\ Len((<<"(">> \o l) \o <<")">>) \in Nat \ {0}
  BY <1>1
<1> QED BY <1>2 DEF Bracketed, l

\* A bracketed literal is read back as its string.
LEMMA ArgumentReadBack ==
  ASSUME NEW t \in Seq(Symbol), NEW s \in Seq(Symbol), NEW i, Holds(t, i, Bracketed(s))
  PROVE  ReadArgument(t, i) = [next |-> i + Len(Bracketed(s)), value |-> s] /\ i \in Nat \ {0}
<1> DEFINE l == Literal(s)
           b == <<"(">> \o l
<1>1. l \in Seq(Symbol)
  BY LiteralType
<1>2. "(" \in Symbol /\ ")" \in Symbol
  BY SyntaxSymbols DEF Syntax
<1>3. Bracketed(s) = b \o <<")">>
  BY DEF Bracketed
<1> HIDE DEF l
<1>4. b \in Seq(Symbol)
  BY <1>1, <1>2
<1>5. Holds(t, i, b \o <<")">>)
  BY <1>3
<1> HIDE DEF b
<1>6. /\ i \in Nat \ {0} /\ Holds(t, i, b) /\ \A x : At(t, i + Len(b), x) <=> x = ")"
      /\ Len(b \o <<")">>) = Len(b) + 1
  BY <1>2, <1>4, <1>5, HoldsLast
<1>7. /\ \A x : At(t, i, x) <=> x = "("
      /\ Holds(t, i + 1, l) /\ Len(b) = 1 + Len(l) /\ Len(l) \in Nat
  <2>1. Holds(t, i, <<"(">> \o l)
    BY <1>6 DEF b
  <2> QED BY <1>1, <1>2, <2>1, HoldsHead DEF b
<1>8. i + Len(b) = i + 1 + Len(l)
  BY <1>6, <1>7
<1>9. Closed(t, ReadString(t, i + 1)) = [next |-> i + 1 + Len(l) + 1, value |-> s]
  <2>1. At(t, i + 1 + Len(l), ")")
    BY <1>6, <1>8
  <2> QED BY <1>7, <2>1, ClosedReadBack DEF l
<1>10. i + 1 + Len(l) + 1 = i + Len(Bracketed(s))
  <2>1. Len(Bracketed(s)) = Len(b) + 1
    BY <1>3, <1>6, Zenon
  <2> QED BY <1>6, <1>7, <2>1
<1> QED BY <1>6, <1>7, <1>9, <1>10 DEF ReadArgument

\* A clause is text.
LEMMA ClauseType ==
  ASSUME NEW reason \in Seq(Symbol)
  PROVE  Clause(reason) \in Seq(Symbol) /\ Len(Clause(reason)) \in Nat
<1> DEFINE b == Bracketed(reason)
<1>1. b \in Seq(Symbol) /\ "reason" \in Symbol
  BY BracketedType, SyntaxSymbols DEF Syntax
<1> HIDE DEF b
<1>2. <<"reason">> \o b \in Seq(Symbol) /\ <<>> \in Seq(Symbol)
  BY <1>1
<1>3. Clause(reason) \in Seq(Symbol)
  BY <1>2, Zenon DEF Clause, b
<1> DEFINE c == Clause(reason)
<1> HIDE DEF c
<1>4. c \in Seq(Symbol) => Len(c) \in Nat
  OBVIOUS
<1> QED BY <1>3, <1>4 DEF c

\* What is at i lies in the text and is one symbol.
LEMMA InText ==
  ASSUME NEW t \in Seq(Symbol), NEW i, NEW c, At(t, i, c)
  PROVE  /\ i \in 1..Len(t) /\ i \in 0..(Len(t) + 1) /\ i \in Nat \ {0} /\ t[i] = c
         /\ \A x : At(t, i, x) => x = c
<1>1. DOMAIN t = 1..Len(t) /\ Len(t) \in Nat
  OBVIOUS
<1> QED BY <1>1 DEF At

\* Where the clauses end.
LEMMA ClausesEnd ==
  ASSUME NEW t \in Seq(Symbol), NEW n \in Nat, At(t, n, Semicolon)
  PROVE  ClausesFrom(t)[n] = [next |-> n + 1, value |-> <<>>]
<1>1. n \in 0..(Len(t) + 1)
  BY InText
<1>2. ClausesFrom(t)[n] = ClausesStep(t, ClausesFrom(t), n)
  BY <1>1, ClausesFromDefined
<1> QED BY <1>2 DEF ClausesStep, NoReason

\* After a reason the clauses are read on.
LEMMA ClausesGoOn ==
  ASSUME NEW t \in Seq(Symbol), NEW i \in Nat, NEW n \in Nat, NEW reason, At(t, i, "reason"),
         ReadArgument(t, i + 1) = [next |-> n, value |-> reason], At(t, n, Semicolon)
  PROVE  ClausesFrom(t)[i] = [next |-> n + 1, value |-> reason]
<1> DEFINE f == ClausesFrom(t)
<1>0. "reason" # Semicolon
  BY Zenon DEF Semicolon
<1>1. i \in 0..(Len(t) + 1) /\ ~At(t, i, Semicolon)
  BY <1>0, InText, Zenon
<1>2. f[i] = ClausesStep(t, f, i)
  BY <1>1, ClausesFromDefined
<1>3. f[n] = [next |-> n + 1, value |-> <<>>]
  BY ClausesEnd
<1> HIDE DEF f
<1>4. f[i] = Reasoned(reason, f[n])
  <2> DEFINE a == ReadArgument(t, i + 1)
  <2>1. f[i] = Reasoned(a.value, f[a.next])
    BY <1>1, <1>2, Zenon DEF ClausesStep
  <2>2. a.value = reason /\ a.next = n
    OBVIOUS
  <2> HIDE DEF a
  <2> QED BY <2>1, <2>2
<1>5. n + 1 # 0
  OBVIOUS
<1>6. f[i] = [next |-> n + 1, value |-> reason]
  BY <1>3, <1>4, <1>5 DEF Reasoned, NoReason
<1> QED BY <1>6 DEF f

\* The clause of a statement is read back as its reason.
LEMMA ClausesReadBack ==
  ASSUME NEW t \in Seq(Symbol), NEW reason \in Seq(Symbol), NEW i \in Nat,
         Holds(t, i, Clause(reason)), At(t, i + Len(Clause(reason)), Semicolon)
  PROVE  ReadClauses(t, i) = [next |-> i + Len(Clause(reason)) + 1, value |-> reason]
<1>2. CASE reason = <<>>
  <2>1. Clause(reason) = <<>>
    BY <1>2 DEF Clause, NoReason
  <2>2. i + Len(Clause(reason)) = i
    <3>1. Len(<<>>) = 0
      OBVIOUS
    <3>2. i + 0 = i
      OBVIOUS
    <3> QED BY <2>1, <3>1, <3>2, Zenon
  <2>3. At(t, i, Semicolon)
    BY <2>2, Zenon
  <2>4. ClausesFrom(t)[i] = [next |-> i + 1, value |-> <<>>]
    BY <2>3, ClausesEnd
  <2> QED BY <1>2, <2>2, <2>4, Zenon DEF ReadClauses
<1>3. CASE reason # <<>>
  <2> DEFINE b == Bracketed(reason)
             n == i + Len(Clause(reason))
  <2>1. Clause(reason) = <<"reason">> \o b
    BY <1>3 DEF Clause, NoReason
  <2>2. b \in Seq(Symbol) /\ "reason" \in Symbol
    BY BracketedType, SyntaxSymbols DEF Syntax
  <2> HIDE DEF b
  <2>3. Holds(t, i, <<"reason">> \o b)
    BY <2>1, Zenon
  <2>4. /\ At(t, i, "reason") /\ Holds(t, i + 1, b)
        /\ Len(<<"reason">> \o b) = 1 + Len(b) /\ Len(b) \in Nat
    BY <2>2, <2>3, HoldsHead
  <2>5. n = i + (1 + Len(b))
    BY <2>1, <2>4, Zenon
  <2>6. n = i + 1 + Len(b) /\ n \in Nat
    <3> DEFINE k == Len(b)
    <3>1. k \in Nat /\ n = i + (1 + k)
      BY <2>4, <2>5
    <3> HIDE DEF k, n
    <3>2. n = i + 1 + k /\ n \in Nat
      BY <3>1
    <3> QED BY <3>2 DEF k
  <2>7. ReadArgument(t, i + 1) = [next |-> i + 1 + Len(b), value |-> reason]
    BY <2>4, ArgumentReadBack DEF b
  <2>8. ReadArgument(t, i + 1) = [next |-> n, value |-> reason]
    BY <2>6, <2>7, Zenon
  <2>9. At(t, n, Semicolon)
    BY Zenon
  <2> HIDE DEF n
  <2>10. ClausesFrom(t)[i] = [next |-> n + 1, value |-> reason]
    BY <2>4, <2>6, <2>8, <2>9, ClausesGoOn
  <2> QED BY <2>10, Zenon DEF ReadClauses, n
<1> QED BY <1>2, <1>3

\* The parts of a statement, one after the other.
LEMMA StatementParts ==
  ASSUME NEW t \in Seq(Symbol), NEW a \in Seq(Symbol), NEW l \in Seq(Symbol), NEW c \in Seq(Symbol),
         NEW p \in Symbol, NEW q \in Symbol, NEW i \in Nat,
         Holds(t, i, a \o l \o <<p>> \o c \o <<q>>)
  PROVE  /\ Holds(t, i, a) /\ Holds(t, i + Len(a), l)
         /\ At(t, i + Len(a) + Len(l), p)
         /\ Holds(t, i + Len(a) + Len(l) + 1, c)
         /\ At(t, i + Len(a) + Len(l) + 1 + Len(c), q)
         /\ Len(a \o l \o <<p>> \o c \o <<q>>) = Len(a) + Len(l) + 1 + Len(c) + 1
         /\ a \o l \o <<p>> \o c \o <<q>> \in Seq(Symbol)
<1>0. Len(a) \in Nat /\ Len(l) \in Nat /\ Len(c) \in Nat
  OBVIOUS
<1> DEFINE u1 == a \o l
<1>1. u1 \in Seq(Symbol)
  OBVIOUS
<1> DEFINE u2 == u1 \o <<p>>
<1>2. u2 \in Seq(Symbol)
  <2> HIDE DEF u1
  <2> QED BY <1>1
<1> DEFINE u3 == u2 \o c
<1>3. u3 \in Seq(Symbol)
  <2> HIDE DEF u2
  <2> QED BY <1>2
<1> HIDE DEF u1, u2, u3
<1>4. Holds(t, i, u3 \o <<q>>)
  BY DEF u1, u2, u3
<1>5. /\ Holds(t, i, u3) /\ \A x : At(t, i + Len(u3), x) <=> x = q
      /\ u3 \o <<q>> \in Seq(Symbol) /\ Len(u3 \o <<q>>) = Len(u3) + 1
  BY <1>3, <1>4, HoldsLast
<1>6. Holds(t, i, u2) /\ Holds(t, i + Len(u2), c) /\ Len(u3) = Len(u2) + Len(c)
  <2>1. Holds(t, i, u2 \o c)
    BY <1>5 DEF u3
  <2> QED BY <1>2, <2>1, HoldsConcat DEF u3
<1>7. /\ Holds(t, i, u1) /\ \A x : At(t, i + Len(u1), x) <=> x = p
      /\ Len(u2) = Len(u1) + 1
  <2>1. Holds(t, i, u1 \o <<p>>)
    BY <1>6 DEF u2
  <2> QED BY <1>1, <2>1, HoldsLast DEF u2
<1>8. Holds(t, i, a) /\ Holds(t, i + Len(a), l) /\ Len(u1) = Len(a) + Len(l)
  <2>1. Holds(t, i, a \o l)
    BY <1>7 DEF u1
  <2> QED BY <2>1, HoldsConcat DEF u1
<1> DEFINE la == Len(a)
           ll == Len(l)
           lc == Len(c)
           l1 == Len(u1)
           l2 == Len(u2)
           l3 == Len(u3)
<1>9. /\ la \in Nat /\ ll \in Nat /\ lc \in Nat
      /\ l1 = la + ll /\ l2 = l1 + 1 /\ l3 = l2 + lc
  BY <1>0, <1>6, <1>7, <1>8
<1>10. /\ i + l1 = i + la + ll /\ i + l2 = i + la + ll + 1 /\ i + l3 = i + la + ll + 1 + lc
       /\ l3 + 1 = la + ll + 1 + lc + 1
  <2> HIDE DEF la, ll, lc, l1, l2, l3
  <2> QED BY <1>9
<1>11. At(t, i + Len(a) + Len(l), p)
  BY <1>7, <1>10, Zenon
<1>12. Holds(t, i + Len(a) + Len(l) + 1, c)
  BY <1>6, <1>10, Zenon
<1>13. At(t, i + Len(a) + Len(l) + 1 + Len(c), q)
  BY <1>5, <1>10, Zenon
<1>14. u3 \o <<q>> = a \o l \o <<p>> \o c \o <<q>>
  BY DEF u1, u2, u3
<1>15. /\ Len(a \o l \o <<p>> \o c \o <<q>>) = Len(a) + Len(l) + 1 + Len(c) + 1
       /\ a \o l \o <<p>> \o c \o <<q>> \in Seq(Symbol)
  BY <1>5, <1>10, <1>14, Zenon
<1> QED BY <1>8, <1>11, <1>12, <1>13, <1>15

\* An emitted statement is read back as the statement.
LEMMA StatementReadBack ==
  ASSUME NEW t \in Seq(Symbol), NEW st \in Statement, NEW i \in Nat, Holds(t, i, EmitStatement(st))
  PROVE  /\ States(t, i) /\ ~Annotates(t, i)
         /\ ReadStatement(t, i) = [next |-> i + Len(EmitStatement(st)), value |-> <<st>>]
<1> DEFINE a == <<st.effect, "(", "action", "==">>
           l == Literal(st.action)
           c == Clause(st.reason)
<1>1. st.effect \in {"permit", "forbid"} /\ st.action \in Seq(Symbol) /\ st.reason \in Seq(Symbol)
  BY DEF Statement
<1>2. /\ l \in Seq(Symbol) /\ c \in Seq(Symbol)
      /\ Len(l) \in Nat /\ Len(c) \in Nat
  <2>1. l \in Seq(Symbol) /\ c \in Seq(Symbol)
    BY <1>1, LiteralType, ClauseType
  <2> HIDE DEF l, c
  <2> QED BY <2>1
<1>3. \A x \in {"permit", "forbid", "(", ")", "action", "==", Semicolon} : x \in Symbol
  BY SyntaxSymbols DEF Syntax
<1>4. /\ a \in Seq(Symbol) /\ Len(a) = 4
      /\ a[1] = st.effect /\ a[2] = "(" /\ a[3] = "action" /\ a[4] = "=="
  BY <1>1, <1>3
<1>5. Holds(t, i, a \o l \o <<")">> \o c \o <<Semicolon>>)
  BY Zenon DEF EmitStatement
<1> HIDE DEF a, l, c
<1>6. /\ Holds(t, i, a) /\ Holds(t, i + Len(a), l)
      /\ At(t, i + Len(a) + Len(l), ")")
      /\ Holds(t, i + Len(a) + Len(l) + 1, c)
      /\ At(t, i + Len(a) + Len(l) + 1 + Len(c), Semicolon)
      /\ Len(a \o l \o <<")">> \o c \o <<Semicolon>>) = Len(a) + Len(l) + 1 + Len(c) + 1
  <2>1. a \in Seq(Symbol) /\ ")" \in Symbol /\ Semicolon \in Symbol
    BY <1>3, <1>4
  <2> QED BY <1>2, <1>5, <2>1, StatementParts
<1>7. /\ t[i] = st.effect /\ At(t, i, st.effect)
      /\ At(t, i + 1, "(") /\ At(t, i + 2, "action") /\ At(t, i + 3, "==")
  <2>1. \A j \in 1..4 : t[i - 1 + j] = a[j] /\ \A x : At(t, i - 1 + j, x) <=> a[j] = x
    <3>1. a \in Seq(Symbol) /\ Holds(t, i, a)
      BY <1>4, <1>6
    <3>2. \A j \in 1..Len(a) : t[i - 1 + j] = a[j] /\ \A x : At(t, i - 1 + j, x) <=> a[j] = x
      BY <3>1, HoldsAt
    <3> QED BY <1>4, <3>2, Zenon
  <2>2. i - 1 + 1 = i /\ i - 1 + 2 = i + 1 /\ i - 1 + 3 = i + 2 /\ i - 1 + 4 = i + 3
    OBVIOUS
  <2>3. 1 \in 1..4 /\ 2 \in 1..4 /\ 3 \in 1..4 /\ 4 \in 1..4
    OBVIOUS
  <2> DEFINE at(j) == i - 1 + j
  <2>4. \A j \in 1..4 : t[at(j)] = a[j] /\ \A x : At(t, at(j), x) <=> a[j] = x
    BY <2>1
  <2>5. at(1) = i /\ at(2) = i + 1 /\ at(3) = i + 2 /\ at(4) = i + 3
    BY <2>2
  <2> HIDE DEF at
  <2>6. t[i] = a[1] /\ \A x : At(t, i, x) <=> a[1] = x
    BY <2>3, <2>4, <2>5
  <2>7. \A x : At(t, i + 1, x) <=> a[2] = x
    BY <2>3, <2>4, <2>5
  <2>8. \A x : At(t, i + 2, x) <=> a[3] = x
    BY <2>3, <2>4, <2>5
  <2>9. \A x : At(t, i + 3, x) <=> a[4] = x
    BY <2>3, <2>4, <2>5
  <2> QED BY <1>4, <2>6, <2>7, <2>8, <2>9, Zenon
<1> DEFINE k == i + 4 + Len(l)
           n == k + 1 + Len(c)
<1>8. /\ k \in Nat /\ n \in Nat /\ i + Len(a) = i + 4
      /\ i + Len(a) + Len(l) = k /\ i + Len(a) + Len(l) + 1 = k + 1
      /\ i + Len(a) + Len(l) + 1 + Len(c) = n
      /\ i + (Len(a) + Len(l) + 1 + Len(c) + 1) = n + 1
  <2> DEFINE la == Len(a)
             ll == Len(l)
             lc == Len(c)
  <2>1. la = 4 /\ ll \in Nat /\ lc \in Nat
    BY <1>2, <1>4
  <2> HIDE DEF la, ll, lc
  <2>2. /\ i + 4 + ll \in Nat /\ i + 4 + ll + 1 + lc \in Nat /\ i + la = i + 4
        /\ i + la + ll = i + 4 + ll /\ i + la + ll + 1 = i + 4 + ll + 1
        /\ i + la + ll + 1 + lc = i + 4 + ll + 1 + lc
        /\ i + (la + ll + 1 + lc + 1) = i + 4 + ll + 1 + lc + 1
    BY <2>1
  <2> QED BY <2>2, Zenon DEF la, ll, lc
<1>9. Holds(t, i + 4, l) /\ At(t, k, ")") /\ Holds(t, k + 1, c) /\ At(t, n, Semicolon)
  BY <1>6, <1>8, Zenon
<1>10. ReadScope(t, i + 3) = [next |-> k + 1, value |-> st.action]
  <2>1. Closed(t, ReadString(t, i + 4)) = [next |-> i + 4 + Len(Literal(st.action)) + 1, value |-> st.action]
    BY <1>1, <1>9, ClosedReadBack DEF l
  <2>2. i + 3 + 1 = i + 4
    OBVIOUS
  <2> QED BY <1>7, <2>1, <2>2, Zenon DEF ReadScope, l
<1>11. ReadClauses(t, k + 1) = [next |-> n + 1, value |-> st.reason]
  <2>1. k + 1 \in Nat
    BY <1>8
  <2> DEFINE m == k + 1
  <2> HIDE DEF k
  <2>2. m \in Nat /\ Holds(t, m, Clause(st.reason)) /\ At(t, m + Len(Clause(st.reason)), Semicolon)
    BY <1>9, <2>1, Zenon DEF c
  <2> HIDE DEF m
  <2>3. ReadClauses(t, m) = [next |-> m + Len(Clause(st.reason)) + 1, value |-> st.reason]
    BY <1>1, <2>2, ClausesReadBack
  <2> QED BY <2>3, Zenon DEF m, c
<1> HIDE DEF k, n
<1>12. ReadStatement(t, i) = [next |-> n + 1, value |-> <<st>>]
  <2> DEFINE scope == ReadScope(t, i + 3)
             clauses == ReadClauses(t, scope.next)
  <2>1. scope.next = k + 1 /\ scope.value = st.action
    BY <1>10
  <2>2. clauses = ReadClauses(t, k + 1)
    BY <2>1, Zenon
  <2>3. clauses.next = n + 1 /\ clauses.value = st.reason
    BY <1>11, <2>2
  <2>4. clauses.next # 0
    <3>1. n + 1 # 0
      BY <1>8
    <3> QED BY <2>3, <3>1, Zenon
  <2>5. [effect |-> st.effect, action |-> st.action, reason |-> st.reason] = st
    BY DEF Statement
  <2>6. ReadStatement(t, i) =
          [next |-> clauses.next,
           value |-> <<[effect |-> t[i], action |-> scope.value, reason |-> clauses.value]>>]
    BY <1>7, <2>4, Zenon DEF ReadStatement
  <2> QED BY <1>7, <2>1, <2>3, <2>5, <2>6, Zenon
<1>13. i + Len(EmitStatement(st)) = n + 1
  <2>1. EmitStatement(st) = a \o l \o <<")">> \o c \o <<Semicolon>>
    BY Zenon DEF EmitStatement, a, l, c
  <2> QED BY <1>6, <1>8, <2>1, Zenon
<1>14. States(t, i) /\ ~Annotates(t, i)
  <2>1. st.effect = "permit" \/ st.effect = "forbid"
    BY <1>1
  <2>2. ~At(t, i, "@")
    BY <1>7, <2>1 DEF At
  <2> QED BY <1>7, <2>1, <2>2, Zenon DEF States, Annotates
<1> QED BY <1>12, <1>13, <1>14, Zenon

\* An emitted statement is text, and not empty.
LEMMA EmitStatementType ==
  ASSUME NEW st \in Statement
  PROVE  EmitStatement(st) \in Seq(Symbol) /\ Len(EmitStatement(st)) \in Nat \ {0}
<1> DEFINE a == <<st.effect, "(", "action", "==">>
           l == Literal(st.action)
           c == Clause(st.reason)
           u == a \o l \o <<")">> \o c
<1>1. st.effect \in {"permit", "forbid"} /\ st.action \in Seq(Symbol) /\ st.reason \in Seq(Symbol)
  BY DEF Statement
<1>2. l \in Seq(Symbol) /\ c \in Seq(Symbol)
  BY <1>1, LiteralType, ClauseType
<1>3. \A x \in {"permit", "forbid", "(", ")", "action", "==", Semicolon} : x \in Symbol
  BY SyntaxSymbols DEF Syntax
<1>4. a \in Seq(Symbol)
  BY <1>1, <1>3
<1> HIDE DEF a, l, c
<1>5. u \in Seq(Symbol)
  <2>1. <<")">> \in Seq(Symbol) /\ a \o l \in Seq(Symbol)
    BY <1>2, <1>3, <1>4
  <2> DEFINE v == a \o l
  <2> HIDE DEF v
  <2>2. (v \o <<")">>) \o c \in Seq(Symbol)
    BY <1>2, <2>1 DEF v
  <2> QED BY <2>2 DEF v
<1>6. EmitStatement(st) = u \o <<Semicolon>>
  BY Zenon DEF EmitStatement, a, l, c
<1> HIDE DEF u
<1>7. u \o <<Semicolon>> \in Seq(Symbol) /\ Len(u \o <<Semicolon>>) \in Nat \ {0}
  BY <1>3, <1>5
<1> QED BY <1>6, <1>7, Zenon

StatementsOnly(statements) ==
  [name |-> <<>>, description |-> <<>>, statements |-> statements]

\* A statement and the statements after it.
StatementThen(t, i, n, st, rest) ==
  /\ i \in 1..Len(t) /\ n \in Nat /\ st \in Statement /\ rest \in Seq(Statement)
  /\ States(t, i) /\ ~Annotates(t, i)
  /\ ReadStatement(t, i) = [next |-> n, value |-> <<st>>]
  /\ PolicyFrom(t)[n] = {StatementsOnly(rest)}

\* After a statement the policy is read on.
LEMMA StatementGoesOn ==
  ASSUME NEW t \in Seq(Symbol), NEW i, NEW n, NEW st, NEW rest, StatementThen(t, i, n, st, rest)
  PROVE  PolicyFrom(t)[i] = {StatementsOnly(<<st>> \o rest)}
<1>0. /\ i \in 1..Len(t) /\ n \in Nat /\ st \in Statement /\ rest \in Seq(Statement)
      /\ States(t, i) /\ ~Annotates(t, i)
      /\ ReadStatement(t, i) = [next |-> n, value |-> <<st>>]
      /\ PolicyFrom(t)[n] = {StatementsOnly(rest)}
  BY Zenon DEF StatementThen
<1> USE <1>0
<1> DEFINE f == PolicyFrom(t)
           r == ReadStatement(t, i)
<1>1. i \in 0..(Len(t) + 1) /\ ~(i > Len(t))
  OBVIOUS
<1>2. f[i] = PolicyStep(t, f, i)
  BY <1>1, PolicyFromDefined
<1>3. r.next = n /\ r.value = <<st>>
  OBVIOUS
<1> HIDE DEF f
<1>4. f[i] = {Stated(p, r.value) : p \in f[r.next]}
  BY <1>1, <1>2, Zenon DEF PolicyStep
<1>5. f[i] = {Stated(p, <<st>>) : p \in {StatementsOnly(rest)}}
  BY <1>3, <1>4, Zenon DEF f
<1>6. Stated(StatementsOnly(rest), <<st>>) = StatementsOnly(<<st>> \o rest)
  <2> DEFINE w == <<st>> \o rest
  <2>1. Stated(StatementsOnly(rest), <<st>>) = [StatementsOnly(rest) EXCEPT !.statements = w]
    BY DEF Stated, StatementsOnly
  <2> HIDE DEF w
  <2>2. [StatementsOnly(rest) EXCEPT !.statements = w] = StatementsOnly(w)
    BY DEF StatementsOnly
  <2> QED BY <2>1, <2>2 DEF w
<1>7. f[i] = {Stated(StatementsOnly(rest), <<st>>)}
  BY <1>5
<1> QED BY <1>6, <1>7, Zenon DEF f

EmitStatements(statements) ==
  FlattenSeq([k \in DOMAIN statements |-> EmitStatement(statements[k])])

\* Emitted statements are text.
LEMMA EmitStatementsType ==
  ASSUME NEW statements \in Seq(Statement)
  PROVE  EmitStatements(statements) \in Seq(Symbol) /\ Len(EmitStatements(statements)) \in Nat
<1> DEFINE ss == [k \in DOMAIN statements |-> EmitStatement(statements[k])]
<1>1. ss \in Seq(Seq(Symbol))
  <2>1. \A k \in DOMAIN statements : EmitStatement(statements[k]) \in Seq(Symbol)
    BY EmitStatementType
  <2> QED BY <2>1
<1> HIDE DEF ss
<1>2. FlattenSeq(ss) \in Seq(Symbol)
  BY <1>1, FlattenProperties
<1> DEFINE e == FlattenSeq(ss)
<1>3. Len(e) \in Nat
  <2> HIDE DEF e
  <2>1. e \in Seq(Symbol)
    BY <1>2 DEF e
  <2> QED BY <2>1
<1> QED BY <1>2, <1>3 DEF EmitStatements, ss

\* A text that holds a flattening holds each of its sequences.
LEMMA HoldsWithin ==
  ASSUME NEW t \in Seq(Symbol), NEW e, Len(e) \in Nat, NEW u, Len(u) \in Nat \ {0},
         NEW i \in Nat, NEW o \in Nat, Holds(t, i, e),
         \A j \in 1..Len(u) : o + j \in 1..Len(e) /\ e[o + j] = u[j]
  PROVE  Holds(t, i + o, u)
<1> DEFINE m == Len(u)
<1>1. m \in 1..m /\ Len(t) \in Nat
  OBVIOUS
<1>2. /\ i \in Nat \ {0} /\ i - 1 + Len(e) <= Len(t) /\ \A j \in 1..Len(e) : t[i - 1 + j] = e[j]
  BY DEF Holds
<1>3. \A j \in 1..m : o + j \in 1..Len(e) /\ e[o + j] = u[j]
  OBVIOUS
<1>4. i + o \in Nat \ {0} /\ i + o - 1 + m <= Len(t)
  <2>1. o + m \in 1..Len(e) /\ m \in Nat
    BY <1>1, <1>3
  <2> HIDE DEF m
  <2> QED BY <1>1, <1>2, <2>1
<1>5. \A j \in 1..m : t[i + o - 1 + j] = u[j]
  <2> SUFFICES ASSUME NEW j \in 1..m PROVE t[i + o - 1 + j] = u[j]
    OBVIOUS
  <2>1. o + j \in 1..Len(e) /\ e[o + j] = u[j]
    BY <1>3
  <2>2. t[i - 1 + (o + j)] = u[j]
    BY <1>2, <2>1
  <2>3. i - 1 + (o + j) = i + o - 1 + j
    BY <1>2
  <2> QED BY <2>2, <2>3
<1> DEFINE k == i + o
<1>6. k \in Nat \ {0} /\ k - 1 + m <= Len(t) /\ \A j \in 1..m : t[k - 1 + j] = u[j]
  BY <1>4, <1>5
<1> HIDE DEF k
<1>7. Holds(t, k, u)
  BY <1>6, Zenon DEF Holds
<1> QED BY <1>7 DEF k

\* Where the statements of a policy lie in its text.
StatementsLie(t, i, statements, off) ==
  /\ off \in [0..Len(statements) -> Nat]
  /\ off[0] = 0 /\ off[Len(statements)] = Len(EmitStatements(statements))
  /\ \A k \in 1..Len(statements) :
       /\ off[k] = off[k - 1] + Len(EmitStatement(statements[k]))
       /\ Holds(t, i + off[k - 1], EmitStatement(statements[k]))

\* Each emitted statement lies after the one before it.
LEMMA StatementsPlaced ==
  ASSUME NEW t \in Seq(Symbol), NEW statements \in Seq(Statement), NEW i \in Nat,
         Holds(t, i, EmitStatements(statements))
  PROVE  \E off : StatementsLie(t, i, statements, off)
<1> DEFINE ss == [k \in DOMAIN statements |-> EmitStatement(statements[k])]
           e == EmitStatements(statements)
           n == Len(statements)
<1>1. \A k \in 1..n : /\ EmitStatement(statements[k]) \in Seq(Symbol)
                      /\ Len(EmitStatement(statements[k])) \in Nat \ {0}
  BY EmitStatementType
<1>2. ss \in Seq(Seq(Symbol)) /\ Len(ss) = n /\ n \in Nat
  BY <1>1
<1>3. \A k \in 1..n : ss[k] = EmitStatement(statements[k])
  OBVIOUS
<1> HIDE DEF ss
<1>4. PICK off : Lie(ss, FlattenSeq(ss), off)
  BY <1>2, FlattenProperties
<1>5. e = FlattenSeq(ss)
  BY DEF EmitStatements, ss
<1>6. Len(e) \in Nat /\ Len(t) \in Nat
  BY EmitStatementsType
<1> HIDE DEF e
<1>7. Holds(t, i, e)
  BY DEF e
<1>8. /\ off \in [0..n -> Nat] /\ off[0] = 0 /\ off[n] = Len(e)
      /\ \A k \in 1..n : off[k] = off[k - 1] + Len(ss[k])
      /\ \A k \in 1..n : \A j \in 1..Len(ss[k]) : off[k - 1] + j \in 1..Len(e) /\ e[off[k - 1] + j] = ss[k][j]
  BY <1>2, <1>4, <1>5, Zenon DEF Lie
<1>9. ASSUME NEW k \in 1..n
      PROVE  Holds(t, i + off[k - 1], ss[k])
  <2> DEFINE o == off[k - 1]
             u == ss[k]
  <2>1. k - 1 \in 0..n /\ k \in 0..n
    BY <1>2
  <2>2. o \in Nat /\ Len(u) \in Nat \ {0}
    BY <1>1, <1>3, <1>8, <2>1
  <2>3. \A j \in 1..Len(u) : o + j \in 1..Len(e) /\ e[o + j] = u[j]
    BY <1>8
  <2> HIDE DEF o, u
  <2>4. Holds(t, i + o, u)
    BY <1>6, <1>7, <2>2, <2>3, HoldsWithin
  <2> QED BY <2>4 DEF o, u
<1> QED BY <1>3, <1>8, <1>9, Zenon DEF StatementsLie, e

\* The emitted statements are read back in order.
LEMMA StatementsReadBack ==
  ASSUME NEW t \in Seq(Symbol), NEW statements \in Seq(Statement), NEW i \in Nat,
         Holds(t, i, EmitStatements(statements)),
         i + Len(EmitStatements(statements)) = Len(t) + 1
  PROVE  PolicyFrom(t)[i] = {StatementsOnly(statements)}
<1> DEFINE n == Len(statements)
           f == PolicyFrom(t)
           Rest(k) == SubSeq(statements, k + 1, n)
<1>1. PICK off : StatementsLie(t, i, statements, off)
  BY StatementsPlaced
<1> DEFINE T == {k \in 0..n : f[i + off[n - k]] = {StatementsOnly(Rest(n - k))}}
<1>2. n \in Nat /\ Len(t) \in Nat /\ \A k \in 1..n : statements[k] \in Statement
  OBVIOUS
<1>3. /\ off \in [0..n -> Nat] /\ off[0] = 0 /\ i + off[n] = Len(t) + 1
      /\ \A k \in 1..n : /\ off[k] = off[k - 1] + Len(EmitStatement(statements[k]))
                         /\ Holds(t, i + off[k - 1], EmitStatement(statements[k]))
  BY <1>1, Zenon DEF StatementsLie
<1>4. 0 \in T
  <2>1. n - 0 = n /\ 0 \in 0..n
    BY <1>2
  <2>2. f[Len(t) + 1] = {StatementsOnly(<<>>)}
    <3>1. Len(t) + 1 \in 0..(Len(t) + 1) /\ Len(t) + 1 > Len(t)
      BY <1>2
    <3>2. f[Len(t) + 1] = PolicyStep(t, f, Len(t) + 1)
      BY <3>1, PolicyFromDefined
    <3> QED BY <3>1, <3>2, Zenon DEF PolicyStep, NoPolicy, StatementsOnly
  <2>3. Rest(n) = <<>>
    BY <1>2, SubSeqEmpty
  <2> HIDE DEF f
  <2> QED BY <1>3, <2>1, <2>2, <2>3
<1>5. ASSUME NEW k \in 1..n, k - 1 \in T
      PROVE  k \in T
  <2> DEFINE m == n - k + 1
             st == statements[m]
             p == i + off[n - k]
             q == i + off[m]
  <2>1. /\ m \in 1..n /\ m - 1 = n - k /\ n - (k - 1) = m /\ n - k \in 0..n /\ k \in 0..n
        /\ m \in 0..n
    BY <1>2
  <2>2. st \in Statement
    BY <1>2, <2>1
  <2>3. f[q] = {StatementsOnly(Rest(m))}
    <3> HIDE DEF f
    <3> QED BY <1>5, <2>1
  <2>4. <<st>> \o Rest(m) = Rest(n - k) /\ Rest(m) \in Seq(Statement)
    <3>1. n \in m..Len(statements)
      BY <1>2, <2>1
    <3>2. <<st>> \o Rest(m) = SubSeq(statements, m, n)
      BY <2>1, <3>1, SubSeqRecursiveFirst
    <3>3. SubSeq(statements, m, n) = Rest(n - k)
      BY <2>1
    <3>4. Rest(m) \in Seq(Statement)
      BY <1>2, <2>1
    <3> QED BY <3>2, <3>3, <3>4, Zenon
  <2>5. p \in Nat /\ q \in Nat
    <3>1. off[n - k] \in Nat /\ off[m] \in Nat
      BY <1>3, <2>1, Zenon
    <3> DEFINE x == off[n - k]
               y == off[m]
    <3> HIDE DEF x, y
    <3>2. x \in Nat /\ y \in Nat
      BY <3>1, Zenon DEF x, y
    <3>3. i + x \in Nat /\ i + y \in Nat
      BY <3>2
    <3> QED BY <3>3, Zenon DEF x, y
  <2>6. Holds(t, p, EmitStatement(st)) /\ q = p + Len(EmitStatement(st)) /\ p \in 1..Len(t)
    <3> DEFINE e == EmitStatement(st)
    <3>1. off[m] = off[n - k] + Len(e) /\ Holds(t, p, e)
      BY <1>3, <2>1, Zenon
    <3>2. Len(e) \in Nat \ {0}
      BY <2>2, EmitStatementType
    <3>3. p \in Nat \ {0} /\ p - 1 + Len(e) <= Len(t)
      BY <3>1, Zenon DEF Holds
    <3>4. off[n - k] \in Nat
      BY <1>3, <2>1
    <3> HIDE DEF e
    <3>5. q = p + Len(e)
      <4> DEFINE x == off[n - k]
                 y == off[m]
                 l == Len(e)
      <4>1. x \in Nat /\ l \in Nat /\ y = x + l
        BY <3>1, <3>2, <3>4
      <4> HIDE DEF x, y, l
      <4>2. i + y = (i + x) + l
        BY <4>1
      <4> QED BY <4>2, Zenon DEF x, y, l
    <3>6. p \in 1..Len(t)
      <4> HIDE DEF p
      <4> QED BY <1>2, <3>2, <3>3
    <3> QED BY <3>1, <3>5, <3>6 DEF e
  <2> HIDE DEF f, p, q, m, st, Rest
  <2>7. /\ States(t, p) /\ ~Annotates(t, p)
        /\ ReadStatement(t, p) = [next |-> q, value |-> <<st>>]
    <3>1. /\ States(t, p) /\ ~Annotates(t, p)
          /\ ReadStatement(t, p) = [next |-> p + Len(EmitStatement(st)), value |-> <<st>>]
      BY <2>2, <2>5, <2>6, StatementReadBack
    <3> QED BY <2>6, <3>1, Zenon
  <2>8. f[p] = {StatementsOnly(<<st>> \o Rest(m))}
    <3>1. p \in 1..Len(t) /\ q \in Nat /\ Rest(m) \in Seq(Statement)
      BY <2>4, <2>5, <2>6, Zenon
    <3> DEFINE rest == Rest(m)
    <3> HIDE DEF rest
    <3>2. rest \in Seq(Statement) /\ PolicyFrom(t)[q] = {StatementsOnly(rest)}
      BY <2>3, <3>1, Zenon DEF rest, f
    <3>3. PolicyFrom(t)[p] = {StatementsOnly(<<st>> \o rest)}
      <4>1. StatementThen(t, p, q, st, rest)
        BY <2>2, <2>7, <3>1, <3>2, Zenon DEF StatementThen
      <4> QED BY <4>1, StatementGoesOn
    <3> QED BY <3>3, Zenon DEF f, rest
  <2>9. f[p] = {StatementsOnly(Rest(n - k))}
    BY <2>4, <2>8, Zenon
  <2> QED BY <2>1, <2>9 DEF p
<1> HIDE DEF T
<1>6. n \in T
  <2>1. 0..n \subseteq T
    BY <1>2, <1>4, <1>5, UpTo
  <2> QED BY <1>2, <2>1
<1>7. f[i + off[0]] = {StatementsOnly(Rest(0))}
  <2>1. n - n = 0
    BY <1>2
  <2> QED BY <1>6, <2>1 DEF T
<1>8. i + off[0] = i /\ Rest(0) = statements
  <2>1. SubSeq(statements, 1, n) = statements
    BY SubSeqFull
  <2> QED BY <1>3, <2>1
<1> QED BY <1>7, <1>8, Zenon

\* An annotation is text.
LEMMA AnnotationType ==
  ASSUME NEW key \in {"name", "description"}, NEW value \in Seq(Symbol)
  PROVE  Annotation(key, value) \in Seq(Symbol) /\ Len(Annotation(key, value)) \in Nat
<1> DEFINE b == Bracketed(value)
           a == Annotation(key, value)
<1>1. b \in Seq(Symbol) /\ "@" \in Symbol /\ key \in Symbol
  BY BracketedType, SyntaxSymbols DEF Syntax
<1> HIDE DEF b
<1>2. <<"@", key>> \o b \in Seq(Symbol) /\ <<>> \in Seq(Symbol)
  BY <1>1
<1>3. a \in Seq(Symbol)
  BY <1>2, Zenon DEF Annotation, b
<1> HIDE DEF a
<1>4. Len(a) \in Nat
  BY <1>3
<1> QED BY <1>3, <1>4 DEF a

\* An annotation, and what is read after it.
AnnotationThen(t, i, n, key, value, p) ==
  /\ i \in 1..Len(t) /\ n \in Nat /\ key \in {"name", "description"}
  /\ At(t, i, "@") /\ At(t, i + 1, key)
  /\ ReadArgument(t, i + 2) = [next |-> n, value |-> value]
  /\ p[key] = <<>> /\ PolicyFrom(t)[n] = {p}

\* After an annotation the policy is read on.
LEMMA AnnotationGoesOn ==
  ASSUME NEW t \in Seq(Symbol), NEW i, NEW n, NEW key, NEW value, NEW p,
         AnnotationThen(t, i, n, key, value, p)
  PROVE  PolicyFrom(t)[i] = {[p EXCEPT ![key] = value]}
<1>0. /\ i \in 1..Len(t) /\ n \in Nat /\ key \in {"name", "description"}
      /\ At(t, i, "@") /\ At(t, i + 1, key)
      /\ ReadArgument(t, i + 2) = [next |-> n, value |-> value]
      /\ p[key] = <<>> /\ PolicyFrom(t)[n] = {p}
  BY Zenon DEF AnnotationThen
<1> DEFINE f == PolicyFrom(t)
           r == ReadArgument(t, i + 2)
<1>1. i \in 0..(Len(t) + 1) /\ ~(i > Len(t))
  BY <1>0
<1>2. f[i] = PolicyStep(t, f, i)
  BY <1>1, PolicyFromDefined
<1>3. r.next = n /\ r.value = value
  BY <1>0
<1>4. Annotates(t, i) /\ t[i + 1] = key
  <2>1. key = "name" \/ key = "description"
    BY <1>0
  <2>2. t[i + 1] = key
    BY <1>0, Zenon DEF At
  <2> QED BY <1>0, <2>1, <2>2, Zenon DEF Annotates
<1> HIDE DEF f, r
<1>5. f[i] = {Annotated(q, t[i + 1], r.value) : q \in f[r.next]}
  BY <1>1, <1>2, <1>4, Zenon DEF PolicyStep, r
<1>6. f[i] = {Annotated(q, key, value) : q \in {p}}
  BY <1>0, <1>3, <1>4, <1>5, Zenon DEF f
<1>7. Annotated(p, key, value) = [p EXCEPT ![key] = value]
  BY <1>0, Zenon DEF Annotated
<1>8. f[i] = {Annotated(p, key, value)}
  BY <1>6
<1> QED BY <1>7, <1>8, Zenon DEF f

\* An annotation as it is written, and what is read after it.
AnnotationHeld(t, i, key, value, p) ==
  /\ key \in {"name", "description"} /\ value \in Seq(Symbol) /\ i \in Nat
  /\ Holds(t, i, Annotation(key, value))
  /\ p \in Policy /\ p[key] = <<>>
  /\ PolicyFrom(t)[i + Len(Annotation(key, value))] = {p}

\* An emitted annotation is read back as its key and value.
LEMMA AnnotationReadBack ==
  ASSUME NEW t \in Seq(Symbol), NEW i, NEW key, NEW value, NEW p, AnnotationHeld(t, i, key, value, p)
  PROVE  PolicyFrom(t)[i] = {[p EXCEPT ![key] = value]}
<1>0. /\ key \in {"name", "description"} /\ value \in Seq(Symbol) /\ i \in Nat
      /\ Holds(t, i, Annotation(key, value))
      /\ p \in Policy /\ p[key] = <<>>
      /\ PolicyFrom(t)[i + Len(Annotation(key, value))] = {p}
  BY Zenon DEF AnnotationHeld
<1> USE <1>0
<1>1. CASE value = <<>>
  <2>1. Annotation(key, value) = <<>>
    BY <1>1 DEF Annotation
  <2>2. Len(<<>>) = 0 /\ i + 0 = i
    OBVIOUS
  <2>3. PolicyFrom(t)[i] = {p}
    BY <2>1, <2>2, Zenon
  <2>4. [p EXCEPT ![key] = value] = p
    BY <1>1 DEF Policy
  <2> QED BY <2>3, <2>4, Zenon
<1>2. CASE value # <<>>
  <2> DEFINE b == Bracketed(value)
             a == <<"@", key>>
             n == i + Len(Annotation(key, value))
  <2>1. Annotation(key, value) = a \o b
    BY <1>2 DEF Annotation
  <2>2. b \in Seq(Symbol) /\ Len(b) \in Nat
    BY BracketedType
  <2>3. a \in Seq(Symbol) /\ Len(a) = 2 /\ a[1] = "@" /\ a[2] = key
    <3>1. "@" \in Symbol /\ key \in Symbol
      BY SyntaxSymbols DEF Syntax
    <3> QED BY <3>1
  <2> HIDE DEF a, b
  <2>4. Holds(t, i, a) /\ Holds(t, i + Len(a), b) /\ Len(a \o b) = Len(a) + Len(b)
    <3>1. Holds(t, i, a \o b) /\ a \in Seq(Symbol)
      BY <2>1, <2>3, Zenon
    <3> QED BY <2>2, <3>1, HoldsConcat
  <2>5. At(t, i, "@") /\ At(t, i + 1, key) /\ i \in 1..Len(t)
    <3>1. \A j \in 1..Len(a) : /\ i - 1 + j \in 1..Len(t)
                               /\ \A x : At(t, i - 1 + j, x) <=> a[j] = x
      <4>1. a \in Seq(Symbol)
        BY <2>3
      <4> QED BY <2>4, <4>1, HoldsAt
    <3>2. i - 1 + 1 = i /\ i - 1 + 2 = i + 1 /\ 1 \in 1..2 /\ 2 \in 1..2
      OBVIOUS
    <3> DEFINE at(j) == i - 1 + j
    <3>3. \A j \in 1..Len(a) : at(j) \in 1..Len(t) /\ \A x : At(t, at(j), x) <=> a[j] = x
      BY <3>1
    <3>4. at(1) = i /\ at(2) = i + 1
      BY <3>2
    <3> HIDE DEF at
    <3> QED BY <2>3, <3>2, <3>3, <3>4
  <2>6. Holds(t, i + 2, b)
    BY <2>3, <2>4, Zenon
  <2>7. n = i + 2 + Len(b) /\ n \in Nat
    <3> DEFINE l == Len(b)
               la == Len(a)
    <3>1. n = i + (la + l) /\ la = 2 /\ l \in Nat
      BY <2>1, <2>2, <2>3, <2>4, Zenon
    <3> HIDE DEF l, la, n
    <3>2. n = i + 2 + l /\ n \in Nat
      BY <3>1
    <3> QED BY <3>2 DEF l
  <2>8. ReadArgument(t, i + 2) = [next |-> i + 2 + Len(b), value |-> value]
    BY <2>6, ArgumentReadBack DEF b
  <2>9. PolicyFrom(t)[n] = {p}
    OBVIOUS
  <2> HIDE DEF n
  <2>10. AnnotationThen(t, i, n, key, value, p)
    BY <2>5, <2>7, <2>8, <2>9, Zenon DEF AnnotationThen
  <2> QED BY <2>10, AnnotationGoesOn
<1> QED BY <1>1, <1>2

\* The parts of a policy's text.
LEMMA EmitParts ==
  ASSUME NEW policy \in Policy
  PROVE  /\ Emit(policy) = Annotation("name", policy.name)
              \o Annotation("description", policy.description) \o EmitStatements(policy.statements)
         /\ Emit(policy) \in Seq(Symbol)
<1> DEFINE a == Annotation("name", policy.name)
           d == Annotation("description", policy.description)
           s == EmitStatements(policy.statements)
<1>1. Emit(policy) = (a \o d) \o s
  BY Zenon DEF Emit, EmitStatements
<1>2. a \in Seq(Symbol) /\ d \in Seq(Symbol) /\ s \in Seq(Symbol)
  <2>1. policy.name \in Seq(Symbol) /\ policy.description \in Seq(Symbol) /\ policy.statements \in Seq(Statement)
    BY DEF Policy
  <2> QED BY <2>1, AnnotationType, EmitStatementsType
<1> HIDE DEF a, d, s
<1>3. a \o d \in Seq(Symbol)
  BY <1>2
<1> DEFINE u == a \o d
<1>4. u \o s \in Seq(Symbol)
  <2> HIDE DEF u
  <2>1. u \in Seq(Symbol)
    BY <1>3 DEF u
  <2> QED BY <1>2, <2>1
<1> QED BY <1>1, <1>4, Zenon DEF a, d, s

\* What emit writes, parse reads back as it was.
THEOREM EmitReadBack ==
  ASSUME NEW policy \in Policy
  PROVE  Parse(Emit(policy)) = {policy}
<1> DEFINE t == Emit(policy)
           a == Annotation("name", policy.name)
           d == Annotation("description", policy.description)
           s == EmitStatements(policy.statements)
           u == a \o d
<1>1. policy.name \in Seq(Symbol) /\ policy.description \in Seq(Symbol) /\ policy.statements \in Seq(Statement)
  BY DEF Policy
<1>2. /\ a \in Seq(Symbol) /\ d \in Seq(Symbol) /\ s \in Seq(Symbol)
      /\ Len(a) \in Nat /\ Len(d) \in Nat /\ Len(s) \in Nat
  BY <1>1, AnnotationType, EmitStatementsType
<1>3. t = u \o s
  BY EmitParts
<1>4. t \in Seq(Symbol)
  BY EmitParts
<1> HIDE DEF t, a, d, s
<1>15. u \in Seq(Symbol) /\ Len(u) \in Nat
  BY <1>2
<1>5. Holds(t, 1, t)
  BY <1>4, HoldsAll
<1> HIDE DEF u
<1>6. Holds(t, 1, u) /\ Holds(t, 1 + Len(u), s) /\ Len(t) = Len(u) + Len(s)
  <2>1. Holds(t, 1, u \o s)
    BY <1>3, <1>5, Zenon
  <2>2. Holds(t, 1, u) /\ Holds(t, 1 + Len(u), s) /\ Len(u \o s) = Len(u) + Len(s)
    BY <1>2, <1>4, <1>15, <2>1, HoldsConcat
  <2> QED BY <1>3, <2>2, Zenon
<1>7. Holds(t, 1, a) /\ Holds(t, 1 + Len(a), d) /\ Len(u) = Len(a) + Len(d)
  <2>1. Holds(t, 1, a \o d)
    BY <1>6 DEF u
  <2> QED BY <1>2, <1>4, <2>1, HoldsConcat DEF u
<1> DEFINE i == 1 + Len(a)
           j == 1 + Len(u)
           p == StatementsOnly(policy.statements)
           q == [p EXCEPT !["description"] = policy.description]
<1>8. i \in Nat /\ j \in Nat /\ j = i + Len(d) /\ j + Len(s) = Len(t) + 1
  BY <1>2, <1>15, <1>6, <1>7
<1>9. p \in Policy /\ p["description"] = <<>>
  BY <1>1 DEF StatementsOnly, Policy
<1>10. q \in Policy /\ q["name"] = <<>>
  <2>1. q = [name |-> <<>>, description |-> policy.description, statements |-> policy.statements]
    BY DEF StatementsOnly
  <2> HIDE DEF q
  <2>2. <<>> \in Seq(Symbol)
    OBVIOUS
  <2> QED BY <1>1, <2>1, <2>2 DEF Policy
<1>11. [q EXCEPT !["name"] = policy.name] = policy
  <2>1. q = [name |-> <<>>, description |-> policy.description, statements |-> policy.statements]
    BY DEF StatementsOnly
  <2> HIDE DEF q
  <2>2. [q EXCEPT !["name"] = policy.name]
          = [name |-> policy.name, description |-> policy.description, statements |-> policy.statements]
    BY <2>1
  <2>3. policy
          = [name |-> policy.name, description |-> policy.description, statements |-> policy.statements]
    BY DEF Policy
  <2> QED BY <2>2, <2>3, Zenon
<1> HIDE DEF i, j, p, q
<1>12. PolicyFrom(t)[j] = {p}
  <2>1. Holds(t, j, EmitStatements(policy.statements)) /\ j + Len(EmitStatements(policy.statements)) = Len(t) + 1
    BY <1>6, <1>8, Zenon DEF j, s
  <2>2. PolicyFrom(t)[j] = {StatementsOnly(policy.statements)}
    BY <1>1, <1>4, <1>8, <2>1, StatementsReadBack
  <2> QED BY <2>2 DEF p
<1>13. PolicyFrom(t)[i] = {q}
  <2> DEFINE value == policy.description
  <2>1. Holds(t, i, Annotation("description", value))
    BY <1>7 DEF i, d
  <2>2. PolicyFrom(t)[i + Len(Annotation("description", value))] = {p}
    BY <1>8, <1>12, Zenon DEF d
  <2>3. value \in Seq(Symbol) /\ "description" \in {"name", "description"}
    BY <1>1
  <2> HIDE DEF value
  <2>4. PolicyFrom(t)[i] = {[p EXCEPT !["description"] = value]}
    <3>1. AnnotationHeld(t, i, "description", value, p)
      BY <1>8, <1>9, <2>1, <2>2, <2>3, Zenon DEF AnnotationHeld
    <3> QED BY <1>4, <3>1, AnnotationReadBack
  <2> QED BY <2>4 DEF q, value
<1>14. PolicyFrom(t)[1] = {[q EXCEPT !["name"] = policy.name]}
  <2> DEFINE value == policy.name
             k == 1
  <2>1. Holds(t, k, Annotation("name", value)) /\ k \in Nat
    BY <1>7 DEF a
  <2>2. PolicyFrom(t)[k + Len(Annotation("name", value))] = {q}
    BY <1>13, Zenon DEF i, a
  <2>3. value \in Seq(Symbol) /\ "name" \in {"name", "description"}
    BY <1>1
  <2> HIDE DEF value, k
  <2>4. PolicyFrom(t)[k] = {[q EXCEPT !["name"] = value]}
    <3>1. AnnotationHeld(t, k, "name", value, q)
      BY <1>10, <2>1, <2>2, <2>3, Zenon DEF AnnotationHeld
    <3> QED BY <1>4, <3>1, AnnotationReadBack
  <2> QED BY <2>4 DEF value, k
<1> QED BY <1>11, <1>14, Zenon DEF Parse, t

-----------------------------------------------------------------------------
(***************************************************************************)
(* Finite sets and sequences.                                              *)
(***************************************************************************)
LEMMA ImageFinite ==
  ASSUME NEW f, IsFiniteSet(DOMAIN f)
  PROVE  IsFiniteSet({f[x] : x \in DOMAIN f})
<1> DEFINE D == DOMAIN f
           R == {f[x] : x \in D}
           g == [x \in D |-> f[x]]
<1>1. g \in Surjection(D, R)
  BY DEF Surjection
<1> HIDE DEF g, R
<1>2. IsFiniteSet(R)
  BY <1>1, FS_Surjection
<1> QED BY <1>2 DEF R

\* SetToSeq of a finite set has each element of the set once.
LEMMA SetToSeqProperties ==
  ASSUME NEW S, IsFiniteSet(S)
  PROVE  SetToSeq(S) \in Seq(S) /\ ToSet(SetToSeq(S)) = S
<1> DEFINE n == Cardinality(S)
           s == SetToSeq(S)
<1>1. n \in Nat
  BY FS_CardinalityType
<1>2. \E f \in [1..n -> S] : IsInjective(f)
  <2>1. PICK f \in Bijection(1..n, S) : TRUE
    BY FS_CardinalityType DEF ExistsBijection
  <2>2. f \in [1..n -> S] /\ IsInjective(f)
    BY <2>1 DEF Bijection, Injection
  <2> QED BY <2>2
<1>3. s \in [1..n -> S] /\ IsInjective(s)
  BY <1>2, Zenon DEF SetToSeq
<1> HIDE DEF n, s
<1>4. s \in Injection(1..n, S)
  BY <1>3 DEF Injection
<1>5. IsFiniteSet(1..n) /\ Cardinality(1..n) = Cardinality(S)
  BY <1>1, FS_Interval DEF n
<1>6. s \in Surjection(1..n, S)
  BY <1>4, <1>5, FS_Injection
<1>7. s \in Seq(S) /\ DOMAIN s = 1..n
  BY <1>1, <1>3
<1>8. ToSet(s) = S
  BY <1>3, <1>6, <1>7 DEF ToSet, Surjection
<1> QED BY <1>7, <1>8 DEF s

\* The least and the greatest element of a finite set of naturals.
LEMMA MinProperties ==
  ASSUME NEW T \in SUBSET Nat, T # {}
  PROVE  Min(T) \in T /\ \A x \in T : Min(T) <= x
BY LeastElement, Zenon DEF Min

\* The greatest element of a bounded set of naturals.
LEMMA MaxProperties ==
  ASSUME NEW T, NEW n \in Nat, T \subseteq 0..n, T # {}
  PROVE  Max(T) \in T /\ \A x \in T : Max(T) >= x
<1> DEFINE U == {n - x : x \in T}
<1>1. U \in SUBSET Nat /\ U # {}
  OBVIOUS
<1> HIDE DEF U
<1>2. PICK m \in U : \A y \in U : m <= y
  BY <1>1, LeastElement
<1>3. PICK k \in T : m = n - k
  BY DEF U
<1>4. \A x \in T : k >= x
  <2> SUFFICES ASSUME NEW x \in T PROVE k >= x
    OBVIOUS
  <2>1. n - x \in U
    BY DEF U
  <2> QED BY <1>2, <1>3, <2>1
<1>5. \E x \in T : \A y \in T : x >= y
  BY <1>4
<1> QED BY <1>5, Zenon DEF Max

\* A part of a sequence has elements of the sequence.
LEMMA SubSeqType ==
  ASSUME NEW S, NEW s \in Seq(S), NEW m \in Nat \ {0}, NEW n \in Int, n <= Len(s)
  PROVE  SubSeq(s, m, n) \in Seq(S)
<1>1. CASE m <= n + 1
  <2>1. m \in 1..(Len(s) + 1) /\ n \in (m - 1)..Len(s)
    BY <1>1
  <2> QED BY <2>1, SubSeqProperties
<1>2. CASE ~(m <= n + 1)
  <2>1. SubSeq(s, m, n) = <<>>
    BY <1>2, SubSeqEmpty
  <2>2. <<>> \in Seq(S)
    OBVIOUS
  <2> QED BY <2>1, <2>2
<1> QED BY <1>1, <1>2

\* Where a symbol lies in a sequence.
LEMMA PositionType ==
  ASSUME NEW S, NEW s \in Seq(S), NEW x
  PROVE  /\ Position(s, x) \subseteq 1..Len(s) /\ Position(s, x) \subseteq Nat /\ Len(s) \in Nat
         /\ \A i \in Position(s, x) : s[i] = x
         /\ \A i \in 1..Len(s) : s[i] = x => i \in Position(s, x)
BY DEF Position
-----------------------------------------------------------------------------
(***************************************************************************)
(* What generate and init write is a policy.                               *)
(***************************************************************************)
LEMMA PermitsProperties ==
  ASSUME NEW globs, IsFiniteSet(globs), globs \subseteq Seq(Symbol)
  PROVE  /\ Permits(globs) \in Seq(Statement)
         /\ globs # {} => Permits(globs) # <<>>
         /\ \A st \in ToSet(Permits(globs)) :
              st.effect = "permit" /\ st.action \in globs /\ st.reason = NoReason
         /\ \A g \in globs : \E st \in ToSet(Permits(globs)) : st.effect = "permit" /\ st.action = g
<1> DEFINE s == SetToSeq(globs)
           P == Permits(globs)
<1>1. s \in Seq(globs) /\ ToSet(s) = globs
  BY SetToSeqProperties
<1>2. P = [i \in DOMAIN s |-> [effect |-> "permit", action |-> s[i], reason |-> NoReason]]
  BY DEF Permits
<1> HIDE DEF s, P
<1>3. DOMAIN s = 1..Len(s) /\ Len(s) \in Nat
  BY <1>1
<1>4. \A i \in 1..Len(s) : s[i] \in globs
  BY <1>1
<1>5. DOMAIN P = 1..Len(s)
  BY <1>2, <1>3
<1>6. \A i \in 1..Len(s) : /\ P[i].effect = "permit" /\ P[i].action = s[i] /\ P[i].reason = NoReason
                           /\ P[i] \in Statement
  <2> SUFFICES ASSUME NEW i \in 1..Len(s)
               PROVE  /\ P[i].effect = "permit" /\ P[i].action = s[i] /\ P[i].reason = NoReason
                      /\ P[i] \in Statement
    OBVIOUS
  <2>1. P[i] = [effect |-> "permit", action |-> s[i], reason |-> NoReason]
    BY <1>2, <1>3
  <2>2. s[i] \in Seq(Symbol) /\ NoReason \in Seq(Symbol)
    <3>1. <<>> \in Seq(Symbol)
      OBVIOUS
    <3> QED BY <1>4, <3>1 DEF NoReason
  <2> QED BY <2>1, <2>2 DEF Statement
<1>7. P \in Seq(Statement)
  <2>1. P = [i \in 1..Len(s) |-> P[i]]
    BY <1>2, <1>3
  <2> QED BY <1>3, <1>6, <2>1
<1>8. globs # {} => P # <<>>
  <2>1. globs # {} => 1..Len(s) # {}
    BY <1>1, <1>3 DEF ToSet
  <2>2. P = <<>> => DOMAIN P = {}
    OBVIOUS
  <2> QED BY <1>5, <2>1, <2>2
<1>9. \A st \in ToSet(P) : st.effect = "permit" /\ st.action \in globs /\ st.reason = NoReason
  BY <1>4, <1>5, <1>6 DEF ToSet
<1>10. \A g \in globs : \E st \in ToSet(P) : st.effect = "permit" /\ st.action = g
  BY <1>1, <1>3, <1>5, <1>6 DEF ToSet
<1> QED BY <1>7, <1>8, <1>9, <1>10 DEF P

\* What generate and init write are symbols.
LEMMA WrittenSymbols ==
  /\ \A x \in Written : x \in Symbol
  /\ "net" \in Symbol /\ ":" \in Symbol /\ "/" \in Symbol /\ "*" \in Symbol
BY TemplatesAssumption, Signs DEF Written

\* The glob of a host is text.
LEMMA HostGlobType ==
  ASSUME NEW host \in Seq(Symbol)
  PROVE  HostGlob(host) \in Seq(Symbol)
<1> DEFINE a == <<"net", ":", "*", ":">>
           b == <<"/", "*">>
<1>1. a \in Seq(Symbol) /\ b \in Seq(Symbol)
  BY WrittenSymbols
<1> HIDE DEF a, b
<1>2. (a \o host) \o b \in Seq(Symbol)
  BY <1>1
<1> QED BY <1>2 DEF HostGlob, a, b

\* What a canonical action looks like.
LEMMA ActionType ==
  ASSUME NEW a \in Action
  PROVE  /\ a \in Seq(Symbol) /\ Len(a) \in Nat \ {0}
         /\ LastColon(a) \in 1..Len(a) /\ a[LastColon(a)] = ":"
         /\ \A i \in 1..Len(a) : a[i] = ":" => i <= LastColon(a)
<1> DEFINE T == Position(a, ":")
<1>1. a \in Seq(Symbol) /\ T # {}
  BY TemplatesAssumption
<1>2. /\ T \subseteq 1..Len(a) /\ Len(a) \in Nat /\ \A i \in T : a[i] = ":"
      /\ \A i \in 1..Len(a) : a[i] = ":" => i \in T
  BY <1>1, PositionType
<1> HIDE DEF T
<1>3. T \subseteq 0..Len(a)
  BY <1>2
<1>4. Max(T) \in T /\ \A x \in T : Max(T) >= x
  BY <1>1, <1>2, <1>3, MaxProperties
<1>5. LastColon(a) = Max(T)
  BY DEF LastColon, T
<1>6. LastColon(a) \in T /\ \A x \in T : LastColon(a) >= x
  BY <1>4, <1>5
<1> DEFINE c == LastColon(a)
<1>7. c \in T /\ \A x \in T : c >= x
  BY <1>6
<1> HIDE DEF c
<1>8. c \in 1..Len(a) /\ a[c] = ":" /\ \A i \in 1..Len(a) : a[i] = ":" => i <= c
  BY <1>2, <1>7
<1>9. Len(a) \in Nat \ {0}
  BY <1>2, <1>8
<1> QED BY <1>1, <1>8, <1>9 DEF c

\* The host of an action is text.
LEMMA NetHostType ==
  ASSUME NEW a \in Action
  PROVE  NetHost(a) \in Seq(Symbol)
<1> DEFINE T == Position(a, "/") \cup {Len(a) + 1}
<1>1. a \in Seq(Symbol) /\ Len(a) \in Nat
  BY ActionType
<1>2. T \in SUBSET Nat /\ T # {} /\ T \subseteq 1..(Len(a) + 1)
  BY <1>1, PositionType
<1> HIDE DEF T
<1>3. Min(T) \in T
  BY <1>2, MinProperties
<1> DEFINE m == Min(T)
           n == m - 1
<1>4. n \in Int /\ n <= Len(a)
  <2>1. m \in 1..(Len(a) + 1)
    BY <1>2, <1>3
  <2> HIDE DEF m
  <2> QED BY <1>1, <2>1
<1> HIDE DEF n
<1>5. SubSeq(a, 5, n) \in Seq(Symbol)
  BY <1>1, <1>4, SubSeqType
<1> QED BY <1>5 DEF NetHost, m, n, T

\* An action without its operation is text.
LEMMA PrefixType ==
  ASSUME NEW a \in Action
  PROVE  /\ Prefix(a) \in Seq(Symbol) /\ Len(Prefix(a)) = LastColon(a) - 1
         /\ \A i \in 1..(LastColon(a) - 1) : Prefix(a)[i] = a[i]
         /\ Prefix(a) \o <<":", "*">> \in Seq(Symbol)
<1> DEFINE c == LastColon(a)
           p == Prefix(a)
<1>1. a \in Seq(Symbol) /\ Len(a) \in Nat /\ c \in 1..Len(a)
  BY ActionType
<1>2. p = SubSeq(a, 1, c - 1)
  BY DEF Prefix
<1> HIDE DEF c, p
<1>3. c - 1 \in Int /\ \A i \in 1..(c - 1) : a[i] \in Symbol
  BY <1>1
<1>4. /\ p \in Seq(Symbol) /\ Len(p) = IF 1 <= c - 1 THEN c - 1 - 1 + 1 ELSE 0
      /\ \A i \in 1..(c - 1 - 1 + 1) : p[i] = a[1 + i - 1]
  BY <1>2, <1>3, SubSeqProperties
<1>5. Len(p) = c - 1 /\ \A i \in 1..(c - 1) : p[i] = a[i]
  <2>1. c - 1 - 1 + 1 = c - 1 /\ \A i \in 1..(c - 1) : 1 + i - 1 = i
    BY <1>1
  <2> QED BY <1>1, <1>4, <2>1
<1>6. p \o <<":", "*">> \in Seq(Symbol)
  BY <1>4, WrittenSymbols
<1> QED BY <1>4, <1>5, <1>6 DEF c, p

\* What each action becomes, and what each glob is made from.
Globs(actions, G) ==
  /\ \A a \in actions :
       \/ a[1] = "net" /\ HostGlob(NetHost(a)) \in G
       \/ Prefix(a) \o <<":", "*">> \in G
       \/ a \in G
  /\ \A g \in G : \E a \in actions :
       \/ a[1] = "net" /\ g = HostGlob(NetHost(a))
       \/ Grouped(a) /\ g = Prefix(a) \o <<":", "*">>
       \/ a[1] # "net" /\ g = a

\* Every glob of generate stems from an action, and every action has its glob.
LEMMA CollapsedProperties ==
  ASSUME NEW actions, actions \subseteq Action, IsFiniteSet(actions)
  PROVE  /\ Collapsed(actions) \subseteq Seq(Symbol) \ {<<>>}
         /\ IsFiniteSet(Collapsed(actions))
         /\ Globs(actions, Collapsed(actions))
<1> DEFINE nets == {a \in actions : a[1] = "net"}
           groups == {a \in actions : Grouped(a)}
           Alone(a) == \A b \in groups : Prefix(b) = Prefix(a) => b = a
           N == {HostGlob(NetHost(a)) : a \in nets}
           M == {IF Alone(a) THEN a ELSE Prefix(a) \o <<":", "*">> : a \in groups}
           R == actions \ (nets \cup groups)
           G == Collapsed(actions)
<1>1. G = N \cup M \cup R
  BY Zenon DEF Collapsed
<1>2. \A a \in actions : a \in Action /\ (Grouped(a) => a[1] # "net")
  BY DEF Grouped
<1>3. IsFiniteSet(G)
  <2>1. IsFiniteSet(nets) /\ IsFiniteSet(groups) /\ IsFiniteSet(R)
    BY FS_Subset
  <2>2. IsFiniteSet(N)
    <3> DEFINE f == [a \in nets |-> HostGlob(NetHost(a))]
    <3>1. DOMAIN f = nets /\ N = {f[a] : a \in nets}
      OBVIOUS
    <3> HIDE DEF f, N, nets
    <3> QED BY <2>1, <3>1, ImageFinite, Zenon
  <2>3. IsFiniteSet(M)
    <3> DEFINE f == [a \in groups |-> IF Alone(a) THEN a ELSE Prefix(a) \o <<":", "*">>]
    <3> HIDE DEF Alone
    <3>1. DOMAIN f = groups /\ M = {f[a] : a \in groups}
      OBVIOUS
    <3> HIDE DEF f, M, groups
    <3> QED BY <2>1, <3>1, ImageFinite, Zenon
  <2> HIDE DEF N, M, R, G
  <2>4. IsFiniteSet(N \cup M)
    BY <2>2, <2>3, FS_Union
  <2>5. IsFiniteSet((N \cup M) \cup R)
    BY <2>1, <2>4, FS_Union
  <2> QED BY <1>1, <2>5
<1>4. \A a \in actions : \/ a[1] = "net" /\ HostGlob(NetHost(a)) \in G
                         \/ Prefix(a) \o <<":", "*">> \in G
                         \/ a \in G
  <2> HIDE DEF Alone, G
  <2> SUFFICES ASSUME NEW a \in actions
               PROVE  \/ a[1] = "net" /\ HostGlob(NetHost(a)) \in G
                      \/ Prefix(a) \o <<":", "*">> \in G
                      \/ a \in G
    OBVIOUS
  <2>1. CASE a \in nets
    BY <1>1, <2>1
  <2>2. CASE a \in groups
    <3>1. (IF Alone(a) THEN a ELSE Prefix(a) \o <<":", "*">>) \in M
      BY <2>2
    <3> HIDE DEF M
    <3>2. a \in G \/ Prefix(a) \o <<":", "*">> \in G
      BY <1>1, <3>1, Zenon
    <3> QED BY <3>2
  <2>3. CASE a \in R
    BY <1>1, <2>3
  <2> QED BY <2>1, <2>2, <2>3
<1>5. \A g \in G : \E a \in actions : \/ a[1] = "net" /\ g = HostGlob(NetHost(a))
                                      \/ Grouped(a) /\ g = Prefix(a) \o <<":", "*">>
                                      \/ a[1] # "net" /\ g = a
  <2> HIDE DEF Alone
  <2>1. \A g \in N : \E a \in actions : a[1] = "net" /\ g = HostGlob(NetHost(a))
    OBVIOUS
  <2>2. \A g \in M : \E a \in actions : Grouped(a) /\ (g = a \/ g = Prefix(a) \o <<":", "*">>)
    BY Zenon
  <2>3. \A g \in R : g \in actions /\ g[1] # "net"
    OBVIOUS
  <2> HIDE DEF N, M, R, G
  <2> QED BY <1>1, <1>2, <2>1, <2>2, <2>3
<1>6. \A g \in G : g \in Seq(Symbol) \ {<<>>}
  <2>0. \A a \in actions : a \in Seq(Symbol) \ {<<>>}
    <3>1. \A a \in actions : a \in Seq(Symbol) /\ Len(a) # 0
      BY <1>2, ActionType
    <3> QED BY <3>1
  <2>1. \A a \in actions : HostGlob(NetHost(a)) \in Seq(Symbol) /\ HostGlob(NetHost(a)) # <<>>
    <3> SUFFICES ASSUME NEW a \in actions
                 PROVE  HostGlob(NetHost(a)) \in Seq(Symbol) /\ HostGlob(NetHost(a)) # <<>>
      OBVIOUS
    <3> DEFINE h == NetHost(a)
    <3>1. h \in Seq(Symbol)
      BY <1>2, NetHostType
    <3> HIDE DEF h
    <3>2. HostGlob(h) \in Seq(Symbol)
      BY <3>1, HostGlobType
    <3>3. HostGlob(h) # <<>>
      <4>1. (<<"net", ":", "*", ":">> \o h) \o <<"/", "*">> # <<>>
        BY <3>1
      <4> QED BY <4>1 DEF HostGlob
    <3> QED BY <3>2, <3>3 DEF h
  <2>2. \A a \in actions : Prefix(a) \o <<":", "*">> \in Seq(Symbol) /\ Prefix(a) \o <<":", "*">> # <<>>
    <3> SUFFICES ASSUME NEW a \in actions
                 PROVE  Prefix(a) \o <<":", "*">> \in Seq(Symbol) /\ Prefix(a) \o <<":", "*">> # <<>>
      OBVIOUS
    <3> DEFINE p == Prefix(a)
    <3>1. p \in Seq(Symbol) /\ p \o <<":", "*">> \in Seq(Symbol)
      BY <1>2, PrefixType
    <3> HIDE DEF p
    <3>2. p \o <<":", "*">> # <<>>
      BY <3>1
    <3> QED BY <3>1, <3>2 DEF p
  <2> HIDE DEF G
  <2> SUFFICES ASSUME NEW g \in G PROVE g \in Seq(Symbol) \ {<<>>}
    OBVIOUS
  <2>3. PICK a \in actions : \/ g = HostGlob(NetHost(a)) \/ g = Prefix(a) \o <<":", "*">> \/ g = a
    BY <1>5
  <2> QED BY <2>0, <2>1, <2>2, <2>3, Zenon
<1> HIDE DEF G
<1>7. Globs(actions, G)
  BY <1>4, <1>5, Zenon DEF Globs
<1>8. G \subseteq Seq(Symbol) \ {<<>>}
  BY <1>6, Zenon
<1> QED BY <1>3, <1>7, <1>8, Zenon DEF G

\* The actions of finitely many decisions are finitely many actions.
LEMMA CodifiedProperties ==
  ASSUME NEW decisions, decisions \subseteq Logged, IsFiniteSet(decisions)
  PROVE  Codified(decisions) \subseteq Action /\ IsFiniteSet(Codified(decisions))
<1> DEFINE D == {d \in decisions : ReadsAllowed(d)}
           f == [e \in D |-> Canonical[e.req]]
<1>1. Codified(decisions) = {Canonical[e.req] : e \in D}
  BY DEF Codified
<1>2. IsFiniteSet(D)
  BY FS_Subset
<1>3. \A e \in D : Canonical[e.req] \in Action
  BY TemplatesAssumption
<1>4. DOMAIN f = D /\ {Canonical[e.req] : e \in D} = {f[e] : e \in D}
  OBVIOUS
<1> HIDE DEF D, f
<1>5. IsFiniteSet({f[e] : e \in D})
  BY <1>2, <1>4, ImageFinite, Zenon
<1>6. IsFiniteSet(Codified(decisions))
  BY <1>1, <1>4, <1>5, Zenon
<1>7. Codified(decisions) \subseteq Action
  BY <1>1, <1>3
<1> QED BY <1>6, <1>7

\* What generate writes is read back as what it generated.
LEMMA GenerationProperties ==
  ASSUME NEW name \in Names, NEW decisions, decisions \subseteq Logged, IsFiniteSet(decisions)
  PROVE  /\ Generation(name, decisions) \in Policy
         /\ Generated(name, decisions) \in Seq(Symbol)
         /\ Parse(Generated(name, decisions)) = {Generation(name, decisions)}
<1> DEFINE G == Collapsed(Codified(decisions))
           P == Permits(G)
           gen == Generation(name, decisions)
<1>1. G \subseteq Seq(Symbol) /\ IsFiniteSet(G)
  BY CodifiedProperties, CollapsedProperties
<1> HIDE DEF G
<1>2. P \in Seq(Statement)
  BY <1>1, PermitsProperties
<1>3. gen = [name |-> name, description |-> <<"Auto-generated">>, statements |-> P]
  BY DEF Generation, G
<1> HIDE DEF P, gen
<1>4. name \in Seq(Symbol) /\ <<"Auto-generated">> \in Seq(Symbol)
  <2>1. "Auto-generated" \in Symbol
    BY WrittenSymbols DEF Written
  <2> QED BY <2>1, TemplatesAssumption
<1>5. gen \in Policy
  BY <1>2, <1>3, <1>4 DEF Policy
<1>6. Generated(name, decisions) = Emit(gen)
  BY DEF Generated, gen
<1> QED BY <1>5, <1>6, EmitParts, EmitReadBack DEF gen

\* A provider is text.
LEMMA ProviderType ==
  ASSUME NEW provider \in Providers
  PROVE  provider \in Seq(Symbol)
<1>1. provider \in Seq(Symbol \ Sign)
  BY TemplatesAssumption
<1> DEFINE S == Symbol \ Sign
<1>2. S \subseteq Symbol
  OBVIOUS
<1> HIDE DEF S
<1> QED BY <1>1, <1>2 DEF S

\* The globs of a scaffold are finitely many texts.
LEMMA ScaffoldGlobsType ==
  ASSUME NEW provider \in Providers
  PROVE  IsFiniteSet(ScaffoldGlobs(provider)) /\ ScaffoldGlobs(provider) \subseteq Seq(Symbol)
<1> DEFINE awsHead == <<"aws", "[profile=", "*", "]", ":">>
           awsEnds == {<<"s3", ":", "*">>, <<"ec2", ":", "Describe", "*">>, <<"sts", ":", "*">>}
           gcpHead == <<"gcp", "[project=", "*", "]", ":">>
           gcpEnds == {<<"storage", ":", "*">>, <<"compute", ":", "*">>}
           A == {awsHead \o e : e \in awsEnds}
           B == {gcpHead \o e : e \in gcpEnds}
           C == {HostGlob(<<"management.azure.com">>), HostGlob(<<"login.microsoftonline.com">>)}
           D == {HostGlob(<<"api.github.com">>), HostGlob(<<"github.com">>)}
           E == {HostGlob(provider \o <<".com">>)}
<1>1. \A a, b, c : IsFiniteSet({a}) /\ IsFiniteSet({a, b}) /\ IsFiniteSet({a, b, c})
  <2> SUFFICES ASSUME NEW a, NEW b, NEW c
               PROVE  IsFiniteSet({a}) /\ IsFiniteSet({a, b}) /\ IsFiniteSet({a, b, c})
    OBVIOUS
  <2>1. IsFiniteSet({a}) /\ IsFiniteSet({b}) /\ IsFiniteSet({c})
    BY FS_Singleton
  <2>2. IsFiniteSet({a} \cup {b}) /\ IsFiniteSet(({a} \cup {b}) \cup {c})
    BY <2>1, FS_Union
  <2>3. {a} \cup {b} = {a, b} /\ ({a} \cup {b}) \cup {c} = {a, b, c}
    OBVIOUS
  <2> QED BY <2>1, <2>2, <2>3
<1>2. \A x \in {"aws", "[profile=", "]", ":", "s3", "ec2", "Describe", "sts", "gcp", "[project=",
                "storage", "compute", "management.azure.com", "login.microsoftonline.com",
                "api.github.com", "github.com", ".com", "*"} : x \in Symbol
  BY WrittenSymbols DEF Written
<1>3. awsHead \in Seq(Symbol) /\ gcpHead \in Seq(Symbol)
  BY <1>2
<1>4. /\ \A e \in awsEnds \cup gcpEnds : e \in Seq(Symbol)
      /\ \A h, e \in Seq(Symbol) : h \o e \in Seq(Symbol)
  <2>1. \A x, y, z, w \in Symbol : <<x, y, z>> \in Seq(Symbol) /\ <<x, y, z, w>> \in Seq(Symbol)
    OBVIOUS
  <2>2. \A h, e \in Seq(Symbol) : h \o e \in Seq(Symbol)
    OBVIOUS
  <2>3. <<"s3", ":", "*">> \in Seq(Symbol) /\ <<"ec2", ":", "Describe", "*">> \in Seq(Symbol)
    BY <1>2, <2>1, Zenon
  <2>4. <<"sts", ":", "*">> \in Seq(Symbol) /\ <<"storage", ":", "*">> \in Seq(Symbol)
    BY <1>2, <2>1, Zenon
  <2>5. <<"compute", ":", "*">> \in Seq(Symbol)
    BY <1>2, <2>1, Zenon
  <2> QED BY <2>2, <2>3, <2>4, <2>5, Zenon
<1>5. IsFiniteSet(A) /\ A \subseteq Seq(Symbol)
  <2>1. A = {awsHead \o <<"s3", ":", "*">>, awsHead \o <<"ec2", ":", "Describe", "*">>,
             awsHead \o <<"sts", ":", "*">>}
    <3> HIDE DEF awsHead
    <3> QED OBVIOUS
  <2>2. IsFiniteSet(A)
    <3> HIDE DEF A, awsHead
    <3> QED BY <1>1, <2>1
  <2> HIDE DEF awsHead, awsEnds
  <2>3. \A e \in awsEnds : awsHead \o e \in Seq(Symbol)
    BY <1>3, <1>4, Zenon
  <2> QED BY <2>2, <2>3
<1>6. IsFiniteSet(B) /\ B \subseteq Seq(Symbol)
  <2>1. B = {gcpHead \o <<"storage", ":", "*">>, gcpHead \o <<"compute", ":", "*">>}
    <3> HIDE DEF gcpHead
    <3> QED OBVIOUS
  <2>2. IsFiniteSet(B)
    <3> HIDE DEF B, gcpHead
    <3> QED BY <1>1, <2>1
  <2> HIDE DEF gcpHead, gcpEnds
  <2>3. \A e \in gcpEnds : gcpHead \o e \in Seq(Symbol)
    BY <1>3, <1>4, Zenon
  <2> QED BY <2>2, <2>3
<1>7. C \subseteq Seq(Symbol) /\ D \subseteq Seq(Symbol)
  <2>1. \A x \in Symbol : HostGlob(<<x>>) \in Seq(Symbol)
    <3>1. \A x \in Symbol : <<x>> \in Seq(Symbol)
      OBVIOUS
    <3> QED BY <3>1, HostGlobType, Zenon
  <2> QED BY <1>2, <2>1
<1>8. E \subseteq Seq(Symbol)
  <2>1. provider \in Seq(Symbol) /\ ".com" \in Symbol
    BY <1>2, ProviderType
  <2>2. provider \o <<".com">> \in Seq(Symbol)
    BY <2>1
  <2> QED BY <2>2, HostGlobType
<1>9. IsFiniteSet(C) /\ IsFiniteSet(D) /\ IsFiniteSet(E)
  BY <1>1, Zenon
<1>10. ScaffoldGlobs(provider) \in {A, B, C, D, E}
  <2> HIDE DEF A, B, C, D, E
  <2>1. /\ provider = <<"aws">> => provider # <<"gcp">> /\ provider # <<"azure">> /\ provider # <<"github">>
        /\ provider = <<"gcp">> => provider # <<"azure">> /\ provider # <<"github">>
        /\ provider = <<"azure">> => provider # <<"github">>
    OBVIOUS
  <2>2. CASE provider = <<"aws">>
    <3>1. ScaffoldGlobs(provider) = A
      BY <2>1, <2>2, Zenon DEF ScaffoldGlobs, A, awsHead, awsEnds
    <3> QED BY <3>1
  <2>3. CASE provider = <<"gcp">>
    <3>1. ScaffoldGlobs(provider) = B
      BY <2>1, <2>3, Zenon DEF ScaffoldGlobs, B, gcpHead, gcpEnds
    <3> QED BY <3>1
  <2>4. CASE provider = <<"azure">>
    <3>1. ScaffoldGlobs(provider) = C
      BY <2>1, <2>4, Zenon DEF ScaffoldGlobs, C
    <3> QED BY <3>1
  <2>5. CASE provider = <<"github">>
    <3>1. ScaffoldGlobs(provider) = D
      BY <2>1, <2>5, Zenon DEF ScaffoldGlobs, D
    <3> QED BY <3>1
  <2>6. CASE provider \notin {<<"aws">>, <<"gcp">>, <<"azure">>, <<"github">>}
    <3>1. ScaffoldGlobs(provider) = E
      BY <2>6, Zenon DEF ScaffoldGlobs, E
    <3> QED BY <3>1
  <2> QED BY <2>2, <2>3, <2>4, <2>5, <2>6
<1> HIDE DEF A, B, C, D, E
<1> QED BY <1>5, <1>6, <1>7, <1>8, <1>9, <1>10

\* A scaffold is text.
LEMMA ScaffoldType ==
  ASSUME NEW provider \in Providers
  PROVE  Scaffold(provider) \in Seq(Symbol)
<1> DEFINE P == Permits(ScaffoldGlobs(provider))
           p == Scaffolding(provider)
<1>1. P \in Seq(Statement)
  BY ScaffoldGlobsType, PermitsProperties
<1>2. p = [name |-> provider \o <<"-", "full">>, description |-> <<"Allow">>, statements |-> P]
  BY DEF Scaffolding
<1>3. provider \o <<"-", "full">> \in Seq(Symbol) /\ <<"Allow">> \in Seq(Symbol)
  <2>1. "-" \in Symbol /\ "full" \in Symbol /\ "Allow" \in Symbol
    BY WrittenSymbols DEF Written
  <2> QED BY <2>1, ProviderType
<1> HIDE DEF P, p
<1>4. p \in Policy
  <2> DEFINE n == provider \o <<"-", "full">>
  <2> HIDE DEF n
  <2> QED BY <1>1, <1>2, <1>3 DEF Policy, n
<1> QED BY <1>4, EmitParts DEF Scaffold, p

\* Every text is a sequence of symbols that reads as at most one policy.
LEMMA TextsType ==
  ASSUME NEW text \in Texts
  PROVE  text \in Seq(Symbol) /\ Read[text] = Parse(text) /\ Read[text] \in OnePolicy
<1>1. text \in Seq(Symbol)
  <2>1. CASE text \in Drafts
    BY <2>1, TemplatesAssumption
  <2>2. CASE \E f \in DOMAIN Bundled : text = Bundled[f]
    BY <2>2, TemplatesAssumption
  <2>3. CASE \E p \in Providers : text = Scaffold(p)
    BY <2>3, ScaffoldType
  <2>4. CASE \E name \in Names, decisions \in SUBSET Logged :
               IsFiniteSet(decisions) /\ text = Generated(name, decisions)
    BY <2>4, GenerationProperties
  <2> QED BY <2>1, <2>2, <2>3, <2>4 DEF Texts
<1>2. Read[text] = Parse(text)
  BY DEF Read
<1> QED BY <1>1, <1>2, ParseType
-----------------------------------------------------------------------------
(***************************************************************************)
(* Globs.                                                                  *)
(***************************************************************************)
FitsStep(pattern, a, f, i) ==
  IF i > Len(pattern) THEN {Len(a) + 1}
  ELSE IF pattern[i] = "*" THEN
    {j \in 1 .. Len(a) + 1 :
       \/ \E k \in f[i + 1] : Reaches(pattern, i, a, j, k)
       \/ Component(pattern, i) /\ j \in f[i + 2]}
  ELSE {j \in 1 .. Len(a) : a[j] = pattern[i] /\ j + 1 \in f[i + 1]}

\* Fits satisfies its own recursion.
LEMMA FitsDefined ==
  ASSUME NEW pattern, NEW a, Len(pattern) \in Nat, Len(a) \in Nat
  PROVE  /\ Fits(pattern, a) \in [1..(Len(pattern) + 1) -> SUBSET (1..(Len(a) + 1))]
         /\ \A i \in 1..(Len(pattern) + 1) :
              Fits(pattern, a)[i] = FitsStep(pattern, a, Fits(pattern, a), i)
<1> DEFINE N == Len(pattern) + 1
           D == 1..N
           V == SUBSET (1..(Len(a) + 1))
           m == [i \in D |-> Len(pattern) + 2 - i]
           step == [i \in D |-> [g \in [D -> V] |-> FitsStep(pattern, a, g, i)]]
           Good(f) == f = [i \in D |-> FitsStep(pattern, a, f, i)]
<1>1. N \in Nat /\ V # {}
  <2>1. {} \in V
    OBVIOUS
  <2>2. V # {}
    BY <2>1, Zenon
  <2> QED BY <2>2
<1>2. m \in [D -> 1..N] /\ \A i, j \in D : j > i => m[j] < m[i]
  <2> DEFINE l == Len(pattern)
  <2>1. l \in Nat
    OBVIOUS
  <2> HIDE DEF l
  <2>2. \A i \in 1..(l + 1) : l + 2 - i \in 1..(l + 1)
    BY <2>1
  <2>3. \A i \in D : m[i] \in 1..N
    BY <2>2 DEF l
  <2>4. \A i, j \in 1..(l + 1) : j > i => l + 2 - j < l + 2 - i
    BY <2>1
  <2>5. \A i, j \in D : j > i => m[j] < m[i]
    BY <2>4 DEF l
  <2> QED BY <2>3, <2>5
<1>3. \A i \in D : \A g : FitsStep(pattern, a, g, i) \in V
  <2> SUFFICES ASSUME NEW i \in D, NEW g PROVE FitsStep(pattern, a, g, i) \in V
    OBVIOUS
  <2>1. {Len(a) + 1} \in V /\ \A j \in 1..Len(a) : j \in 1..(Len(a) + 1)
    OBVIOUS
  <2> QED BY <2>1 DEF FitsStep
<1>4. step \in [D -> [[D -> V] -> V]]
  BY <1>3
<1>5. ASSUME NEW i \in D, NEW g, NEW h, \A j \in D : m[j] < m[i] => g[j] = h[j]
      PROVE  FitsStep(pattern, a, g, i) = FitsStep(pattern, a, h, i)
  <2>1. \A j \in D : j > i => g[j] = h[j]
    BY <1>2, <1>5
  <2>2. /\ ~(i > Len(pattern)) => i + 1 \in D /\ i + 1 > i
        /\ Component(pattern, i) => i + 2 \in D /\ i + 2 > i
    BY DEF Component
  <2>3. /\ ~(i > Len(pattern)) => g[i + 1] = h[i + 1]
        /\ Component(pattern, i) => g[i + 2] = h[i + 2]
    BY <2>1, <2>2
  <2> QED BY <2>3, Zenon DEF FitsStep
<1>6. Recursion(N, D, m, V, step)
  <2>1. \A i \in D : \A g, h \in [D -> V] :
          (\A j \in D : m[j] < m[i] => g[j] = h[j]) => step[i][g] = step[i][h]
    BY <1>5
  <2> HIDE DEF N, D, V, m, step
  <2> QED BY <1>1, <1>2, <1>4, <2>1 DEF Recursion
<1>7. \A i \in D : \A g \in [D -> V] : step[i][g] = FitsStep(pattern, a, g, i)
  OBVIOUS
<1> HIDE DEF N, D, V, m, step
<1>8. \E f : Good(f)
  <2>1. PICK f \in [D -> V] : \A i \in D : f[i] = step[i][f]
    BY <1>6, RecursionDefined
  <2>2. \A i \in D : f[i] = FitsStep(pattern, a, f, i)
    BY <1>7, <2>1
  <2>3. f = [i \in D |-> f[i]]
    OBVIOUS
  <2> QED BY <2>2, <2>3
<1>9. Fits(pattern, a) = CHOOSE f : Good(f)
  BY Zenon DEF Fits, FitsStep, D, N
<1> DEFINE f == Fits(pattern, a)
<1> HIDE DEF f
<1>10. Good(f)
  <2> HIDE DEF Good
  <2> QED BY <1>8, <1>9, Zenon DEF f
<1>11. \A i \in D : f[i] = FitsStep(pattern, a, f, i)
  BY <1>10
<1>12. f \in [D -> V]
  <2>1. \A i \in D : f[i] \in V
    BY <1>3, <1>11, Zenon
  <2>2. f = [i \in D |-> f[i]]
    BY <1>10, <1>11
  <2> QED BY <2>1, <2>2
<1> QED BY <1>11, <1>12 DEF f, N, D, V

\* A pattern that goes along with the beginning of a, sign by sign or by a "*", and then
\* is at its end with a, or at a last "*".
Along(pattern, a, n) ==
  /\ n \in Nat /\ Len(pattern) \in Nat /\ Len(a) \in Nat /\ n <= Len(a)
  /\ \A i \in 1..n : (pattern[i] = "*" /\ a[i] # "/") \/ pattern[i] = a[i]
  /\ \/ Len(pattern) = n /\ Len(a) = n
     \/ Len(pattern) = n + 1 /\ pattern[n + 1] = "*"

\* A plain glob matches what agrees with it symbol by symbol, a star with no "/", up to
\* the end of both or to its last star.
LEMMA GlobAlong ==
  ASSUME NEW pattern, NEW a, NEW n, Along(pattern, a, n), Plain(pattern)
  PROVE  Glob(pattern, a)
<1>0. /\ n \in Nat /\ Len(pattern) \in Nat /\ Len(a) \in Nat /\ n <= Len(a)
      /\ \A i \in 1..n : (pattern[i] = "*" /\ a[i] # "/") \/ pattern[i] = a[i]
      /\ (Len(pattern) = n /\ Len(a) = n) \/ (Len(pattern) = n + 1 /\ pattern[n + 1] = "*")
  BY Zenon DEF Along
<1> DEFINE f == Fits(pattern, a)
           T == {k \in 0..n : n - k + 1 \in f[n - k + 1]}
<1>1. /\ f \in [1..(Len(pattern) + 1) -> SUBSET (1..(Len(a) + 1))]
      /\ \A i \in 1..(Len(pattern) + 1) : f[i] = FitsStep(pattern, a, f, i)
  BY <1>0, FitsDefined
<1> HIDE DEF f
<1>2. n + 1 \in f[n + 1]
  <2>1. n + 1 \in 1..(Len(pattern) + 1) /\ n + 1 \in 1..(Len(a) + 1)
    BY <1>0
  <2>2. CASE Len(pattern) = n /\ Len(a) = n
    <3>1. f[n + 1] = {Len(a) + 1}
      BY <1>0, <1>1, <2>1, <2>2 DEF FitsStep
    <3> QED BY <2>2, <3>1
  <2>3. CASE Len(pattern) = n + 1 /\ pattern[n + 1] = "*"
    <3>1. \A j \in 1 .. Len(a) + 1 :
            (\E k \in f[n + 1 + 1] : Reaches(pattern, n + 1, a, j, k)) => j \in f[n + 1]
      BY <1>0, <1>1, <2>1, <2>3 DEF FitsStep
    <3>2. n + 2 \in 1..(Len(pattern) + 1) /\ n + 1 + 1 = n + 2 /\ n + 2 > Len(pattern)
      BY <1>0, <2>3
    <3>3. f[n + 2] = {Len(a) + 1}
      BY <1>1, <3>2 DEF FitsStep
    <3>4. Reaches(pattern, n + 1, a, n + 1, Len(a) + 1) /\ Len(a) + 1 \in f[n + 1 + 1]
      BY <1>0, <2>3, <3>2, <3>3 DEF Reaches
    <3> QED BY <2>1, <3>1, <3>4
  <2> QED BY <1>0, <2>2, <2>3
<1>3. 0 \in T
  <2>1. n - 0 + 1 = n + 1 /\ 0 \in 0..n
    BY <1>0
  <2> QED BY <1>2, <2>1
<1>4. ASSUME NEW k \in 1..n, k - 1 \in T
      PROVE  k \in T
  <2> DEFINE i == n - k + 1
  <2>1. /\ i \in 1..n /\ i \in 1..(Len(pattern) + 1) /\ ~(i > Len(pattern)) /\ i \in 1..Len(a)
        /\ i \in 1..(Len(a) + 1) /\ n - (k - 1) + 1 = i + 1 /\ k \in 0..n /\ i <= i + 1
    BY <1>0
  <2>2. i + 1 \in f[i + 1]
    BY <1>4, <2>1
  <2> HIDE DEF i
  <2>3. f[i] = FitsStep(pattern, a, f, i) /\ ((pattern[i] = "*" /\ a[i] # "/") \/ pattern[i] = a[i])
    BY <1>0, <1>1, <2>1
  <2>4. CASE pattern[i] = "*" /\ a[i] # "/"
    <3>1. \A j \in 1 .. Len(a) + 1 : (\E q \in f[i + 1] : Reaches(pattern, i, a, j, q)) => j \in f[i]
      BY <2>1, <2>3, <2>4 DEF FitsStep
    <3>2. \A x \in i..(i + 1 - 1) : x = i
      BY <2>1
    <3>3. Reaches(pattern, i, a, i, i + 1)
      BY <2>1, <2>4, <3>2 DEF Reaches
    <3>4. i \in f[i]
      BY <2>1, <2>2, <3>1, <3>3
    <3> QED BY <2>1, <3>4 DEF i
  <2>5. CASE pattern[i] # "*"
    <3>1. f[i] = {j \in 1 .. Len(a) : a[j] = pattern[i] /\ j + 1 \in f[i + 1]}
      BY <2>1, <2>3, <2>5 DEF FitsStep
    <3>2. i \in f[i]
      BY <2>1, <2>2, <2>3, <2>5, <3>1
    <3> QED BY <2>1, <3>2 DEF i
  <2>6. CASE pattern[i] = "*" /\ pattern[i] = a[i]
    <3>1. a[i] # "/"
      BY <2>6
    <3> QED BY <2>4, <2>6, <3>1
  <2> QED BY <2>3, <2>4, <2>5, <2>6
<1> HIDE DEF T
<1>5. n \in T
  <2>1. 0..n \subseteq T
    BY <1>0, <1>3, <1>4, UpTo
  <2> QED BY <1>0, <2>1
<1>6. 1 \in f[1]
  <2>1. n - n + 1 = 1
    BY <1>0
  <2> QED BY <1>5, <2>1 DEF T
<1> QED BY <1>6 DEF Glob, f

\* From where the pattern is and a is, the next m symbols of both agree when they hold no "*".
LEMMA GlobLiteral ==
  ASSUME NEW pattern, NEW a, Len(pattern) \in Nat, Len(a) \in Nat,
         NEW i \in Nat \ {0}, NEW j \in Nat \ {0}, NEW m \in Nat, i - 1 + m <= Len(pattern),
         \A d \in 1..m : pattern[i - 1 + d] # "*",
         j \in Fits(pattern, a)[i]
  PROVE  /\ j - 1 + m <= Len(a)
         /\ \A d \in 1..m : a[j - 1 + d] = pattern[i - 1 + d]
         /\ j + m \in Fits(pattern, a)[i + m]
<1> DEFINE f == Fits(pattern, a)
           T == {d \in 0..m : j + d \in f[i + d]}
<1>1. /\ f \in [1..(Len(pattern) + 1) -> SUBSET (1..(Len(a) + 1))]
      /\ \A k \in 1..(Len(pattern) + 1) : f[k] = FitsStep(pattern, a, f, k)
  BY FitsDefined
<1>2. j \in f[i]
  OBVIOUS
<1> HIDE DEF f
<1>3. 0 \in T
  <2>1. j + 0 = j /\ i + 0 = i /\ 0 \in 0..m
    OBVIOUS
  <2> QED BY <1>2, <2>1
<1>4. ASSUME NEW d \in 1..m, d - 1 \in T
      PROVE  d \in T /\ j - 1 + d \in 1..Len(a) /\ a[j - 1 + d] = pattern[i - 1 + d]
  <2> DEFINE k == i - 1 + d
             l == j - 1 + d
  <2>1. l \in f[k]
    <3>1. i + (d - 1) = k /\ j + (d - 1) = l
      OBVIOUS
    <3> QED BY <1>4, <3>1
  <2>2. /\ k \in 1..(Len(pattern) + 1) /\ ~(k > Len(pattern)) /\ k + 1 = i + d /\ l + 1 = j + d
        /\ d \in 0..m
    OBVIOUS
  <2>3. pattern[k] # "*"
    OBVIOUS
  <2> HIDE DEF k, l
  <2>4. f[k] = {q \in 1 .. Len(a) : a[q] = pattern[k] /\ q + 1 \in f[k + 1]}
    BY <1>1, <2>2, <2>3, Zenon DEF FitsStep
  <2>5. l \in 1..Len(a) /\ a[l] = pattern[k] /\ l + 1 \in f[k + 1]
    BY <2>1, <2>4
  <2> QED BY <2>2, <2>5 DEF k, l
<1> HIDE DEF T
<1>5. 0..m \subseteq T
  BY <1>3, <1>4, UpTo
<1>6. \A d \in 1..m : j - 1 + d \in 1..Len(a) /\ a[j - 1 + d] = pattern[i - 1 + d]
  <2> SUFFICES ASSUME NEW d \in 1..m PROVE j - 1 + d \in 1..Len(a) /\ a[j - 1 + d] = pattern[i - 1 + d]
    OBVIOUS
  <2>1. d - 1 \in T
    BY <1>5
  <2> QED BY <1>4, <2>1, Zenon
<1>7. j - 1 + m <= Len(a)
  <2>1. CASE m = 0
    <3>1. i \in 1..(Len(pattern) + 1)
      BY <2>1
    <3>2. j \in 1..(Len(a) + 1)
      BY <1>1, <1>2, <3>1
    <3> QED BY <2>1, <3>2
  <2>2. CASE m # 0
    <3>1. m \in 1..m
      BY <2>2
    <3> QED BY <1>6, <3>1
  <2> QED BY <2>1, <2>2
<1>8. j + m \in f[i + m]
  <2>1. m \in 0..m
    OBVIOUS
  <2>2. m \in T
    BY <1>5, <2>1
  <2> QED BY <2>2 DEF T
<1> QED BY <1>6, <1>7, <1>8 DEF f
-----------------------------------------------------------------------------
(***************************************************************************)
(* What the parsers make of a request.                                     *)
(***************************************************************************)
IsSeq(u) == Len(u) \in Nat /\ u = [i \in 1..Len(u) |-> u[i]]

\* A sequence over a set is a sequence.
LEMMA SeqIs ==
  ASSUME NEW S, NEW u \in Seq(S)
  PROVE  IsSeq(u)
BY DEF IsSeq

\* A sequence is one over its own elements.
LEMMA IsSeqTyped ==
  ASSUME NEW u, IsSeq(u)
  PROVE  u \in Seq({u[i] : i \in 1..Len(u)})
<1> DEFINE S == {u[i] : i \in 1..Len(u)}
<1>1. Len(u) \in Nat /\ u = [i \in 1..Len(u) |-> u[i]]
  BY DEF IsSeq
<1>2. \A i \in 1..Len(u) : u[i] \in S
  OBVIOUS
<1> HIDE DEF S
<1>3. u \in [1..Len(u) -> S]
  BY <1>1, <1>2
<1>4. u \in Seq(S)
  BY <1>1, <1>3
<1> QED BY <1>4 DEF S

\* The elements of a concatenation.
LEMMA ConcatIs ==
  ASSUME NEW u, NEW v, IsSeq(u), IsSeq(v)
  PROVE  /\ IsSeq(u \o v) /\ Len(u \o v) = Len(u) + Len(v)
         /\ \A i \in 1..Len(u) : (u \o v)[i] = u[i]
         /\ \A i \in 1..Len(v) : (u \o v)[Len(u) + i] = v[i]
<1> DEFINE S == {u[i] : i \in 1..Len(u)}
           R == {v[i] : i \in 1..Len(v)}
           V == S \cup R
<1>1. u \in Seq(S) /\ v \in Seq(R)
  BY IsSeqTyped
<1> HIDE DEF S, R
<1>2. u \in Seq(V) /\ v \in Seq(V)
  BY <1>1
<1> HIDE DEF V
<1> DEFINE w == u \o v
<1>3. w \in Seq(V)
  BY <1>2
<1>4. /\ Len(w) = Len(u) + Len(v) /\ \A i \in 1..Len(u) : w[i] = u[i]
      /\ \A i \in 1..Len(v) : w[Len(u) + i] = v[i]
  BY <1>2
<1> HIDE DEF w
<1>5. IsSeq(w)
  BY <1>3, SeqIs
<1> QED BY <1>4, <1>5 DEF w

\* Tuples are sequences.
LEMMA TupleIs ==
  /\ IsSeq(<<>>)
  /\ \A a : IsSeq(<<a>>)
  /\ \A a, b : IsSeq(<<a, b>>)
  /\ \A a, b, c : IsSeq(<<a, b, c>>)
  /\ \A a, b, c, d : IsSeq(<<a, b, c, d>>)
  /\ \A a, b, c, d, e : IsSeq(<<a, b, c, d, e>>)
  /\ \A a, b, c, d, e, f, g : IsSeq(<<a, b, c, d, e, f, g>>)
BY DEF IsSeq

\* The first symbol of what starts with u.
LEMMA ConcatHead ==
  ASSUME NEW u, NEW v, IsSeq(u), IsSeq(v), Len(u) # 0
  PROVE  IsSeq(u \o v) /\ Len(u \o v) # 0 /\ (u \o v)[1] = u[1]
<1>1. /\ IsSeq(u \o v) /\ Len(u \o v) = Len(u) + Len(v)
      /\ \A i \in 1..Len(u) : (u \o v)[i] = u[i]
  BY ConcatIs
<1>2. Len(u) \in Nat /\ Len(v) \in Nat
  BY DEF IsSeq
<1> DEFINE w == u \o v
<1> HIDE DEF w
<1>3. IsSeq(w) /\ Len(w) = Len(u) + Len(v) /\ \A i \in 1..Len(u) : w[i] = u[i]
  BY <1>1 DEF w
<1>4. Len(w) # 0 /\ w[1] = u[1]
  BY <1>2, <1>3
<1> QED BY <1>3, <1>4 DEF w

\* The last symbol of what ends with v.
LEMMA ConcatLast ==
  ASSUME NEW u, NEW v, IsSeq(u), IsSeq(v), Len(v) # 0
  PROVE  IsSeq(u \o v) /\ Len(u \o v) # 0 /\ Last(u \o v) = Last(v)
<1>1. /\ IsSeq(u \o v) /\ Len(u \o v) = Len(u) + Len(v)
      /\ \A i \in 1..Len(v) : (u \o v)[Len(u) + i] = v[i]
  BY ConcatIs
<1>2. Len(u) \in Nat /\ Len(v) \in Nat
  BY DEF IsSeq
<1> DEFINE w == u \o v
<1> HIDE DEF w
<1>3. IsSeq(w) /\ Len(w) = Len(u) + Len(v) /\ \A i \in 1..Len(v) : w[Len(u) + i] = v[i]
  BY <1>1 DEF w
<1>4. Len(w) # 0 /\ w[Len(w)] = v[Len(v)]
  BY <1>2, <1>3
<1> QED BY <1>3, <1>4 DEF w, Last

\* What the assumptions say of a request.
LEMMA RequestType ==
  ASSUME NEW r \in Tame
  PROVE  /\ r.method \in Word /\ r.key \in Word
         /\ r.host \in Seq(Word) /\ r.host # <<>> /\ Len(r.host) \in Nat \ {0}
         /\ r.host[1] \in Word /\ Head(r.host) = r.host[1] /\ IsSeq(r.host)
         /\ r.path \in Seq(Word) /\ r.query \in Seq(Word) /\ r.target \in Seq(Word)
         /\ Canonical[r] \in Action /\ Canonical[r] = ParseAction(r)
<1>1. /\ r \in Requests /\ r.method \in Word /\ r.key \in Word
      /\ r.host \in Seq(Word) /\ r.host # <<>>
      /\ r.path \in Seq(Word) /\ r.query \in Seq(Word) /\ r.target \in Seq(Word)
  BY RequestsAssumption DEF Tame
<1> DEFINE h == r.host
<1> HIDE DEF h
<1>2. h \in Seq(Word) /\ h # <<>>
  BY <1>1 DEF h
<1>3. Len(h) \in Nat \ {0} /\ h[1] \in Word /\ Head(h) = h[1]
  BY <1>2
<1>4. IsSeq(h)
  BY <1>2, SeqIs
<1>5. Canonical[r] \in Action /\ Canonical[r] = ParseAction(r)
  BY <1>1, TemplatesAssumption DEF Canonical
<1> QED BY <1>1, <1>3, <1>4, <1>5 DEF h

\* A path is written with a "/" first, and nothing but "/" and words.
LEMMA PathTextType ==
  ASSUME NEW path \in Seq(Word)
  PROVE  /\ PathText(path) \in Seq(Word \cup {"/"}) /\ Len(PathText(path)) \in Nat \ {0}
         /\ PathText(path)[1] = "/" /\ IsSeq(PathText(path))
<1> DEFINE S == Word \cup {"/"}
           ss == [i \in DOMAIN path |-> <<"/", path[i]>>]
           p == PathText(path)
<1>1. p \in Seq(S) /\ Len(p) # 0 /\ p[1] = "/"
  <2>1. CASE path = <<>>
    <3>1. p = <<"/">>
      BY <2>1 DEF PathText
    <3>2. "/" \in S
      OBVIOUS
    <3> HIDE DEF S, p
    <3> QED BY <3>1, <3>2
  <2>2. CASE path # <<>>
    <3>1. p = FlattenSeq(ss)
      BY <2>2 DEF PathText
    <3>2. Len(path) \in Nat \ {0} /\ DOMAIN path = 1..Len(path)
      BY <2>2
    <3>3. \A x \in Word : <<"/", x>> \in Seq(S)
      OBVIOUS
    <3>4. ss \in Seq(Seq(S)) /\ Len(ss) = Len(path)
      <4>1. \A i \in 1..Len(path) : <<"/", path[i]>> \in Seq(S)
        BY <3>3
      <4> HIDE DEF S
      <4> QED BY <3>2, <4>1
    <3>5. Len(ss[1]) = 2 /\ ss[1][1] = "/" /\ 1 \in 1..Len(ss) /\ 1 \in 1..Len(ss[1])
      BY <3>2, <3>4
    <3> HIDE DEF S, ss
    <3>6. FlattenSeq(ss) \in Seq(S) /\ \E off : Lie(ss, FlattenSeq(ss), off)
      BY <3>4, FlattenProperties
    <3>7. PICK off : Lie(ss, FlattenSeq(ss), off)
      BY <3>6
    <3> HIDE DEF p
    <3>8. p \in Seq(S) /\ Lie(ss, p, off)
      BY <3>1, <3>6, <3>7, Zenon
    <3>9. off[1 - 1] = 0 /\ off[1 - 1] + 1 \in 1..Len(p) /\ p[off[1 - 1] + 1] = ss[1][1]
      BY <3>5, <3>8 DEF Lie
    <3> QED BY <3>5, <3>8, <3>9
  <2> QED BY <2>1, <2>2
<1> HIDE DEF p, S
<1>2. Len(p) \in Nat \ {0}
  BY <1>1
<1>3. IsSeq(p)
  BY <1>1, SeqIs
<1> QED BY <1>1, <1>2, <1>3 DEF p, S

-----------------------------------------------------------------------------
\* a begins as u does.
Begins(u, a) == Len(u) <= Len(a) /\ \A i \in 1..Len(u) : a[i] = u[i]

\* A concatenation begins as its first part.
LEMMA BeginsConcat ==
  ASSUME NEW u, NEW v, IsSeq(u), IsSeq(v)
  PROVE  IsSeq(u \o v) /\ Begins(u, u \o v)
<1>1. /\ IsSeq(u \o v) /\ Len(u \o v) = Len(u) + Len(v)
      /\ \A i \in 1..Len(u) : (u \o v)[i] = u[i]
  BY ConcatIs
<1> DEFINE w == u \o v
<1> HIDE DEF w
<1>2. IsSeq(w) /\ Len(w) = Len(u) + Len(v) /\ \A i \in 1..Len(u) : w[i] = u[i]
  BY <1>1 DEF w
<1>3. Len(u) <= Len(w)
  BY <1>2 DEF IsSeq
<1> QED BY <1>2, <1>3 DEF w, Begins

\* What begins so still does with more behind it.
LEMMA BeginsStill ==
  ASSUME NEW u, NEW v, NEW w, IsSeq(u), IsSeq(v), IsSeq(w), Begins(u, v)
  PROVE  IsSeq(v \o w) /\ Begins(u, v \o w)
<1> DEFINE x == v \o w
<1>1. IsSeq(x) /\ Begins(v, x)
  BY BeginsConcat
<1> HIDE DEF x
<1>2. Len(u) \in Nat /\ Len(v) \in Nat /\ Len(x) \in Nat
  BY <1>1 DEF IsSeq
<1>3. Begins(u, x)
  BY <1>1, <1>2 DEF Begins
<1> QED BY <1>1, <1>3 DEF x

\* The named segments of a path are words.
LEMMA NamedType ==
  ASSUME NEW path \in Seq(Word)
  PROVE  Named(path) \in Seq(Word)
<1> DEFINE ss == [i \in DOMAIN path |-> IF path[i] = "" THEN <<>> ELSE <<path[i]>>]
<1>1. Named(path) = FlattenSeq(ss)
  BY DEF Named
<1>2. Len(path) \in Nat /\ DOMAIN path = 1..Len(path)
  OBVIOUS
<1>3. <<>> \in Seq(Word) /\ \A x \in Word : <<x>> \in Seq(Word)
  OBVIOUS
<1>4. ss \in Seq(Seq(Word))
  <2> DEFINE l == Len(path)
             V == Seq(Word)
             Kept(i) == IF path[i] = "" THEN <<>> ELSE <<path[i]>>
  <2>1. \A i \in 1..l : path[i] \in Word
    BY <1>2
  <2>2. \A i \in 1..l : Kept(i) \in V
    BY <1>3, <2>1
  <2>3. ss = [i \in 1..l |-> Kept(i)] /\ l \in Nat
    BY <1>2
  <2> HIDE DEF V, Kept, l, ss
  <2>4. ss \in Seq(V)
    BY <2>2, <2>3
  <2> QED BY <2>4 DEF V
<1> HIDE DEF ss
<1> QED BY <1>1, <1>4, FlattenProperties

\* The segment after a key is a word.
LEMMA AfterType ==
  ASSUME NEW path \in Seq(Word), NEW key, NEW default
  PROVE  After(path, key, default) \in Word \cup {default}
<1> DEFINE at == {i \in 1..(Len(path) - 1) : path[i] = key}
<1>1. Len(path) \in Nat
  OBVIOUS
<1>2. CASE at = {}
  BY <1>2 DEF After
<1>3. CASE at # {}
  <2>1. at \in SUBSET Nat
    BY <1>1
  <2>2. Min(at) \in at
    BY <1>3, <2>1, MinProperties
  <2>3. Min(at) + 1 \in 1..Len(path)
    BY <1>1, <2>2
  <2>4. After(path, key, default) = path[Min(at) + 1]
    BY <1>3 DEF After
  <2> QED BY <2>3, <2>4
<1> QED BY <1>2, <1>3

\* A host without its domain.
LEMMA FrontType ==
  ASSUME NEW S, NEW s \in Seq(S), Len(s) > 1
  PROVE  /\ Front(s) \in Seq(S) /\ Len(Front(s)) = Len(s) - 1 /\ IsSeq(Front(s))
         /\ \A i \in 1..(Len(s) - 1) : Front(s)[i] = s[i]
<1> DEFINE f == Front(s)
<1>1. Len(s) \in Nat /\ f = SubSeq(s, 1, Len(s) - 1)
  BY DEF Front
<1>2. f \in Seq(S) /\ Len(f) = Len(s) - 1 /\ \A i \in 1..(Len(s) - 1) : f[i] = s[i]
  BY <1>1
<1> HIDE DEF f
<1>3. IsSeq(f)
  BY <1>2, SeqIs
<1> QED BY <1>2, <1>3 DEF f

-----------------------------------------------------------------------------
(***************************************************************************)
(* The resources of a GCP path are a sequence.                             *)
(***************************************************************************)
ResourcesStep(service, path, f, i) ==
  IF i > Len(path) THEN << >>
  ELSE IF path[i] \in Version \/ <<path[i]>> = service THEN f[i + 1]
  ELSE IF path[i] \in {"projects", "zones", "regions", "locations", "global"} THEN f[i + 2]
  ELSE IF path[i] \in Opaque \cup {""} THEN f[i + 1]
  ELSE <<path[i], ".">> \o f[i + 1]

\* The resources of a path are a sequence.
LEMMA ResourcesIs ==
  ASSUME NEW service, NEW path \in Seq(Word)
  PROVE  IsSeq(GcpResources(service, path))
<1> DEFINE l == Len(path)
           N == l + 2
           D == 1..N
           S == Word \cup {"."}
           V == Seq(S)
           m == [i \in D |-> l + 3 - i]
           Step(f, i) == ResourcesStep(service, path, f, i)
           step == [i \in D |-> [g \in [D -> V] |-> Step(g, i)]]
           Good(f) == f = [i \in D |-> Step(f, i)]
<1>1. l \in Nat /\ N \in Nat /\ 1 \in D /\ <<>> \in V /\ V # {}
  OBVIOUS
<1>2. m \in [D -> 1..N] /\ \A i, j \in D : j > i => m[j] < m[i]
  <2> HIDE DEF l
  <2>1. \A i \in 1..(l + 2) : l + 3 - i \in 1..(l + 2)
    BY <1>1
  <2>2. \A i, j \in 1..(l + 2) : j > i => l + 3 - j < l + 3 - i
    BY <1>1
  <2>3. \A i \in D : m[i] \in 1..N
    BY <2>1
  <2>4. \A i, j \in D : j > i => m[j] < m[i]
    BY <2>2
  <2> QED BY <2>3, <2>4
<1>3. ASSUME NEW i \in D, ~(i > l)
      PROVE  i + 1 \in D /\ i + 2 \in D /\ i + 1 > i /\ i + 2 > i /\ path[i] \in S
  BY <1>1, <1>3
<1>4. ASSUME NEW i \in D, NEW g \in [D -> V] PROVE Step(g, i) \in V
  <2>1. CASE i > l
    BY <1>1, <2>1 DEF ResourcesStep
  <2>2. CASE ~(i > l)
    <3>1. g[i + 1] \in V /\ g[i + 2] \in V /\ path[i] \in S
      BY <1>3, <2>2
    <3>2. "." \in S
      OBVIOUS
    <3> HIDE DEF S
    <3>3. <<path[i], ".">> \o g[i + 1] \in V
      BY <3>1, <3>2
    <3> HIDE DEF V
    <3> QED BY <2>2, <3>1, <3>3 DEF ResourcesStep
  <2> QED BY <2>1, <2>2
<1>5. ASSUME NEW i \in D, NEW g, NEW h, \A j \in D : m[j] < m[i] => g[j] = h[j]
      PROVE  Step(g, i) = Step(h, i)
  <2>1. ~(i > l) => g[i + 1] = h[i + 1] /\ g[i + 2] = h[i + 2]
    BY <1>2, <1>3, <1>5
  <2> QED BY <2>1, Zenon DEF ResourcesStep
<1>6. Recursion(N, D, m, V, step)
  <2>1. step \in [D -> [[D -> V] -> V]]
    <3> HIDE DEF Step, V, D
    <3> QED BY <1>4
  <2>2. \A i \in D : \A g, h \in [D -> V] :
          (\A j \in D : m[j] < m[i] => g[j] = h[j]) => step[i][g] = step[i][h]
    <3> HIDE DEF Step, V, D, m
    <3> QED BY <1>5
  <2> HIDE DEF N, D, V, m, step
  <2> QED BY <1>1, <1>2, <2>1, <2>2 DEF Recursion
<1>7. \A i \in D : \A g \in [D -> V] : step[i][g] = Step(g, i)
  OBVIOUS
<1>8. GcpResources(service, path) = (CHOOSE f : Good(f))[1]
  BY Zenon DEF GcpResources, ResourcesStep
<1> HIDE DEF N, D, V, m, step, Step
<1>9. \E f : Good(f)
  <2>1. PICK f \in [D -> V] : \A i \in D : f[i] = step[i][f]
    BY <1>6, RecursionDefined
  <2>2. \A i \in D : f[i] = Step(f, i)
    BY <1>7, <2>1
  <2>3. f = [i \in D |-> f[i]]
    OBVIOUS
  <2> QED BY <2>2, <2>3
<1> DEFINE f == CHOOSE f : Good(f)
<1>10. Good(f)
  <2> HIDE DEF Good
  <2> QED BY <1>9, Zenon
<1>11. GcpResources(service, path) = f[1]
  BY <1>8
<1> HIDE DEF f
<1>12. \A i \in D : f[i] = Step(f, i)
  BY <1>10
<1>13. f \in [D -> V]
  <2>1. ASSUME NEW i \in D, NEW g \in [D -> V], \A j \in D : m[j] < m[i] => g[j] = f[j]
        PROVE  f[i] = step[i][g]
    <3>1. Step(g, i) = Step(f, i)
      BY <1>5, <2>1
    <3> QED BY <1>7, <1>12, <3>1
  <2>2. f = [i \in D |-> f[i]]
    BY <1>10, <1>12
  <2>3. Follows(f, D, m, V, step)
    BY <2>1, <2>2 DEF Follows
  <2> QED BY <1>6, <2>3, RecursionTyped
<1>14. GcpResources(service, path) \in Seq(S)
  BY <1>1, <1>11, <1>13 DEF V
<1> QED BY <1>14, SeqIs

-----------------------------------------------------------------------------
(***************************************************************************)
(* The shapes of canonical actions: what each parser writes where.         *)
(***************************************************************************)
AwsShape(r, a) ==
  /\ Within(r, "amazonaws.com") /\ IsSeq(a)
  /\ Begins(<<"aws", "[profile=", r.key, "]", ":", Head(r.host), ":">>, a)

GcpShape(r, a) ==
  /\ Within(r, "googleapis.com") /\ IsSeq(a)
  /\ \E p \in Word \cup {"unknown"} : Begins(<<"gcp", "[project=", p, "]", ":">>, a)
  /\ a[6] = Head(r.host)
  /\ Len(a) >= Len(r.host) + 5 /\ a[Len(r.host) + 5] = ":"
  /\ Last(a) = CrudVerb(r.method, "insert")

GithubShape(r, a) ==
  /\ r.host = <<"api.github.com">> /\ IsSeq(a) /\ Len(a) # 0 /\ a[1] = "gh" /\ Last(a) = r.method

ManagementShape(r, a) ==
  /\ r.host = <<"management.azure.com">> /\ IsSeq(a)
  /\ Begins(<<"az", "[subscription=">>, a) /\ Last(a) = CrudVerb(r.method, "create")

DataShape(r, a) ==
  /\ Len(r.host) > 1 /\ IsSeq(a)
  /\ \E service \in {s \in DOMAIN DataPlane : Within(r, DataPlane[s])} :
       Begins(<<"az", "[account=">> \o Front(r.host) \o <<"]", ":", service, ":">>, a)
  /\ Last(a) = CrudVerb(r.method, "create")

K8sShape(r, a) ==
  \E resource \in K8sResources, named \in BOOLEAN :
    \/ a = <<"k8s", ":", resource, ":", K8sVerb(r, named)>>
    \/ \E ns \in Word :
         a = <<"k8s", "[ns=", ns, "]", ":", resource, ":", K8sVerb(r, named)>>

\* An S3 operation is a sequence.
LEMMA S3OperationIs ==
  ASSUME NEW method, NEW path \in Seq(Word)
  PROVE  IsSeq(S3Operation(method, path))
<1>1. IsSeq(PathText(path))
  BY PathTextType
<1>2. IsSeq(<<method, ":">>)
  BY TupleIs
<1>3. IsSeq(<<method, ":">> \o PathText(path))
  BY <1>1, <1>2, ConcatIs
<1>4. S3Parts(path) \in 0..2
  BY DEF S3Parts
<1>5. \A n \in 0..2 : IsSeq(<<<<"List", "Buckets">>, <<"List", "Objects">>, <<"Get", "Object">>>>[n + 1])
  BY TupleIs
<1> DEFINE n == S3Parts(path)
           thing == IF n = 1 THEN "Bucket" ELSE "Object"
           text == <<method, ":">> \o PathText(path)
           get == <<<<"List", "Buckets">>, <<"List", "Objects">>, <<"Get", "Object">>>>[n + 1]
           put == <<IF n = 1 THEN "Create" ELSE "Put", thing>>
           op == S3Operation(method, path)
<1>6. /\ method = "GET" => op = get
      /\ method = "PUT" => op = put
      /\ method = "DELETE" => op = <<"Delete", thing>>
      /\ method = "HEAD" => op = <<"Head", thing>>
      /\ method = "POST" => (n = 1 /\ op = <<"Post", "Object">>) \/ (n # 1 /\ op = text)
      /\ method \notin {"GET", "PUT", "DELETE", "HEAD", "POST"} => op = text
  BY DEF S3Operation
<1>7. IsSeq(get) /\ IsSeq(text)
  BY <1>3, <1>4, <1>5
<1>8. IsSeq(put) /\ IsSeq(<<"Delete", thing>>) /\ IsSeq(<<"Head", thing>>) /\ IsSeq(<<"Post", "Object">>)
  BY TupleIs
<1> HIDE DEF n, thing, text, get, put, op
<1>9. IsSeq(op)
  BY <1>6, <1>7, <1>8
<1> QED BY <1>9 DEF op

\* What try_parse_aws writes.
LEMMA AwsIs ==
  ASSUME NEW r \in Tame, Within(r, "amazonaws.com")
  PROVE  AwsShape(r, Aws(r))
<1> DEFINE u == <<"aws", "[profile=", r.key, "]", ":", Head(r.host), ":">>
           text == <<r.method, ":">> \o PathText(r.path)
           v == IF r.query # <<>> THEN r.query
                ELSE IF r.target # <<>> THEN r.target
                ELSE IF Head(r.host) = "s3" THEN S3Operation(r.method, r.path)
                ELSE text
<1>1. r.path \in Seq(Word) /\ r.query \in Seq(Word) /\ r.target \in Seq(Word)
  BY RequestType
<1>2. IsSeq(r.query) /\ IsSeq(r.target)
  BY <1>1, SeqIs
<1>3. IsSeq(S3Operation(r.method, r.path)) /\ IsSeq(PathText(r.path))
  BY <1>1, S3OperationIs, PathTextType
<1>4. IsSeq(<<r.method, ":">>) /\ IsSeq(u)
  BY TupleIs
<1>5. IsSeq(text)
  BY <1>3, <1>4, ConcatIs
<1> HIDE DEF text
<1>6. IsSeq(v)
  BY <1>2, <1>3, <1>5
<1>7. Aws(r) = u \o v
  BY DEF Aws, text
<1> HIDE DEF v
<1>8. IsSeq(u \o v) /\ Begins(u, u \o v)
  BY <1>4, <1>6, BeginsConcat
<1> QED BY <1>7, <1>8, Zenon DEF AwsShape

\* What try_parse_gcp writes.
LEMMA GcpIs ==
  ASSUME NEW r \in Tame, Within(r, "googleapis.com")
  PROVE  GcpShape(r, Gcp(r))
<1> DEFINE p == After(r.path, "projects", "unknown")
           u == <<"gcp", "[project=", p, "]", ":">>
           h == Front(r.host)
           c == <<":">>
           w == GcpResources(Front(r.host), r.path)
           v == <<CrudVerb(r.method, "insert")>>
           l == Len(r.host)
<1>1. r.path \in Seq(Word) /\ r.host \in Seq(Word) /\ Len(r.host) > 1 /\ Head(r.host) = r.host[1]
  BY RequestType DEF Within
<1>2. p \in Word \cup {"unknown"}
  BY <1>1, AfterType
<1>3. IsSeq(h) /\ Len(h) = l - 1 /\ h[1] = r.host[1] /\ l \in Nat /\ l > 1
  <2>1. l \in Nat /\ 1 \in 1..(l - 1)
    BY <1>1
  <2> QED BY <1>1, <2>1, FrontType
<1>4. IsSeq(w)
  BY <1>1, ResourcesIs
<1>5. IsSeq(u) /\ IsSeq(c) /\ IsSeq(v) /\ Len(v) # 0 /\ Last(v) = CrudVerb(r.method, "insert")
  BY TupleIs DEF Last
<1>6. Len(u) = 5 /\ Len(c) = 1 /\ c[1] = ":"
  OBVIOUS
<1>7. Gcp(r) = (((u \o h) \o c) \o w) \o v
  BY DEF Gcp
<1> HIDE DEF u, h, c, w, v, l, p
<1> DEFINE uh == u \o h
<1>8. IsSeq(uh) /\ Len(uh) = l + 4 /\ Begins(u, uh) /\ uh[6] = r.host[1]
  <2>1. /\ IsSeq(uh) /\ Len(uh) = Len(u) + Len(h) /\ Begins(u, uh)
        /\ \A i \in 1..Len(h) : uh[Len(u) + i] = h[i]
    <3>1. IsSeq(u) /\ IsSeq(h)
      BY <1>3, <1>5
    <3> QED BY <3>1, ConcatIs, BeginsConcat
  <2> HIDE DEF uh
  <2>2. 1 \in 1..Len(h) /\ Len(u) + 1 = 6 /\ Len(u) + Len(h) = l + 4
    BY <1>3, <1>6
  <2> QED BY <1>3, <2>1, <2>2
<1> HIDE DEF uh
<1> DEFINE uhc == uh \o c
<1>9. IsSeq(uhc) /\ Len(uhc) = l + 5 /\ Begins(u, uhc) /\ uhc[6] = r.host[1] /\ uhc[l + 5] = ":"
  <2>1. /\ IsSeq(uhc) /\ Len(uhc) = Len(uh) + Len(c) /\ Begins(u, uhc)
        /\ \A i \in 1..Len(uh) : uhc[i] = uh[i]
        /\ \A i \in 1..Len(c) : uhc[Len(uh) + i] = c[i]
    <3>1. IsSeq(uh) /\ IsSeq(c)
      BY <1>5, <1>8
    <3>2. IsSeq(u) /\ Begins(u, uh)
      BY <1>5, <1>8
    <3>3. IsSeq(uhc) /\ Begins(u, uhc)
      BY <3>1, <3>2, BeginsStill
    <3> HIDE DEF uhc
    <3> QED BY <3>1, <3>3, ConcatIs DEF uhc
  <2> HIDE DEF uhc
  <2>2. 6 \in 1..Len(uh) /\ Len(uh) + 1 = l + 5 /\ 1 \in 1..Len(c)
    BY <1>3, <1>6, <1>8
  <2> QED BY <1>6, <1>8, <2>1, <2>2
<1> HIDE DEF uhc
<1> DEFINE x == uhc \o w
           a == x \o v
<1>10. IsSeq(x) /\ Begins(uhc, x)
  BY <1>4, <1>9, BeginsConcat
<1> HIDE DEF x
<1>11. IsSeq(a) /\ Begins(uhc, a) /\ Last(a) = Last(v)
  BY <1>5, <1>9, <1>10, BeginsStill, ConcatLast
<1>12. a = Gcp(r)
  BY <1>7 DEF x, uhc, uh
<1> HIDE DEF a
<1>13. Begins(u, a) /\ a[6] = r.host[1] /\ Len(a) >= l + 5 /\ a[l + 5] = ":"
  <2>1. Len(u) \in Nat /\ Len(uhc) \in Nat /\ Len(a) \in Nat
    BY <1>5, <1>9, <1>11 DEF IsSeq
  <2>2. /\ Len(uhc) <= Len(a) /\ \A i \in 1..Len(uhc) : a[i] = uhc[i]
        /\ Len(u) <= Len(uhc) /\ \A i \in 1..Len(u) : uhc[i] = u[i]
    BY <1>9, <1>11 DEF Begins
  <2>3. 6 \in 1..Len(uhc) /\ l + 5 \in 1..Len(uhc)
    BY <1>3, <1>9
  <2>4. Begins(u, a)
    BY <2>1, <2>2 DEF Begins
  <2> QED BY <1>3, <1>9, <2>1, <2>2, <2>3, <2>4
<1> QED BY <1>1, <1>2, <1>5, <1>11, <1>12, <1>13 DEF GcpShape, u, l

\* What try_parse_github writes.
LEMMA GithubIs ==
  ASSUME NEW r \in Tame, r.host = <<"api.github.com">>
  PROVE  GithubShape(r, Github(r))
<1> DEFINE u == <<"gh", ":">>
           p == PathText(r.path)
           t == Tail(p)
           v == <<":", r.method>>
<1>1. r.path \in Seq(Word)
  BY RequestType
<1>2. p \in Seq(Word \cup {"/"}) /\ Len(p) \in Nat \ {0}
  BY <1>1, PathTextType
<1>3. IsSeq(t)
  <2> HIDE DEF p
  <2>1. p # <<>>
    BY <1>2
  <2>2. t \in Seq(Word \cup {"/"})
    BY <1>2, <2>1
  <2> QED BY <2>2, SeqIs
<1>4. IsSeq(u) /\ IsSeq(v) /\ Len(v) # 0 /\ Len(u) # 0 /\ Last(v) = r.method /\ u[1] = "gh"
  BY TupleIs DEF Last
<1>5. Github(r) = (u \o t) \o v
  BY DEF Github
<1> HIDE DEF u, p, t, v
<1>6. IsSeq(u \o t) /\ Len(u \o t) # 0 /\ (u \o t)[1] = u[1]
  BY <1>3, <1>4, ConcatHead
<1> DEFINE x == u \o t
           a == x \o v
<1> HIDE DEF x
<1>7. IsSeq(x) /\ Len(x) # 0 /\ x[1] = "gh"
  BY <1>4, <1>6 DEF x
<1>8. IsSeq(a) /\ Len(a) # 0 /\ a[1] = "gh" /\ Last(a) = r.method
  BY <1>4, <1>7, ConcatHead, ConcatLast
<1>9. a = Github(r)
  BY <1>5 DEF x
<1> HIDE DEF a
<1> QED BY <1>8, <1>9, Zenon DEF GithubShape

\* An Azure operation ends with the verb.
LEMMA AzureResourceIs ==
  ASSUME NEW name, NEW method
  PROVE  /\ IsSeq(AzureResource(name, method)) /\ Len(AzureResource(name, method)) # 0
         /\ Last(AzureResource(name, method)) = CrudVerb(method, "create")
<1> DEFINE u == IF name = "" THEN <<>> ELSE <<name, ".">>
           v == <<CrudVerb(method, "create")>>
           verb == CrudVerb(method, "create")
<1>0. v = <<verb>>
  OBVIOUS
<1> HIDE DEF verb
<1>1. IsSeq(u) /\ IsSeq(v) /\ Len(v) # 0 /\ Last(v) = verb
  <2>1. IsSeq(u)
    BY TupleIs
  <2>2. IsSeq(v) /\ Len(v) # 0 /\ Last(v) = verb
    BY <1>0, TupleIs DEF Last
  <2> QED BY <2>1, <2>2
<1>2. AzureResource(name, method) = u \o v
  BY DEF AzureResource, verb
<1> HIDE DEF u, v
<1> QED BY <1>1, <1>2, ConcatLast DEF verb

\* What try_parse_azure writes of the management host.
LEMMA ManagementIs ==
  ASSUME NEW r \in Tame, r.host = <<"management.azure.com">>, NEW a \in AzureManagement(r)
  PROVE  ManagementShape(r, a)
<1>1. PICK p, service, name :
        a = <<"az", "[subscription=", p, "]", ":", service, ":">> \o AzureResource(name, r.method)
  <2> DEFINE p == After(r.path, "subscriptions", "unknown")
             service == After(r.path, "providers", "")
             at == Min({i \in 1..Len(r.path) : r.path[i] = "providers"}) + 2
             name == IF at \in DOMAIN r.path THEN r.path[at] ELSE ""
  <2>1. a = <<"az", "[subscription=", p, "]", ":", service, ":">> \o AzureResource(name, r.method)
    <3>1. service # ""
      BY DEF AzureManagement
    <3>2. AzureManagement(r) = {<<"az", "[subscription=", p, "]", ":", service, ":">> \o AzureResource(name, r.method)}
      BY <3>1, Zenon DEF AzureManagement
    <3> HIDE DEF p, service, name
    <3> QED BY <3>2
  <2> HIDE DEF p, service, name
  <2> QED BY <2>1
<1> DEFINE u == <<"az", "[subscription=", p, "]", ":", service, ":">>
           v == AzureResource(name, r.method)
           b == <<"az", "[subscription=">>
<1>2. IsSeq(u) /\ IsSeq(b) /\ Begins(b, u)
  BY TupleIs DEF Begins
<1>3. IsSeq(v) /\ Len(v) # 0 /\ Last(v) = CrudVerb(r.method, "create")
  BY AzureResourceIs
<1>4. a = u \o v
  BY <1>1
<1> HIDE DEF u, v, b
<1>5. IsSeq(a) /\ Begins(b, a) /\ Last(a) = Last(v)
  BY <1>2, <1>3, <1>4, BeginsStill, ConcatLast
<1> QED BY <1>3, <1>5 DEF ManagementShape, b

\* What try_parse_azure writes of a data plane.
LEMMA DataIs ==
  ASSUME NEW r \in Tame, NEW a \in AzureData(r)
  PROVE  DataShape(r, a)
<1> DEFINE v == AzureResource(Head(Named(r.path) \o <<"">>), r.method)
           h == Front(r.host)
<1>1. PICK service \in {s \in DOMAIN DataPlane : Within(r, DataPlane[s])} :
        a = ((<<"az", "[account=">> \o h) \o <<"]", ":", service, ":">>) \o v
  <2> HIDE DEF v, h
  <2> QED BY Zenon DEF AzureData, v, h
<1>2. Len(r.host) > 1 /\ IsSeq(h)
  <2>1. Len(r.host) > 1 /\ r.host \in Seq(Word)
    BY RequestType DEF Within
  <2> QED BY <2>1, FrontType
<1>3. IsSeq(v) /\ Len(v) # 0 /\ Last(v) = CrudVerb(r.method, "create")
  BY AzureResourceIs
<1> DEFINE b == <<"az", "[account=">>
           c == <<"]", ":", service, ":">>
<1>4. IsSeq(b) /\ IsSeq(c)
  BY TupleIs
<1> HIDE DEF b, c, v, h
<1>5. IsSeq(b \o h)
  BY <1>2, <1>4, ConcatIs
<1>6. IsSeq((b \o h) \o c)
  BY <1>4, <1>5, ConcatIs
<1> DEFINE u == (b \o h) \o c
<1>7. a = u \o v
  BY <1>1 DEF b, c
<1> HIDE DEF u
<1>8. IsSeq(u)
  BY <1>6 DEF u
<1>9. IsSeq(a) /\ Begins(u, a) /\ Last(a) = Last(v)
  BY <1>3, <1>7, <1>8, BeginsConcat, ConcatLast
<1> QED BY <1>2, <1>3, <1>9 DEF DataShape, u, b, c, h

\* Concatenations of short tuples, as K8s writes them.
LEMMA TwoThree ==
  ASSUME NEW a, NEW b, NEW x, NEW y, NEW z
  PROVE  <<a, b>> \o <<x, y, z>> = <<a, b, x, y, z>>
<1> DEFINE u == <<a, b>>
           v == <<x, y, z>>
           w == u \o v
<1>1. IsSeq(u) /\ IsSeq(v)
  BY TupleIs
<1>2. /\ Len(u) = 2 /\ u[1] = a /\ u[2] = b
      /\ Len(v) = 3 /\ v[1] = x /\ v[2] = y /\ v[3] = z
  OBVIOUS
<1> HIDE DEF u, v
<1>3. /\ IsSeq(w) /\ Len(w) = Len(u) + Len(v) /\ \A i \in 1..Len(u) : w[i] = u[i]
      /\ \A i \in 1..Len(v) : w[Len(u) + i] = v[i]
  BY <1>1, ConcatIs
<1> HIDE DEF w
<1>4. /\ Len(w) = 5
      /\ w[1] = a /\ w[2] = b /\ w[3] = x /\ w[4] = y /\ w[5] = z
  BY <1>2, <1>3
<1>5. w = [i \in 1..5 |-> w[i]]
  BY <1>3, <1>4 DEF IsSeq
<1>6. w = <<a, b, x, y, z>>
  BY <1>4, <1>5
<1> QED BY <1>6 DEF u, v, w

\* The same with a namespace.
LEMMA FiveThree ==
  ASSUME NEW a, NEW b, NEW c, NEW d, NEW e, NEW x, NEW y, NEW z
  PROVE  <<a, b, c, d, e>> \o <<x, y, z>> = <<a, b, c, d, e, x, y, z>>
<1> DEFINE u == <<a, b, c, d, e>>
           v == <<x, y, z>>
           w == u \o v
<1>1. IsSeq(u) /\ IsSeq(v)
  BY TupleIs
<1>2. /\ Len(u) = 5 /\ u[1] = a /\ u[2] = b /\ u[3] = c /\ u[4] = d /\ u[5] = e
      /\ Len(v) = 3 /\ v[1] = x /\ v[2] = y /\ v[3] = z
  OBVIOUS
<1> HIDE DEF u, v
<1>3. /\ IsSeq(w) /\ Len(w) = Len(u) + Len(v) /\ \A i \in 1..Len(u) : w[i] = u[i]
      /\ \A i \in 1..Len(v) : w[Len(u) + i] = v[i]
  BY <1>1, ConcatIs
<1> HIDE DEF w
<1>4. /\ Len(w) = 8
      /\ w[1] = a /\ w[2] = b /\ w[3] = c /\ w[4] = d /\ w[5] = e /\ w[6] = x /\ w[7] = y /\ w[8] = z
  BY <1>2, <1>3
<1>5. w = [i \in 1..8 |-> w[i]]
  BY <1>3, <1>4 DEF IsSeq
<1>6. w = <<a, b, c, d, e, x, y, z>>
  BY <1>4, <1>5
<1> QED BY <1>6 DEF u, v, w

\* What try_parse_k8s writes.
LEMMA K8sIs ==
  ASSUME NEW r \in Tame, NEW a \in K8s(r)
  PROVE  K8sShape(r, a)
<1> DEFINE path == Named(r.path)
           at == {i \in DOMAIN path : path[i] = "namespaces"}
           start == IF at # {} THEN Min(at) + 2 ELSE IF path[1] = "apis" THEN 4 ELSE 3
           resource == path[start]
           named == start + 1 \in DOMAIN path
           head == IF at = {} THEN <<"k8s", ":">> ELSE <<"k8s", "[ns=", path[start - 1], "]", ":">>
           tail == <<resource, ":", K8sVerb(r, named)>>
<1>1. path \in Seq(Word)
  BY RequestType, NamedType
<1>2. start \in DOMAIN path /\ resource \in K8sResources /\ a = head \o tail
  <2> DEFINE c == /\ Len(r.path) > 1 /\ r.path[1] \in {"api", "apis"}
                  /\ start \in DOMAIN path /\ path[start] \in K8sResources
  <2>1. K8s(r) = IF c THEN {head \o tail} ELSE {}
    BY Zenon DEF K8s
  <2> HIDE DEF head, tail, start, path
  <2>2. c /\ a = head \o tail
    <3> HIDE DEF c
    <3> QED BY <2>1
  <2> QED BY <2>2
<1>3. named \in BOOLEAN
  OBVIOUS
<1>4. at # {} => path[start - 1] \in Word
  <2> SUFFICES ASSUME at # {} PROVE path[start - 1] \in Word
    OBVIOUS
  <2>1. Len(path) \in Nat /\ DOMAIN path = 1..Len(path) /\ \A i \in 1..Len(path) : path[i] \in Word
    BY <1>1
  <2>2. at \in SUBSET Nat
    BY <2>1
  <2>3. start = Min(at) + 2
    OBVIOUS
  <2> HIDE DEF start, path
  <2>4. Min(at) \in at
    BY <2>2, MinProperties
  <2>5. Min(at) \in 1..Len(path) /\ start \in 1..Len(path)
    BY <1>2, <2>1, <2>4
  <2> HIDE DEF at
  <2>6. start - 1 \in 1..Len(path)
    BY <2>1, <2>3, <2>5
  <2> QED BY <2>1, <2>6
<1> DEFINE ns == path[start - 1]
           verb == K8sVerb(r, named)
<1>5. head = IF at = {} THEN <<"k8s", ":">> ELSE <<"k8s", "[ns=", ns, "]", ":">>
  OBVIOUS
<1>6. tail = <<resource, ":", verb>>
  OBVIOUS
<1>7. at # {} => ns \in Word
  BY <1>4
<1>8. verb = K8sVerb(r, named)
  OBVIOUS
<1> HIDE DEF path, at, start, resource, named, head, tail, ns, verb
<1>9. at = {} => a = <<"k8s", ":", resource, ":", verb>>
  <2> SUFFICES ASSUME at = {} PROVE a = <<"k8s", ":", resource, ":", verb>>
    OBVIOUS
  <2>1. a = <<"k8s", ":">> \o <<resource, ":", verb>>
    BY <1>2, <1>5, <1>6
  <2> QED BY <2>1, TwoThree
<1>10. at # {} => a = <<"k8s", "[ns=", ns, "]", ":", resource, ":", verb>>
  <2> SUFFICES ASSUME at # {} PROVE a = <<"k8s", "[ns=", ns, "]", ":", resource, ":", verb>>
    OBVIOUS
  <2>1. a = <<"k8s", "[ns=", ns, "]", ":">> \o <<resource, ":", verb>>
    BY <1>2, <1>5, <1>6
  <2> QED BY <2>1, FiveThree
<1> QED BY <1>2, <1>3, <1>7, <1>8, <1>9, <1>10, Zenon DEF K8sShape

NetShape(r, a) ==
  /\ a = NetForm(r) /\ IsSeq(a) /\ Len(a) >= Len(r.host) + 5
  /\ a[1] = "net" /\ a[2] = ":" /\ a[3] = r.method /\ a[4] = ":"
  /\ \A i \in 1..Len(r.host) : a[4 + i] = r.host[i]
  /\ a[Len(r.host) + 5] = "/"
  /\ \A i \in 5..Len(a) : a[i] \in Word \cup {"/"}

\* What parse_generic writes.
LEMMA NetIs ==
  ASSUME NEW r \in Tame
  PROVE  NetShape(r, NetForm(r))
<1> DEFINE u == <<"net", ":", r.method, ":">>
           h == r.host
           p == PathText(r.path)
           l == Len(h)
           n == Len(p)
           S == Word \cup {"/"}
<1>1. IsSeq(h) /\ l \in Nat /\ \A i \in 1..l : h[i] \in S
  BY RequestType
<1>2. IsSeq(p) /\ n \in Nat \ {0} /\ p[1] = "/" /\ \A i \in 1..n : p[i] \in S
  <2>1. r.path \in Seq(Word)
    BY RequestType
  <2>2. p \in Seq(S) /\ IsSeq(p) /\ n \in Nat \ {0} /\ p[1] = "/"
    BY <2>1, PathTextType
  <2> HIDE DEF p, S
  <2> QED BY <2>2
<1>3. IsSeq(u)
  BY TupleIs
<1>4. Len(u) = 4 /\ u[1] = "net" /\ u[2] = ":" /\ u[3] = r.method /\ u[4] = ":"
  OBVIOUS
<1>5. NetForm(r) = (u \o h) \o p
  BY DEF NetForm
<1> HIDE DEF u, h, p, l, n, S
<1> DEFINE x == u \o h
<1>6. /\ IsSeq(x) /\ Len(x) = Len(u) + Len(h) /\ \A i \in 1..Len(u) : x[i] = u[i]
      /\ \A i \in 1..Len(h) : x[Len(u) + i] = h[i]
  BY <1>1, <1>3, ConcatIs
<1> HIDE DEF x
<1>7. /\ Len(x) = 4 + l /\ x[1] = "net" /\ x[2] = ":" /\ x[3] = r.method /\ x[4] = ":"
      /\ \A i \in 1..l : x[4 + i] = h[i]
  BY <1>1, <1>4, <1>6 DEF l
<1> DEFINE a == x \o p
<1>8. /\ IsSeq(a) /\ Len(a) = Len(x) + Len(p) /\ \A i \in 1..Len(x) : a[i] = x[i]
      /\ \A i \in 1..Len(p) : a[Len(x) + i] = p[i]
  <2>1. IsSeq(x) /\ IsSeq(p)
    BY <1>2, <1>6
  <2> QED BY <2>1, ConcatIs
<1>9. a = NetForm(r)
  BY <1>5 DEF x
<1> HIDE DEF a
<1>10. /\ Len(a) = 4 + l + n /\ a[1] = "net" /\ a[2] = ":" /\ a[3] = r.method /\ a[4] = ":"
       /\ \A i \in 1..n : a[4 + l + i] = p[i]
  BY <1>1, <1>2, <1>7, <1>8 DEF n
<1>11. \A i \in 1..l : a[4 + i] = h[i]
  <2>1. \A i \in 1..l : 4 + i \in 1..Len(x)
    BY <1>1, <1>7
  <2> QED BY <1>7, <1>8, <2>1
<1>12. a[l + 5] = "/" /\ Len(a) >= l + 5
  <2>1. 1 \in 1..n /\ 4 + l + 1 = l + 5
    BY <1>1, <1>2
  <2>2. a[4 + l + 1] = p[1]
    BY <1>10, <2>1
  <2> QED BY <1>1, <1>2, <1>10, <2>1, <2>2
<1>13. \A i \in 5..Len(a) : a[i] \in S
  <2> SUFFICES ASSUME NEW i \in 5..Len(a) PROVE a[i] \in S
    OBVIOUS
  <2>1. CASE i <= 4 + l
    <3>1. i - 4 \in 1..l /\ 4 + (i - 4) = i
      BY <1>1, <1>2, <1>10, <2>1
    <3> QED BY <1>1, <1>11, <3>1
  <2>2. CASE ~(i <= 4 + l)
    <3>1. i - 4 - l \in 1..n /\ 4 + l + (i - 4 - l) = i
      BY <1>1, <1>2, <1>10, <2>2
    <3> QED BY <1>2, <1>10, <3>1
  <2> QED BY <2>1, <2>2
<1> QED BY <1>8, <1>9, <1>10, <1>11, <1>12, <1>13 DEF NetShape, h, l, S

\* Whatever the request, its canonical action has the shape of the parser that accepts it.
LEMMA CanonicalShapes ==
  ASSUME NEW r \in Tame
  PROVE  LET a == Canonical[r]
         IN \/ AwsShape(r, a) \/ GcpShape(r, a) \/ GithubShape(r, a) \/ ManagementShape(r, a)
            \/ DataShape(r, a) \/ K8sShape(r, a) \/ NetShape(r, a)
<1> DEFINE a == Canonical[r]
           X == IF Azure(r) # {} THEN Azure(r) ELSE IF K8s(r) # {} THEN K8s(r) ELSE {NetForm(r)}
           Aws1 == Within(r, "amazonaws.com")
           Gcp1 == Within(r, "googleapis.com")
           Hub1 == r.host = <<"api.github.com">>
<1>1. a = IF Aws1 THEN Aws(r) ELSE IF Gcp1 THEN Gcp(r) ELSE IF Hub1 THEN Github(r) ELSE CHOOSE x \in X : TRUE
  BY RequestType, Zenon DEF ParseAction
<1> HIDE DEF a
<1>2. CASE Aws1
  BY <1>1, <1>2, AwsIs DEF a
<1>3. CASE ~Aws1 /\ Gcp1
  BY <1>1, <1>3, GcpIs DEF a
<1>4. CASE ~Aws1 /\ ~Gcp1 /\ Hub1
  BY <1>1, <1>4, GithubIs DEF a
<1>5. CASE ~Aws1 /\ ~Gcp1 /\ ~Hub1
  <2>1. a \in X
    <3>1. a = CHOOSE x \in X : TRUE
      BY <1>1, <1>5
    <3>2. X # {}
      OBVIOUS
    <3> HIDE DEF X
    <3> QED BY <3>1, <3>2
  <2>2. CASE Azure(r) # {}
    <3>1. a \in Azure(r)
      BY <2>1, <2>2
    <3>2. CASE r.host = <<"management.azure.com">>
      <4>1. a \in AzureManagement(r)
        BY <3>1, <3>2 DEF Azure
      <4> QED BY <3>2, <4>1, ManagementIs DEF a
    <3>3. CASE r.host # <<"management.azure.com">>
      <4>1. a \in AzureData(r)
        BY <3>1, <3>3 DEF Azure
      <4> QED BY <4>1, DataIs DEF a
    <3> QED BY <3>2, <3>3
  <2>3. CASE Azure(r) = {} /\ K8s(r) # {}
    <3>1. a \in K8s(r)
      BY <2>1, <2>3
    <3> QED BY <3>1, K8sIs DEF a
  <2>4. CASE Azure(r) = {} /\ K8s(r) = {}
    <3>1. a = NetForm(r)
      BY <2>1, <2>4
    <3>2. NetShape(r, a)
      BY <3>1, NetIs
    <3> QED BY <3>2 DEF a
  <2> QED BY <2>2, <2>3, <2>4
<1> QED BY <1>2, <1>3, <1>4, <1>5

\* Symbol by symbol.
DataParts(r, a, service) ==
  /\ service \in DOMAIN DataPlane /\ Within(r, DataPlane[service]) /\ Len(a) >= Len(r.host) + 5
  /\ a[1] = "az" /\ a[2] = "[account="
  /\ \A i \in 1..(Len(r.host) - 1) : a[2 + i] = r.host[i]
  /\ a[Len(r.host) + 2] = "]" /\ a[Len(r.host) + 3] = ":" /\ a[Len(r.host) + 4] = service

\* Where the parts of a data plane action lie.
LEMMA DataPartsAre ==
  ASSUME NEW r \in Tame, NEW a, DataShape(r, a)
  PROVE  \E service : DataParts(r, a, service)
<1> DEFINE h == Front(r.host)
           l == Len(r.host)
           b == <<"az", "[account=">>
<1>1. l > 1 /\ IsSeq(a) /\ r.host \in Seq(Word) /\ l \in Nat
  BY RequestType DEF DataShape
<1>2. PICK service \in {s \in DOMAIN DataPlane : Within(r, DataPlane[s])} :
        Begins((b \o h) \o <<"]", ":", service, ":">>, a)
  BY Zenon DEF DataShape
<1> DEFINE c == <<"]", ":", service, ":">>
<1>3. Len(h) = l - 1 /\ IsSeq(h) /\ \A i \in 1..(l - 1) : h[i] = r.host[i]
  BY <1>1, FrontType
<1>4. IsSeq(b) /\ IsSeq(c)
  BY TupleIs
<1>5. /\ Len(b) = 2 /\ b[1] = "az" /\ b[2] = "[account="
      /\ Len(c) = 4 /\ c[1] = "]" /\ c[2] = ":" /\ c[3] = service /\ c[4] = ":"
  OBVIOUS
<1>6. Begins((b \o h) \o c, a)
  BY <1>2
<1> HIDE DEF h, l, b, c
<1> DEFINE x == b \o h
<1>7. /\ IsSeq(x) /\ Len(x) = Len(b) + Len(h) /\ \A i \in 1..Len(b) : x[i] = b[i]
      /\ \A i \in 1..Len(h) : x[Len(b) + i] = h[i]
  BY <1>3, <1>4, ConcatIs
<1> HIDE DEF x
<1>8. Len(x) = l + 1 /\ x[1] = "az" /\ x[2] = "[account=" /\ \A i \in 1..(l - 1) : x[2 + i] = r.host[i]
  BY <1>1, <1>3, <1>5, <1>7
<1> DEFINE y == x \o c
<1>9. /\ IsSeq(y) /\ Len(y) = Len(x) + Len(c) /\ \A i \in 1..Len(x) : y[i] = x[i]
      /\ \A i \in 1..Len(c) : y[Len(x) + i] = c[i]
  <2>1. IsSeq(x) /\ IsSeq(c)
    BY <1>4, <1>7
  <2> QED BY <2>1, ConcatIs
<1>10. Begins(y, a)
  BY <1>6 DEF x
<1> HIDE DEF y
<1>11. Len(y) = l + 5 /\ Len(a) >= l + 5 /\ \A i \in 1..(l + 5) : a[i] = y[i]
  <2>1. Len(y) = l + 5
    BY <1>1, <1>5, <1>8, <1>9
  <2>2. Len(a) \in Nat
    BY <1>1 DEF IsSeq
  <2> QED BY <1>1, <1>10, <2>1, <2>2 DEF Begins
<1>12. a[1] = "az" /\ a[2] = "[account="
  <2>1. /\ 1 \in 1..Len(x) /\ 2 \in 1..Len(x) /\ 1 \in 1..(l + 5) /\ 2 \in 1..(l + 5)
    BY <1>1, <1>8
  <2> QED BY <1>8, <1>9, <1>11, <2>1
<1>13. \A i \in 1..(l - 1) : a[2 + i] = r.host[i]
  <2>1. \A i \in 1..(l - 1) : 2 + i \in 1..Len(x) /\ 2 + i \in 1..(l + 5)
    BY <1>1, <1>8
  <2> QED BY <1>8, <1>9, <1>11, <2>1
<1>14. a[l + 2] = "]" /\ a[l + 3] = ":" /\ a[l + 4] = service
  <2>1. /\ Len(x) + 1 = l + 2 /\ Len(x) + 2 = l + 3 /\ Len(x) + 3 = l + 4
        /\ l + 2 \in 1..(l + 5) /\ l + 3 \in 1..(l + 5) /\ l + 4 \in 1..(l + 5)
        /\ 1 \in 1..Len(c) /\ 2 \in 1..Len(c) /\ 3 \in 1..Len(c)
    BY <1>1, <1>5, <1>8
  <2>2. y[l + 2] = c[1] /\ y[l + 3] = c[2] /\ y[l + 4] = c[3]
    BY <1>9, <2>1
  <2> QED BY <1>5, <1>11, <2>1, <2>2
<1>15. service \in DOMAIN DataPlane /\ Within(r, DataPlane[service])
  OBVIOUS
<1> QED BY <1>11, <1>12, <1>13, <1>14, <1>15 DEF DataParts, l

GcpParts(r, a) ==
  /\ Len(a) >= Len(r.host) + 5 /\ Len(r.host) > 1
  /\ a[1] = "gcp" /\ a[2] = "[project=" /\ a[3] \in Word \cup {"unknown"} /\ a[4] = "]" /\ a[5] = ":"
  /\ a[6] = Head(r.host) /\ a[Len(r.host) + 5] = ":"

\* Where the parts of a GCP action lie.
LEMMA GcpPartsAre ==
  ASSUME NEW r \in Tame, NEW a, GcpShape(r, a)
  PROVE  GcpParts(r, a)
<1>1. PICK p \in Word \cup {"unknown"} : Begins(<<"gcp", "[project=", p, "]", ":">>, a)
  BY DEF GcpShape
<1>2. Len(<<"gcp", "[project=", p, "]", ":">>) = 5
  OBVIOUS
<1>3. a[1] = "gcp" /\ a[2] = "[project=" /\ a[3] = p /\ a[4] = "]" /\ a[5] = ":"
  BY <1>1 DEF Begins
<1> QED BY <1>1, <1>3 DEF GcpParts, GcpShape, Within

AwsParts(r, a) ==
  /\ Len(a) >= 7 /\ a[1] = "aws" /\ a[2] = "[profile=" /\ a[3] = r.key /\ a[4] = "]" /\ a[5] = ":"
  /\ a[6] = Head(r.host) /\ a[7] = ":"

\* Where the parts of an AWS action lie.
LEMMA AwsPartsAre ==
  ASSUME NEW r \in Tame, NEW a, AwsShape(r, a)
  PROVE  AwsParts(r, a)
BY DEF AwsShape, AwsParts, Begins

\* The first symbol tells the parser.
LEMMA Heads ==
  ASSUME NEW r \in Tame
  PROVE  LET a == Canonical[r]
         IN \/ a[1] = "aws" /\ AwsShape(r, a)
            \/ a[1] = "gcp" /\ GcpShape(r, a)
            \/ a[1] = "gh" /\ GithubShape(r, a)
            \/ a[1] = "az" /\ a[2] = "[subscription=" /\ ManagementShape(r, a)
            \/ a[1] = "az" /\ a[2] = "[account=" /\ DataShape(r, a)
            \/ a[1] = "k8s" /\ K8sShape(r, a)
            \/ a[1] = "net" /\ NetShape(r, a)
<1> DEFINE a == Canonical[r]
<1> HIDE DEF a
<1>1. AwsShape(r, a) => a[1] = "aws"
  BY AwsPartsAre DEF AwsParts
<1>2. GcpShape(r, a) => a[1] = "gcp"
  BY GcpPartsAre DEF GcpParts
<1>3. GithubShape(r, a) => a[1] = "gh"
  BY DEF GithubShape
<1>4. ManagementShape(r, a) => a[1] = "az" /\ a[2] = "[subscription="
  BY DEF ManagementShape, Begins
<1>5. DataShape(r, a) => a[1] = "az" /\ a[2] = "[account="
  BY DataPartsAre DEF DataParts
<1>6. K8sShape(r, a) => a[1] = "k8s"
  BY DEF K8sShape
<1>7. NetShape(r, a) => a[1] = "net"
  BY DEF NetShape
<1>8. \/ AwsShape(r, a) \/ GcpShape(r, a) \/ GithubShape(r, a) \/ ManagementShape(r, a)
      \/ DataShape(r, a) \/ K8sShape(r, a) \/ NetShape(r, a)
  BY CanonicalShapes DEF a
<1> QED BY <1>1, <1>2, <1>3, <1>4, <1>5, <1>6, <1>7, <1>8, Zenon DEF a

-----------------------------------------------------------------------------
(***************************************************************************)
(* The globs of generate cover what they were generated from.              *)
(***************************************************************************)
LEMMA NetHostIs ==
  ASSUME NEW r \in Tame, NEW a, a \in Action, NetShape(r, a)
  PROVE  NetHost(a) = r.host
<1> DEFINE h == r.host
           l == Len(h)
           T == Position(a, "/") \cup {Len(a) + 1}
<1>1. h \in Seq(Word) /\ l \in Nat \ {0} /\ r.method \in Word
  BY RequestType
<1>2. a \in Seq(Symbol) /\ Len(a) \in Nat
  BY ActionType
<1>3. /\ Len(a) >= l + 5 /\ a[1] = "net" /\ a[2] = ":" /\ a[3] = r.method /\ a[4] = ":"
      /\ \A i \in 1..l : a[4 + i] = h[i]
      /\ a[l + 5] = "/"
  BY DEF NetShape
<1>4. \A x \in Word : x # "/"
  BY DEF Word
<1>5. Position(a, "/") \subseteq 1..Len(a) /\ \A i \in Position(a, "/") : a[i] = "/"
  BY <1>2, PositionType
<1>6. l + 5 \in Position(a, "/")
  <2>1. l + 5 \in 1..Len(a)
    BY <1>1, <1>2, <1>3
  <2> QED BY <1>2, <1>3, <2>1, PositionType
<1>7. \A i \in T : i >= l + 5
  <2> SUFFICES ASSUME NEW i \in T, ~(i >= l + 5) PROVE FALSE
    OBVIOUS
  <2>1. i \in 1..(l + 4) /\ a[i] = "/"
    BY <1>1, <1>2, <1>3, <1>5
  <2>2. a[i] # "/"
    <3>1. CASE i \in 1..4
      BY <1>1, <1>3, <1>4, <3>1
    <3>2. CASE i \notin 1..4
      <4>1. i - 4 \in 1..l /\ 4 + (i - 4) = i
        BY <1>1, <2>1, <3>2
      <4>2. a[i] = h[i - 4] /\ h[i - 4] \in Word
        BY <1>1, <1>3, <4>1
      <4> QED BY <1>4, <4>2
    <3> QED BY <3>1, <3>2
  <2> QED BY <2>1, <2>2
<1>8. T \in SUBSET Nat /\ T # {}
  BY <1>2, <1>5
<1>9. Min(T) = l + 5
  <2>1. Min(T) \in T /\ \A x \in T : Min(T) <= x
    BY <1>8, MinProperties
  <2>2. l + 5 \in T
    BY <1>6
  <2> DEFINE k == Min(T)
  <2>3. k \in Nat /\ k >= l + 5 /\ k <= l + 5
    BY <1>7, <1>8, <2>1, <2>2
  <2> HIDE DEF k, l, T
  <2>4. k = l + 5
    BY <1>1, <2>3
  <2> QED BY <2>4 DEF k
<1>10. NetHost(a) = SubSeq(a, 5, (l + 5) - 1)
  BY <1>9, Zenon DEF NetHost
<1> DEFINE n == NetHost(a)
<1>11. (l + 5) - 1 = l + 4 /\ l + 4 <= Len(a)
  BY <1>1, <1>2, <1>3
<1> HIDE DEF h, l, T
<1>12. n = SubSeq(a, 5, l + 4)
  BY <1>10, <1>11
<1> HIDE DEF n
<1>13. n \in Seq(Symbol) /\ Len(n) = l /\ \A i \in 1..l : n[i] = a[5 + i - 1]
  BY <1>1, <1>2, <1>11, <1>12
<1>14. \A i \in 1..l : n[i] = h[i]
  <2>1. \A i \in 1..l : 5 + i - 1 = 4 + i
    BY <1>1
  <2> QED BY <1>3, <1>13, <2>1
<1>15. n = h
  BY <1>1, <1>13, <1>14 DEF l
<1> QED BY <1>15 DEF n, h

HostGlobParts(g, h) ==
  /\ Len(g) = Len(h) + 6 /\ g[1] = "net" /\ g[2] = ":" /\ g[3] = "*" /\ g[4] = ":"
  /\ \A i \in 1..Len(h) : g[4 + i] = h[i]
  /\ g[Len(h) + 5] = "/" /\ g[Len(h) + 6] = "*"

\* Where the parts of the glob of a host lie.
LEMMA HostGlobPartsAre ==
  ASSUME NEW h, IsSeq(h)
  PROVE  HostGlobParts(HostGlob(h), h)
<1> DEFINE u == <<"net", ":", "*", ":">>
           v == <<"/", "*">>
           x == u \o h
           g == x \o v
           l == Len(h)
<1>1. IsSeq(u) /\ IsSeq(v) /\ l \in Nat
  BY TupleIs DEF IsSeq
<1>2. /\ Len(u) = 4 /\ u[1] = "net" /\ u[2] = ":" /\ u[3] = "*" /\ u[4] = ":"
      /\ Len(v) = 2 /\ v[1] = "/" /\ v[2] = "*"
  OBVIOUS
<1>3. g = HostGlob(h)
  BY DEF HostGlob
<1> HIDE DEF u, v
<1>4. /\ IsSeq(x) /\ Len(x) = Len(u) + Len(h) /\ \A i \in 1..Len(u) : x[i] = u[i]
      /\ \A i \in 1..Len(h) : x[Len(u) + i] = h[i]
  BY <1>1, ConcatIs
<1> HIDE DEF x
<1>5. IsSeq(x)
  BY <1>4
<1>6. /\ Len(g) = Len(x) + Len(v) /\ \A i \in 1..Len(x) : g[i] = x[i]
      /\ \A i \in 1..Len(v) : g[Len(x) + i] = v[i]
  BY <1>1, <1>5, ConcatIs
<1> HIDE DEF g, l
<1>7. /\ Len(x) = l + 4 /\ x[1] = "net" /\ x[2] = ":" /\ x[3] = "*" /\ x[4] = ":"
      /\ \A i \in 1..l : x[4 + i] = h[i]
  BY <1>1, <1>2, <1>4 DEF l
<1>8. \A i \in 1..l : g[4 + i] = h[i]
  <2>1. \A i \in 1..l : 4 + i \in 1..Len(x)
    BY <1>1, <1>7
  <2> QED BY <1>6, <1>7, <2>1
<1>9. Len(g) = l + 6 /\ g[1] = "net" /\ g[2] = ":" /\ g[3] = "*" /\ g[4] = ":"
  BY <1>1, <1>2, <1>6, <1>7
<1>10. g[l + 5] = "/" /\ g[l + 6] = "*"
  <2>1. Len(x) + 1 = l + 5 /\ Len(x) + 2 = l + 6 /\ 1 \in 1..Len(v) /\ 2 \in 1..Len(v)
    BY <1>1, <1>2, <1>7
  <2>2. g[Len(x) + 1] = v[1] /\ g[Len(x) + 2] = v[2]
    BY <1>6, <2>1
  <2> QED BY <1>2, <2>1, <2>2
<1>11. HostGlobParts(g, h)
  BY <1>8, <1>9, <1>10 DEF HostGlobParts, l
<1> QED BY <1>3, <1>11

\* Where the parts of the glob of a prefix lie.
LEMMA PrefixGlobParts ==
  ASSUME NEW a \in Action
  PROVE  LET g == Prefix(a) \o <<":", "*">>
         IN /\ Len(g) = LastColon(a) + 1 /\ g[LastColon(a) + 1] = "*"
            /\ \A i \in 1..LastColon(a) : g[i] = a[i]
<1> DEFINE p == Prefix(a)
           v == <<":", "*">>
           n == LastColon(a)
           g == p \o v
<1>1. Len(a) \in Nat \ {0} /\ n \in 1..Len(a) /\ a[n] = ":"
  BY ActionType
<1>2. p \in Seq(Symbol) /\ Len(p) = n - 1 /\ \A i \in 1..(n - 1) : p[i] = a[i]
  BY PrefixType
<1>3. Len(v) = 2 /\ v[1] = ":" /\ v[2] = "*"
  OBVIOUS
<1> HIDE DEF p, v, n
<1>4. IsSeq(p) /\ IsSeq(v)
  BY <1>2, SeqIs, TupleIs DEF v
<1>5. /\ Len(g) = Len(p) + Len(v) /\ \A i \in 1..Len(p) : g[i] = p[i]
      /\ \A i \in 1..Len(v) : g[Len(p) + i] = v[i]
  BY <1>4, ConcatIs
<1> HIDE DEF g
<1>6. g[n] = ":" /\ g[n + 1] = "*" /\ Len(g) = n + 1
  <2>1. Len(p) + 1 = n /\ Len(p) + 2 = n + 1 /\ 1 \in 1..Len(v) /\ 2 \in 1..Len(v)
    BY <1>1, <1>2, <1>3
  <2>2. g[Len(p) + 1] = v[1] /\ g[Len(p) + 2] = v[2]
    BY <1>5, <2>1
  <2> QED BY <1>3, <1>5, <2>1, <2>2
<1>7. \A i \in 1..n : g[i] = a[i]
  <2> SUFFICES ASSUME NEW i \in 1..n PROVE g[i] = a[i]
    OBVIOUS
  <2>1. CASE i = n
    BY <1>1, <1>6, <2>1
  <2>2. CASE i # n
    <3>1. i \in 1..(n - 1)
      BY <1>1, <2>2
    <3> QED BY <1>2, <1>5, <3>1
  <2> QED BY <2>1, <2>2
<1> QED BY <1>6, <1>7 DEF g, p, v, n

\* A pattern whose only star is its last symbol is plain.
LEMMA PlainPattern ==
  ASSUME NEW S, NEW g \in Seq(S), NEW n \in Nat, n <= Len(g), Len(g) <= n + 1,
         \A i \in 1..n : g[i] \notin Signed \cup {"*"}, Len(g) = n + 1 => g[n + 1] = "*"
  PROVE  Plain(g)
<1>1. DOMAIN g = 1..Len(g) /\ Len(g) \in Nat /\ "*" \notin Signed
  BY TemplatesAssumption
<1> SUFFICES ASSUME NEW i \in 1..Len(g)
             PROVE  g[i] \notin Signed /\ (i < Len(g) => {g[i], g[i + 1]} # {"*"})
  BY <1>1 DEF Plain
<1>2. CASE i \in 1..n
  <2>1. g[i] \notin Signed /\ g[i] # "*"
    BY <1>2
  <2> QED BY <2>1
<1>3. CASE i \notin 1..n
  <2> DEFINE l == Len(g)
  <2>1. l \in Nat /\ l <= n + 1 /\ i \in 1..l /\ i \notin 1..n
    BY <1>1, <1>3
  <2> HIDE DEF l
  <2>2. i = n + 1 /\ l = n + 1
    BY <2>1
  <2>3. i = n + 1 /\ Len(g) = n + 1
    BY <2>2 DEF l
  <2> QED BY <1>1, <2>3
<1> QED BY <1>2, <1>3

\* The globs that are made of an action without a sign are plain.
LEMMA PlainGlobs ==
  ASSUME NEW r \in Tame, NEW a \in Action, a = Canonical[r]
  PROVE  /\ Plain(a) /\ Plain(Prefix(a) \o <<":", "*">>)
         /\ NetShape(r, a) => Plain(HostGlob(NetHost(a)))
<1>1. a \in Seq(Symbol) /\ Len(a) \in Nat \ {0} /\ DOMAIN a = 1..Len(a) /\ "*" \notin Signed
  BY ActionType, TemplatesAssumption
<1>2. \A i \in 1..Len(a) : a[i] \notin Signed \cup {"*"}
  BY <1>1 DEF Tame
<1>3. Plain(a)
  BY <1>1, <1>2, PlainPattern
<1>4. Plain(Prefix(a) \o <<":", "*">>)
  <2> DEFINE g == Prefix(a) \o <<":", "*">>
             n == LastColon(a)
  <2>1. g \in Seq(Symbol) /\ n \in 1..Len(a)
    BY PrefixType, ActionType
  <2>2. Len(g) = n + 1 /\ g[n + 1] = "*" /\ \A i \in 1..n : g[i] = a[i]
    BY PrefixGlobParts
  <2> HIDE DEF g, n
  <2>3. \A i \in 1..n : g[i] \notin Signed \cup {"*"}
    BY <1>1, <1>2, <2>1, <2>2
  <2>4. n \in Nat /\ n <= Len(g) /\ Len(g) <= n + 1
    BY <1>1, <2>1, <2>2
  <2>5. Plain(g)
    BY <2>1, <2>2, <2>3, <2>4, PlainPattern, Zenon
  <2> QED BY <2>5 DEF g
<1>5. ASSUME NetShape(r, a) PROVE Plain(HostGlob(NetHost(a)))
  <2> DEFINE h == r.host
             g == HostGlob(h)
             l == Len(h)
  <2>1. NetHost(a) = h /\ h \in Seq(Symbol) /\ l \in Nat \ {0}
    BY <1>5, NetHostIs, NetHostType, RequestType
  <2>2. g \in Seq(Symbol) /\ IsSeq(h)
    BY <2>1, HostGlobType, RequestType
  <2>3. HostGlobParts(g, h)
    BY <2>2, HostGlobPartsAre
  <2>4. /\ Len(g) = l + 6 /\ g[1] = "net" /\ g[2] = ":" /\ g[3] = "*" /\ g[4] = ":"
        /\ \A i \in 1..l : g[4 + i] = h[i]
        /\ g[l + 5] = "/" /\ g[l + 6] = "*"
    BY <2>3 DEF HostGlobParts
  <2>5. /\ Len(a) >= l + 5 /\ a[1] = "net" /\ a[2] = ":" /\ a[4] = ":"
        /\ \A i \in 1..l : a[4 + i] = h[i]
        /\ a[l + 5] = "/"
    BY <1>5 DEF NetShape
  <2> HIDE DEF g, h, l
  <2>6. \A i \in 1..(l + 5) : i # 3 => g[i] = a[i]
    <3> SUFFICES ASSUME NEW i \in 1..(l + 5), i # 3 PROVE g[i] = a[i]
      OBVIOUS
    <3>1. CASE i \in 1..4
      BY <2>4, <2>5, <3>1
    <3>2. CASE i = l + 5
      BY <2>4, <2>5, <3>2
    <3>3. CASE i \notin 1..4 /\ i # l + 5
      <4>1. i - 4 \in 1..l /\ 4 + (i - 4) = i
        BY <2>1, <3>3
      <4> QED BY <2>4, <2>5, <4>1
    <3> QED BY <3>1, <3>2, <3>3
  <2>13. \A i \in 1..(l + 5) : i \in 1..Len(a)
    BY <1>1, <2>1, <2>5
  <2>7. \A i \in 1..(l + 5) : i # 3 => g[i] \notin Signed \cup {"*"}
    BY <1>2, <2>6, <2>13, Zenon
  <2>8. DOMAIN g = 1..(l + 6)
    BY <2>2, <2>4
  <2>12. (\A i \in 1..(l + 6) : g[i] \notin Signed /\ (i < l + 6 => {g[i], g[i + 1]} # {"*"}))
           => Plain(g)
    BY <2>4, <2>8, Zenon DEF Plain
  <2> SUFFICES ASSUME NEW i \in 1..(l + 6)
               PROVE  g[i] \notin Signed /\ (i < l + 6 => {g[i], g[i + 1]} # {"*"})
    BY <2>1, <2>12, Zenon DEF g
  <2>9. CASE i = 3
    BY <1>1, <2>1, <2>4, <2>9
  <2>10. CASE i = l + 6
    BY <1>1, <2>1, <2>4, <2>10
  <2>11. CASE i # 3 /\ i # l + 6
    <3>1. g[i] \notin Signed /\ g[i] # "*"
      BY <2>1, <2>7, <2>11
    <3> QED BY <3>1
  <2> QED BY <2>9, <2>10, <2>11
<1> QED BY <1>3, <1>4, <1>5

\* The glob of a host matches the actions of the host.
LEMMA CoveredByHost ==
  ASSUME NEW r \in Tame, NEW a, a \in Action, a = Canonical[r], NetShape(r, a)
  PROVE  Glob(HostGlob(NetHost(a)), a)
<1> DEFINE h == r.host
           l == Len(h)
           g == HostGlob(h)
           n == l + 5
<1>1. l \in Nat /\ IsSeq(h) /\ Len(a) \in Nat
  BY RequestType, ActionType
<1>0. a[3] # "/" /\ Plain(HostGlob(NetHost(a)))
  <2>1. a[3] = r.method /\ r.method \in Word
    BY RequestType DEF NetShape
  <2> QED BY <2>1, PlainGlobs DEF Word
<1>2. HostGlobParts(g, h) /\ NetHost(a) = h /\ Plain(g)
  BY <1>0, <1>1, HostGlobPartsAre, NetHostIs
<1>3. /\ Len(a) >= l + 5 /\ a[1] = "net" /\ a[2] = ":" /\ a[4] = ":"
      /\ \A i \in 1..l : a[4 + i] = h[i]
      /\ a[l + 5] = "/"
  BY DEF NetShape
<1>4. /\ Len(g) = l + 6 /\ g[1] = "net" /\ g[2] = ":" /\ g[3] = "*" /\ g[4] = ":"
      /\ \A i \in 1..l : g[4 + i] = h[i]
      /\ g[l + 5] = "/" /\ g[l + 6] = "*"
  BY <1>2 DEF HostGlobParts
<1> HIDE DEF g, l, h
<1>5. \A i \in 1..n : (g[i] = "*" /\ a[i] # "/") \/ g[i] = a[i]
  <2> SUFFICES ASSUME NEW i \in 1..n PROVE (g[i] = "*" /\ a[i] # "/") \/ g[i] = a[i]
    OBVIOUS
  <2>1. CASE i \in 1..4
    BY <1>0, <1>3, <1>4, <2>1
  <2>2. CASE i = l + 5
    BY <1>3, <1>4, <2>2
  <2>3. CASE i \notin 1..4 /\ i # l + 5
    <3>1. i - 4 \in 1..l /\ 4 + (i - 4) = i
      BY <1>1, <2>3
    <3> QED BY <1>3, <1>4, <3>1
  <2> QED BY <2>1, <2>2, <2>3
<1>6. n \in Nat /\ n <= Len(a) /\ Len(g) = n + 1 /\ Len(g) \in Nat /\ g[n + 1] = "*"
  <2>1. n + 1 = l + 6
    BY <1>1
  <2> QED BY <1>1, <1>3, <1>4, <2>1
<1> HIDE DEF n
<1>7. Along(g, a, n)
  BY <1>1, <1>5, <1>6 DEF Along
<1> QED BY <1>2, <1>7, GlobAlong DEF g

\* The glob of a prefix matches the actions with the prefix.
LEMMA CoveredByPrefix ==
  ASSUME NEW r \in Tame, NEW a \in Action, a = Canonical[r]
  PROVE  Glob(Prefix(a) \o <<":", "*">>, a)
<1> DEFINE g == Prefix(a) \o <<":", "*">>
           n == LastColon(a)
<1>1. Len(a) \in Nat \ {0} /\ n \in 1..Len(a)
  BY ActionType
<1>2. Len(g) = n + 1 /\ g[n + 1] = "*" /\ Plain(g) /\ \A i \in 1..n : g[i] = a[i]
  BY PrefixGlobParts, PlainGlobs
<1> HIDE DEF g, n
<1>3. Along(g, a, n)
  BY <1>1, <1>2 DEF Along
<1> QED BY <1>2, <1>3, GlobAlong DEF g

\* An action without a sign matches itself as a glob.
LEMMA CoveredByItself ==
  ASSUME NEW r \in Tame, NEW a \in Action, a = Canonical[r]
  PROVE  Glob(a, a)
<1>1. Len(a) \in Nat
  BY ActionType
<1>2. Along(a, a, Len(a))
  BY <1>1 DEF Along
<1> QED BY <1>2, PlainGlobs, GlobAlong

\* What generate collapses a set of actions to matches each of them that is tame.
LEMMA Covered ==
  ASSUME NEW decisions, decisions \subseteq Logged, IsFiniteSet(decisions),
         NEW e \in decisions, ReadsAllowed(e), e.req \in Tame
  PROVE  \E g \in Collapsed(Codified(decisions)) : Glob(g, Canonical[e.req])
<1> DEFINE a == Canonical[e.req]
           A == Codified(decisions)
<1>1. A \subseteq Action /\ IsFiniteSet(A) /\ a \in A
  <2>1. a \in A
    BY DEF Codified
  <2> QED BY <2>1, CodifiedProperties
<1>3. Globs(A, Collapsed(A))
  BY <1>1, CollapsedProperties
<1>4. a = Canonical[e.req] /\ (a[1] = "net" => NetShape(e.req, a))
  BY Heads
<1> HIDE DEF a, A
<1>5. \/ a[1] = "net" /\ HostGlob(NetHost(a)) \in Collapsed(A)
      \/ Prefix(a) \o <<":", "*">> \in Collapsed(A)
      \/ a \in Collapsed(A)
  BY <1>1, <1>3, Zenon DEF Globs
<1>6. \E g \in Collapsed(A) : Glob(g, a)
  <2>1. a \in Action
    BY <1>1
  <2>2. CASE a[1] = "net" /\ HostGlob(NetHost(a)) \in Collapsed(A)
    BY <1>4, <2>1, <2>2, CoveredByHost, Zenon
  <2>3. CASE Prefix(a) \o <<":", "*">> \in Collapsed(A)
    BY <1>4, <2>1, <2>3, CoveredByPrefix, Zenon
  <2>4. CASE a \in Collapsed(A)
    BY <1>4, <2>1, <2>4, CoveredByItself, Zenon
  <2> QED BY <1>5, <2>2, <2>3, <2>4
<1> QED BY <1>6 DEF a, A

-----------------------------------------------------------------------------
(***************************************************************************)
(* What a canonical action tells of its request.                           *)
(***************************************************************************)
LEMMA WordSigns == \A x \in Word : x # ":" /\ x # "/" /\ x # "*" /\ x # "]"
BY DEF Word

\* The verbs of a method.
LEMMA CrudVerbs ==
  ASSUME NEW method \in Word, NEW post \in {"insert", "create"}
  PROVE  /\ CrudVerb(method, post) # ":"
         /\ CrudVerb(method, post) =
              IF method = "GET" THEN "get" ELSE IF method = "POST" THEN post
              ELSE IF method = "PUT" THEN "update" ELSE IF method = "PATCH" THEN "patch"
              ELSE IF method = "DELETE" THEN "delete" ELSE method
<1>1. CrudVerb(method, post) =
              IF method = "GET" THEN "get" ELSE IF method = "POST" THEN post
              ELSE IF method = "PUT" THEN "update" ELSE IF method = "PATCH" THEN "patch"
              ELSE IF method = "DELETE" THEN "delete" ELSE method
  BY DEF CrudVerb
<1>2. method # ":"
  BY WordSigns
<1> QED BY <1>1, <1>2

\* The verb tells the method.
LEMMA CrudVerbTells ==
  ASSUME NEW m \in Word \ Verb, NEW n \in Word \ Verb, NEW post \in {"insert", "create"},
         CrudVerb(m, post) = CrudVerb(n, post)
  PROVE  m = n
<1>1. \A x \in Verb : m # x /\ n # x
  OBVIOUS
<1>2. /\ m # "get" /\ m # "insert" /\ m # "create" /\ m # "update" /\ m # "patch" /\ m # "delete"
      /\ n # "get" /\ n # "insert" /\ n # "create" /\ n # "update" /\ n # "patch" /\ n # "delete"
  BY <1>1 DEF Verb
<1> QED BY <1>2, CrudVerbs

\* The verb of a k8s action is no colon.
LEMMA K8sVerbIs ==
  ASSUME NEW r \in Tame, NEW n \in BOOLEAN
  PROVE  K8sVerb(r, n) # ":"
<1>1. CrudVerb(r.method, "create") # ":"
  BY RequestType, CrudVerbs
<1> QED BY <1>1 DEF K8sVerb

\* It tells the method.
LEMMA K8sVerbTells ==
  ASSUME NEW q \in Tame, NEW r \in Tame, NEW n \in BOOLEAN, NEW o \in BOOLEAN,
         q.method \notin Verb, r.method \notin Verb
  PROVE  K8sVerb(q, n) = K8sVerb(r, o) => q.method = r.method
<1>1. q.method \in Word \ Verb /\ r.method \in Word \ Verb
  BY RequestType
<1>2. \A x \in Verb : q.method # x /\ r.method # x
  BY <1>1
<1>3. /\ q.method # "get" /\ q.method # "list" /\ q.method # "watch"
      /\ r.method # "get" /\ r.method # "list" /\ r.method # "watch"
  BY <1>2 DEF Verb
<1> DEFINE c(m) == CrudVerb(m, "create")
<1>4. /\ q.method # "GET" => c(q.method) \notin {"get", "list", "watch"}
      /\ r.method # "GET" => c(r.method) \notin {"get", "list", "watch"}
  BY <1>1, <1>3, CrudVerbs
<1>5. c(q.method) = c(r.method) => q.method = r.method
  BY <1>1, CrudVerbTells
<1>6. /\ K8sVerb(q, n) = IF q.method # "GET" THEN c(q.method)
                         ELSE IF q.watch THEN "watch" ELSE IF n THEN "get" ELSE "list"
      /\ K8sVerb(r, o) = IF r.method # "GET" THEN c(r.method)
                         ELSE IF r.watch THEN "watch" ELSE IF o THEN "get" ELSE "list"
  BY DEF K8sVerb
<1> HIDE DEF c
<1> QED BY <1>4, <1>5, <1>6

\* Where the last colon of a k8s action is, and what is before it.
K8sParts(a) ==
  \/ /\ Len(a) = 5 /\ LastColon(a) = 4
     /\ a[1] = "k8s" /\ a[2] = ":" /\ a[3] \in K8sResources /\ a[4] = ":"
  \/ /\ Len(a) = 8 /\ LastColon(a) = 7
     /\ a[1] = "k8s" /\ a[2] = "[ns=" /\ a[3] \in Word /\ a[4] = "]" /\ a[5] = ":"
     /\ a[6] \in K8sResources /\ a[7] = ":"

\* Where the parts of a k8s action lie.
LEMMA K8sPartsAre ==
  ASSUME NEW r \in Tame, NEW a \in Action, K8sShape(r, a)
  PROVE  K8sParts(a)
<1>1. PICK resource \in K8sResources, named \in BOOLEAN :
        \/ a = <<"k8s", ":", resource, ":", K8sVerb(r, named)>>
        \/ \E ns \in Word : a = <<"k8s", "[ns=", ns, "]", ":", resource, ":", K8sVerb(r, named)>>
  BY DEF K8sShape
<1> DEFINE verb == K8sVerb(r, named)
           c == LastColon(a)
<1>2. verb # ":"
  BY K8sVerbIs
<1>3. c \in 1..Len(a) /\ a[c] = ":" /\ \A i \in 1..Len(a) : a[i] = ":" => i <= c
  BY ActionType
<1> HIDE DEF verb, c
<1>4. CASE a = <<"k8s", ":", resource, ":", verb>>
  <2>1. Len(a) = 5 /\ a[1] = "k8s" /\ a[2] = ":" /\ a[3] = resource /\ a[4] = ":" /\ a[5] = verb
    BY <1>4
  <2>2. c \in 1..5 /\ 4 <= c /\ c # 5
    <3>1. 4 \in 1..Len(a)
      BY <2>1
    <3> QED BY <1>2, <1>3, <2>1, <3>1
  <2>3. c = 4
    BY <2>2
  <2> QED BY <2>1, <2>3 DEF K8sParts, c
<1>5. CASE \E ns \in Word : a = <<"k8s", "[ns=", ns, "]", ":", resource, ":", verb>>
  <2>0. PICK ns \in Word : a = <<"k8s", "[ns=", ns, "]", ":", resource, ":", verb>>
    BY <1>5
  <2>1. /\ Len(a) = 8 /\ a[1] = "k8s" /\ a[2] = "[ns=" /\ a[3] = ns /\ a[4] = "]" /\ a[5] = ":"
        /\ a[6] = resource /\ a[7] = ":" /\ a[8] = verb
    BY <2>0
  <2>2. c \in 1..8 /\ 7 <= c /\ c # 8
    <3>1. 7 \in 1..Len(a)
      BY <2>1
    <3> QED BY <1>2, <1>3, <2>1, <3>1
  <2>3. c = 7
    BY <2>2
  <2> QED BY <2>1, <2>3 DEF K8sParts, c
<1> QED BY <1>1, <1>4, <1>5 DEF verb

\* The first m symbols of a, which is what q becomes, tell what q uses.
Agrees(a, b, m) == m <= Len(b) /\ \A i \in 1..m : b[i] = a[i]

Tells(q, a, m) ==
  /\ m \in 1..Len(a) /\ \A i \in 1..m : a[i] # "*"
  /\ \A r \in Tame : Agrees(a, Canonical[r], m) => SameUse(r, q)

\* An AWS action tells the first symbol of the host and the domain.
LEMMA AwsTells ==
  ASSUME NEW q \in Tame, NEW a \in Action, AwsShape(q, a)
  PROVE  Tells(q, a, 6) /\ 6 <= LastColon(a)
<1>1. AwsParts(q, a)
  BY AwsPartsAre
<1>2. q.key \in Word /\ Head(q.host) \in Word
  BY RequestType
<1>3. Len(a) \in Nat /\ LastColon(a) \in 1..Len(a) /\ 7 <= LastColon(a)
  <2>1. Len(a) \in Nat /\ LastColon(a) \in 1..Len(a) /\ \A i \in 1..Len(a) : a[i] = ":" => i <= LastColon(a)
    BY ActionType
  <2>2. 7 \in 1..Len(a) /\ a[7] = ":"
    BY <1>1, <2>1 DEF AwsParts
  <2> QED BY <2>1, <2>2
<1>4. \A i \in 1..6 : a[i] # "*"
  <2>1. q.key # "*" /\ Head(q.host) # "*"
    BY <1>2, WordSigns
  <2> QED BY <1>1, <2>1 DEF AwsParts
<1>5. ASSUME NEW r \in Tame, Agrees(a, Canonical[r], 6) PROVE SameUse(r, q)
  <2> DEFINE b == Canonical[r]
  <2>1. b[1] = "aws" /\ b[6] = Head(q.host)
    BY <1>1, <1>5 DEF AwsParts, Agrees
  <2>2. AwsShape(r, b)
    BY <2>1, Heads
  <2>3. b[6] = Head(r.host)
    BY <2>2, AwsPartsAre DEF AwsParts
  <2> QED BY <2>1, <2>2, <2>3 DEF SameUse, AwsShape, Within
<1>6. 6 \in 1..Len(a) /\ 6 <= LastColon(a)
  BY <1>3
<1> QED BY <1>4, <1>5, <1>6, Zenon DEF Tells

\* A GCP action tells the first symbol of the host and the domain.
LEMMA GcpTells ==
  ASSUME NEW q \in Tame, NEW a \in Action, GcpShape(q, a)
  PROVE  Tells(q, a, 6) /\ 6 <= LastColon(a)
<1>1. GcpParts(q, a)
  BY GcpPartsAre
<1>2. Head(q.host) \in Word /\ Len(q.host) \in Nat
  BY RequestType
<1>3. Len(a) \in Nat /\ LastColon(a) \in 1..Len(a) /\ 7 <= LastColon(a)
  <2>1. Len(a) \in Nat /\ LastColon(a) \in 1..Len(a) /\ \A i \in 1..Len(a) : a[i] = ":" => i <= LastColon(a)
    BY ActionType
  <2>2. Len(q.host) + 5 \in 1..Len(a) /\ a[Len(q.host) + 5] = ":" /\ Len(q.host) + 5 >= 7
    BY <1>1, <1>2, <2>1 DEF GcpParts
  <2> QED BY <2>1, <2>2
<1>4. \A i \in 1..6 : a[i] # "*"
  <2>1. a[3] # "*" /\ Head(q.host) # "*"
    BY <1>1, <1>2, WordSigns DEF GcpParts
  <2> QED BY <1>1, <2>1 DEF GcpParts
<1>5. ASSUME NEW r \in Tame, Agrees(a, Canonical[r], 6) PROVE SameUse(r, q)
  <2> DEFINE b == Canonical[r]
  <2>1. b[1] = "gcp" /\ b[6] = Head(q.host)
    BY <1>1, <1>5 DEF GcpParts, Agrees
  <2>2. GcpShape(r, b)
    BY <2>1, Heads
  <2>3. b[6] = Head(r.host)
    BY <2>2, GcpPartsAre DEF GcpParts
  <2> QED BY <2>1, <2>2, <2>3 DEF SameUse, GcpShape, Within
<1>6. 6 \in 1..Len(a) /\ 6 <= LastColon(a)
  BY <1>3
<1> QED BY <1>4, <1>5, <1>6, Zenon DEF Tells

\* A GitHub action tells the host.
LEMMA GithubTells ==
  ASSUME NEW q \in Tame, NEW a \in Action, GithubShape(q, a)
  PROVE  Tells(q, a, 1)
<1>1. q.host = <<"api.github.com">> /\ 1 \in 1..Len(a) /\ a[1] = "gh"
  BY ActionType DEF GithubShape
<1>2. ASSUME NEW r \in Tame, Agrees(a, Canonical[r], 1) PROVE SameUse(r, q)
  <2>1. Canonical[r][1] = "gh"
    BY <1>1, <1>2 DEF Agrees
  <2>2. r.host = <<"api.github.com">>
    BY <2>1, Heads DEF GithubShape
  <2> QED BY <1>1, <2>2, Zenon DEF SameUse, Domain
<1>3. \A i \in 1..1 : a[i] # "*"
  BY <1>1
<1> QED BY <1>1, <1>2, <1>3, Zenon DEF Tells

\* An action of the Azure management plane tells the host.
LEMMA ManagementTells ==
  ASSUME NEW q \in Tame, NEW a \in Action, ManagementShape(q, a)
  PROVE  Tells(q, a, 2)
<1>1. q.host = <<"management.azure.com">> /\ 2 \in 1..Len(a) /\ a[1] = "az" /\ a[2] = "[subscription="
  BY ActionType DEF ManagementShape, Begins
<1>2. ASSUME NEW r \in Tame, Agrees(a, Canonical[r], 2) PROVE SameUse(r, q)
  <2>1. Canonical[r][1] = "az" /\ Canonical[r][2] = "[subscription="
    BY <1>1, <1>2 DEF Agrees
  <2>2. r.host = <<"management.azure.com">>
    BY <2>1, Heads DEF ManagementShape
  <2> QED BY <1>1, <2>2, Zenon DEF SameUse, Domain
<1>3. \A i \in 1..2 : a[i] # "*"
  BY <1>1
<1> QED BY <1>1, <1>2, <1>3, Zenon DEF Tells

\* A data plane action tells the host.
LEMMA DataTells ==
  ASSUME NEW q \in Tame, NEW a \in Action, DataShape(q, a)
  PROVE  Tells(q, a, Len(q.host) + 4)
<1> DEFINE h == q.host
           l == Len(h)
<1>1. h \in Seq(Word) /\ l \in Nat /\ Len(a) \in Nat /\ Head(h) = h[1]
  BY RequestType, ActionType
<1>2. PICK service : DataParts(q, a, service)
  BY DataPartsAre
<1>3. l > 1
  BY DEF DataShape
<1>4. /\ Len(a) >= l + 5 /\ a[1] = "az" /\ a[2] = "[account=" /\ \A i \in 1..(l - 1) : a[2 + i] = h[i]
      /\ a[l + 2] = "]" /\ a[l + 3] = ":" /\ a[l + 4] = service
      /\ service \in DOMAIN DataPlane /\ Domain(q) = DataPlane[service]
  BY <1>2 DEF DataParts, Within
<1>5. \A i \in 1..l : h[i] \in Word
  BY <1>1
<1>6. \A i \in 1..(l + 4) : a[i] # "*"
  <2> SUFFICES ASSUME NEW i \in 1..(l + 4) PROVE a[i] # "*"
    OBVIOUS
  <2>1. CASE i \in {1, 2, l + 2, l + 3}
    BY <1>1, <1>4, <2>1
  <2>2. CASE i = l + 4
    <3>1. service # "*"
      BY <1>4 DEF DataPlane
    <3> QED BY <1>4, <2>2, <3>1
  <2>3. CASE i \notin {1, 2, l + 2, l + 3} /\ i # l + 4
    <3>1. i - 2 \in 1..(l - 1) /\ 2 + (i - 2) = i /\ i - 2 \in 1..l
      BY <1>1, <2>3
    <3>2. a[i] = h[i - 2] /\ h[i - 2] \in Word
      BY <1>4, <1>5, <3>1
    <3> QED BY <3>2, WordSigns
  <2> QED BY <2>1, <2>2, <2>3
<1>7. ASSUME NEW r \in Tame, Agrees(a, Canonical[r], l + 4) PROVE SameUse(r, q)
  <2> DEFINE b == Canonical[r]
             k == Len(r.host)
  <2>1. \A i \in 1..(l + 4) : b[i] = a[i]
    BY <1>7 DEF Agrees
  <2>2. b[1] = "az" /\ b[2] = "[account=" /\ b[3] = h[1] /\ b[l + 2] = "]" /\ b[l + 4] = service
    <3>1. /\ 1 \in 1..(l + 4) /\ 2 \in 1..(l + 4) /\ 3 \in 1..(l + 4) /\ l + 2 \in 1..(l + 4)
          /\ l + 4 \in 1..(l + 4) /\ 1 \in 1..(l - 1) /\ 2 + 1 = 3
      BY <1>1, <1>3
    <3>2. a[3] = h[1]
      BY <1>4, <3>1
    <3> QED BY <1>4, <2>1, <3>1, <3>2
  <2>3. DataShape(r, b)
    BY <2>2, Heads
  <2>4. PICK s : DataParts(r, b, s)
    BY <2>3, DataPartsAre
  <2>5. /\ k \in Nat /\ k > 1 /\ r.host \in Seq(Word) /\ Head(r.host) = r.host[1]
        /\ \A i \in 1..(k - 1) : b[2 + i] = r.host[i]
        /\ b[k + 2] = "]" /\ b[k + 4] = s /\ Domain(r) = DataPlane[s]
    BY <2>3, <2>4, RequestType DEF DataParts, Within, DataShape
  <2>6. \A i \in 1..(k - 1) : b[2 + i] # "]"
    <3>1. \A i \in 1..(k - 1) : r.host[i] \in Word
      BY <2>5
    <3> QED BY <2>5, <3>1, WordSigns
  <2>7. \A i \in 1..(l - 1) : b[2 + i] # "]"
    <3>1. \A i \in 1..(l - 1) : 2 + i \in 1..(l + 4) /\ h[i] \in Word
      BY <1>1, <1>5
    <3> QED BY <1>4, <2>1, <3>1, WordSigns
  <2> HIDE DEF b, k, l, h
  <2>8. ~(l < k)
    <3> SUFFICES ASSUME l < k PROVE FALSE
      OBVIOUS
    <3>1. l \in 1..(k - 1) /\ 2 + l = l + 2
      BY <1>1, <1>3, <2>5
    <3> QED BY <2>2, <2>6, <3>1
  <2>9. ~(k < l)
    <3> SUFFICES ASSUME k < l PROVE FALSE
      OBVIOUS
    <3>1. k \in 1..(l - 1) /\ 2 + k = k + 2
      BY <1>1, <2>5
    <3> QED BY <2>5, <2>7, <3>1
  <2>10. k = l
    BY <1>1, <2>5, <2>8, <2>9
  <2>11. s = service
    BY <2>2, <2>5, <2>10
  <2>12. r.host[1] = h[1]
    <3>1. 1 \in 1..(k - 1) /\ 2 + 1 = 3
      BY <2>5
    <3> QED BY <2>2, <2>5, <3>1
  <2> QED BY <1>1, <1>4, <2>5, <2>11, <2>12 DEF SameUse, h
<1>8. l + 4 \in 1..Len(a)
  BY <1>1, <1>4
<1> QED BY <1>6, <1>7, <1>8 DEF Tells

\* A k8s action tells itself by its prefix.
LEMMA K8sTells ==
  ASSUME NEW q \in Tame, NEW a \in Action, a = Canonical[q], K8sShape(q, a)
  PROVE  Tells(q, a, LastColon(a))
<1> DEFINE n == LastColon(a)
<1>1. K8sParts(a)
  BY K8sPartsAre
<1>2. a[1] = "k8s" /\ n \in 1..Len(a) /\ n \in Nat
  BY <1>1, ActionType DEF K8sParts
<1>3. \A i \in 1..n : a[i] # "*"
  <2>1. \A x \in K8sResources : x # "*"
    BY DEF K8sResources
  <2> QED BY <1>1, <2>1, WordSigns DEF K8sParts
<1>4. ASSUME NEW r \in Tame, Agrees(a, Canonical[r], n) PROVE SameUse(r, q)
  <2> DEFINE b == Canonical[r]
  <2>1. \A i \in 1..n : b[i] = a[i]
    BY <1>4 DEF Agrees
  <2>2. b[1] = "k8s" /\ b[2] = a[2]
    <3>1. 1 \in 1..n /\ 2 \in 1..n
      BY <1>1 DEF K8sParts
    <3> QED BY <1>2, <2>1, <3>1
  <2>3. b \in Action /\ K8sShape(r, b)
    BY <2>2, Heads, RequestType
  <2>4. K8sParts(b)
    BY <2>3, K8sPartsAre
  <2> HIDE DEF b
  <2>5. LastColon(b) = n
    BY <1>1, <2>2, <2>4 DEF K8sParts
  <2> DEFINE p == Prefix(a)
             o == Prefix(b)
  <2>6. p \in Seq(Symbol) /\ Len(p) = n - 1 /\ \A i \in 1..(n - 1) : p[i] = a[i]
    BY PrefixType
  <2>7. o \in Seq(Symbol) /\ Len(o) = n - 1 /\ \A i \in 1..(n - 1) : o[i] = b[i]
    BY <2>3, <2>5, PrefixType
  <2> HIDE DEF p, o, n
  <2>8. \A i \in 1..(n - 1) : b[i] = a[i]
    BY <1>2, <2>1
  <2>9. p = o
    BY <1>2, <2>6, <2>7, <2>8
  <2> QED BY <1>2, <2>2, <2>9, Zenon DEF SameUse, p, o, b
<1> QED BY <1>2, <1>3, <1>4, Zenon DEF Tells

\* What is no net action tells its use before its last symbol, and before its last colon
\* when it may be grouped by what is before that.
LEMMA UseTold ==
  ASSUME NEW q \in Tame, Canonical[q][1] # "net"
  PROVE  LET a == Canonical[q]
         IN \E m \in 1..Len(a) : Tells(q, a, m) /\ (Grouped(a) => m <= LastColon(a))
<1> DEFINE a == Canonical[q]
<1>1. a \in Action
  BY RequestType
<1>2. \/ a[1] = "aws" /\ AwsShape(q, a)
      \/ a[1] = "gcp" /\ GcpShape(q, a)
      \/ a[1] = "gh" /\ GithubShape(q, a)
      \/ a[1] = "az" /\ ManagementShape(q, a)
      \/ a[1] = "az" /\ DataShape(q, a)
      \/ a[1] = "k8s" /\ K8sShape(q, a)
  BY Heads
<1>3. Grouped(a) => a[1] \in {"aws", "gcp", "azure", "k8s"}
  BY Zenon DEF Grouped
<1>4. \A m : Tells(q, a, m) => m \in 1..Len(a)
  BY DEF Tells
<1>5. a = Canonical[q]
  OBVIOUS
<1> HIDE DEF a
<1>6. \E m : Tells(q, a, m) /\ (Grouped(a) => m <= LastColon(a))
  <2>1. CASE AwsShape(q, a)
    BY <1>1, <2>1, AwsTells
  <2>2. CASE GcpShape(q, a)
    BY <1>1, <2>2, GcpTells
  <2>3. CASE a[1] = "gh" /\ GithubShape(q, a)
    BY <1>1, <1>3, <2>3, GithubTells
  <2>4. CASE a[1] = "az" /\ ManagementShape(q, a)
    BY <1>1, <1>3, <2>4, ManagementTells
  <2>5. CASE a[1] = "az" /\ DataShape(q, a)
    BY <1>1, <1>3, <2>5, DataTells
  <2>6. CASE K8sShape(q, a)
    <3>1. Tells(q, a, LastColon(a))
      BY <1>1, <1>5, <2>6, K8sTells
    <3>2. LastColon(a) <= LastColon(a)
      BY <1>1, ActionType
    <3> QED BY <3>1, <3>2
  <2> QED BY <1>2, <2>1, <2>2, <2>3, <2>4, <2>5, <2>6
<1> QED BY <1>4, <1>6 DEF a

-----------------------------------------------------------------------------
(***************************************************************************)
(* What the globs of generate match besides.                               *)
(***************************************************************************)
LEMMA GlobBegins ==
  ASSUME NEW g, NEW b, Len(g) \in Nat, Len(b) \in Nat, Glob(g, b), Plain(g),
         NEW m \in Nat, m <= Len(g), \A d \in 1..m : g[d] # "*"
  PROVE  Agrees(g, b, m) /\ m + 1 \in Fits(g, b)[m + 1]
<1> DEFINE o == 1
<1>1. o \in Nat \ {0} /\ o \in Fits(g, b)[o]
  BY DEF Glob
<1>2. o - 1 + m = m /\ o + m = m + 1 /\ \A d \in 1..m : o - 1 + d = d
  OBVIOUS
<1> HIDE DEF o
<1>3. o - 1 + m <= Len(g) /\ \A d \in 1..m : g[o - 1 + d] # "*"
  BY <1>2
<1>4. /\ o - 1 + m <= Len(b)
      /\ \A d \in 1..m : b[o - 1 + d] = g[o - 1 + d]
      /\ o + m \in Fits(g, b)[o + m]
  BY <1>1, <1>3, GlobLiteral
<1>5. m <= Len(b) /\ m + 1 \in Fits(g, b)[m + 1] /\ \A d \in 1..m : b[d] = g[d]
  BY <1>2, <1>4
<1> QED BY <1>5 DEF Agrees

\* A glob that is an action matches only requests of its use.
LEMMA ItselfTells ==
  ASSUME NEW q \in Tame, NEW r \in Tame, Canonical[q][1] # "net",
         Glob(Canonical[q], Canonical[r])
  PROVE  SameUse(r, q)
<1> DEFINE a == Canonical[q]
           b == Canonical[r]
<1>1. PICK m \in 1..Len(a) : Tells(q, a, m)
  BY UseTold
<1>2. Len(a) \in Nat /\ Len(b) \in Nat
  BY RequestType, ActionType
<1>3. m \in Nat /\ m <= Len(a) /\ \A d \in 1..m : a[d] # "*"
  BY <1>1, <1>2 DEF Tells
<1>4. Agrees(a, b, m)
  <2>1. Plain(a)
    BY RequestType, PlainGlobs
  <2> QED BY <1>2, <1>3, <2>1, GlobBegins
<1> QED BY <1>1, <1>4 DEF Tells

\* A glob of a prefix matches only requests of its use.
LEMMA PrefixTells ==
  ASSUME NEW q \in Tame, NEW r \in Tame, Grouped(Canonical[q]),
         Glob(Prefix(Canonical[q]) \o <<":", "*">>, Canonical[r])
  PROVE  SameUse(r, q)
<1> DEFINE a == Canonical[q]
           b == Canonical[r]
           g == Prefix(a) \o <<":", "*">>
           n == LastColon(a)
<1>1. a[1] # "net"
  BY DEF Grouped
<1>2. PICK m \in 1..Len(a) : Tells(q, a, m) /\ m <= n
  BY <1>1, UseTold
<1>3. a \in Action /\ Len(a) \in Nat /\ Len(b) \in Nat /\ n \in 1..Len(a)
  BY RequestType, ActionType
<1>4. Len(g) = n + 1 /\ \A i \in 1..n : g[i] = a[i]
  BY <1>3, PrefixGlobParts
<1>5. Glob(g, b) /\ Plain(g)
  BY RequestType, PlainGlobs
<1> HIDE DEF g, n, a
<1>6. m \in Nat /\ m <= Len(g) /\ Len(g) \in Nat /\ \A i \in 1..m : i \in 1..n
  BY <1>2, <1>3, <1>4
<1>7. \A d \in 1..m : g[d] = a[d] /\ g[d] # "*"
  BY <1>2, <1>4, <1>6 DEF Tells
<1>8. Agrees(g, b, m)
  BY <1>3, <1>5, <1>6, <1>7, GlobBegins
<1>9. Agrees(a, b, m)
  BY <1>7, <1>8 DEF Agrees
<1> QED BY <1>2, <1>9 DEF Tells

\* A net action that matches the glob of a host is of this host.
LEMMA HostTells ==
  ASSUME NEW q \in Tame, NEW r \in Tame, Canonical[q][1] = "net",
         Glob(HostGlob(NetHost(Canonical[q])), Canonical[r])
  PROVE  SameUse(r, q)
<1> DEFINE h == q.host
           l == Len(h)
           g == HostGlob(h)
           b == Canonical[r]
           e == r.host
           k == Len(e)
<1>1. NetHost(Canonical[q]) = h
  BY Heads, RequestType, NetHostIs
<1>2. Glob(g, b) /\ Plain(g)
  BY <1>1, Heads, RequestType, PlainGlobs
<1>3. /\ h \in Seq(Word) /\ l \in Nat \ {0} /\ IsSeq(h) /\ \A i \in 1..l : h[i] \in Word
      /\ e \in Seq(Word) /\ k \in Nat \ {0} /\ \A i \in 1..k : e[i] \in Word
      /\ r.method \in Word
  BY RequestType
<1>4. b \in Action /\ Len(b) \in Nat
  BY RequestType, ActionType
<1>5. /\ Len(g) = l + 6 /\ g[1] = "net" /\ g[2] = ":" /\ g[3] = "*" /\ g[4] = ":"
      /\ \A i \in 1..l : g[4 + i] = h[i]
      /\ g[l + 5] = "/" /\ g[l + 6] = "*"
  BY <1>3, HostGlobPartsAre DEF HostGlobParts
<1> HIDE DEF g
<1>6. b[1] = "net" /\ 3 \in Fits(g, b)[3]
  <2>1. 2 <= Len(g) /\ Len(g) \in Nat /\ \A d \in 1..2 : g[d] # "*"
    BY <1>3, <1>5
  <2>2. Agrees(g, b, 2) /\ 2 + 1 \in Fits(g, b)[2 + 1]
    BY <1>2, <1>4, <2>1, GlobBegins
  <2> QED BY <1>5, <2>2 DEF Agrees
<1>7. /\ Len(b) >= k + 5 /\ b[2] = ":" /\ b[3] = r.method /\ b[4] = ":"
      /\ \A i \in 1..k : b[4 + i] = e[i]
      /\ b[k + 5] = "/"
      /\ \A i \in 5..Len(b) : b[i] \in Word \cup {"/"}
  BY <1>6, Heads DEF NetShape
<1> DEFINE f == Fits(g, b)
<1>8. PICK c \in f[4] : 3 <= c
  <2>1. 3 \in 1..(Len(g) + 1) /\ ~(3 > Len(g)) /\ Len(g) \in Nat
    BY <1>3, <1>5
  <2>2. f[3] = FitsStep(g, b, f, 3)
    BY <1>4, <2>1, FitsDefined
  <2>3. 3 \in f[3]
    BY <1>6
  <2> HIDE DEF f
  <2>4. 3 \in {j \in 1..(Len(b) + 1) : \E x \in f[3 + 1] : j <= x}
    <3>1. ~Component(g, 3)
      BY <1>5 DEF Component
    <3> QED BY <1>5, <2>1, <2>2, <2>3, <3>1 DEF FitsStep, Reaches
  <2> QED BY <2>4
<1>9. c \in Nat \ {0}
  <2>1. 4 \in 1..(Len(g) + 1) /\ Len(g) \in Nat
    BY <1>3, <1>5
  <2>2. f[4] \in SUBSET (1..(Len(b) + 1))
    BY <1>4, <2>1, FitsDefined
  <2> HIDE DEF f
  <2> QED BY <1>4, <1>8, <2>2
<1> DEFINE n == l + 2
<1>10. /\ c - 1 + n <= Len(b)
       /\ \A d \in 1..n : b[c - 1 + d] = g[3 + d]
  <2> DEFINE o == 4
  <2>1. \A d \in 1..n : g[3 + d] # "*"
    <3> SUFFICES ASSUME NEW d \in 1..n PROVE g[3 + d] # "*"
      OBVIOUS
    <3>1. CASE d = 1
      BY <1>5, <3>1
    <3>2. CASE d = n
      <4>1. 3 + d = l + 5
        BY <1>3, <3>2
      <4> QED BY <1>5, <4>1
    <3>3. CASE d # 1 /\ d # n
      <4>1. d - 1 \in 1..l /\ 4 + (d - 1) = 3 + d
        BY <1>3, <3>3
      <4>2. g[3 + d] = h[d - 1] /\ h[d - 1] \in Word
        BY <1>3, <1>5, <4>1
      <4> QED BY <4>2, WordSigns
    <3> QED BY <3>1, <3>2, <3>3
  <2>2. o \in Nat \ {0} /\ n \in Nat /\ o - 1 + n <= Len(g) /\ Len(g) \in Nat
    BY <1>3, <1>5
  <2>3. \A d \in 1..n : o - 1 + d = 3 + d
    BY <1>3
  <2>4. c \in Fits(g, b)[o]
    BY <1>8
  <2> HIDE DEF o, n, b, l, f
  <2>5. \A d \in 1..n : g[o - 1 + d] # "*"
    BY <2>1, <2>3
  <2>6. Len(b) \in Nat
    BY <1>4
  <2>7. /\ c - 1 + n <= Len(b)
        /\ \A d \in 1..n : b[c - 1 + d] = g[o - 1 + d]
        /\ c + n \in Fits(g, b)[o + n]
    BY <1>9, <2>2, <2>4, <2>5, <2>6, GlobLiteral
  <2> QED BY <2>3, <2>7
<1> HIDE DEF f, b, h, e, l, k
<1>11. c = 4
  <2>1. 1 \in 1..n /\ c - 1 + 1 = c /\ 3 + 1 = 4 /\ c <= Len(b)
    BY <1>3, <1>9, <1>10
  <2>2. b[c] = ":"
    BY <1>5, <1>10, <2>1
  <2>3. c # 3
    BY <1>3, <1>7, <2>2, WordSigns
  <2>4. ~(c >= 5)
    <3> SUFFICES ASSUME c >= 5 PROVE FALSE
      OBVIOUS
    <3>1. c \in 5..Len(b)
      BY <1>4, <1>9, <2>1
    <3> QED BY <1>7, <2>2, <3>1, WordSigns
  <2> QED BY <1>8, <1>9, <2>3, <2>4
<1>12. \A d \in 1..n : b[3 + d] = g[3 + d]
  <2>1. c - 1 = 3
    BY <1>11
  <2> QED BY <1>10, <2>1
<1>13. \A i \in 1..l : b[4 + i] = h[i]
  <2> SUFFICES ASSUME NEW i \in 1..l PROVE b[4 + i] = h[i]
    OBVIOUS
  <2>1. i + 1 \in 1..n /\ 3 + (i + 1) = 4 + i
    BY <1>3
  <2> QED BY <1>5, <1>12, <2>1
<1>14. b[l + 5] = "/"
  <2>1. n \in 1..n /\ 3 + n = l + 5
    BY <1>3
  <2> QED BY <1>5, <1>12, <2>1
<1>15. ~(k < l)
  <2> SUFFICES ASSUME k < l PROVE FALSE
    OBVIOUS
  <2>1. k + 1 \in 1..l /\ 4 + (k + 1) = k + 5
    BY <1>3
  <2>2. h[k + 1] = "/" /\ h[k + 1] \in Word
    BY <1>3, <1>7, <1>13, <2>1
  <2> QED BY <2>2, WordSigns
<1>16. ~(l < k)
  <2> SUFFICES ASSUME l < k PROVE FALSE
    OBVIOUS
  <2>1. l + 1 \in 1..k /\ 4 + (l + 1) = l + 5
    BY <1>3
  <2>2. e[l + 1] = "/" /\ e[l + 1] \in Word
    BY <1>3, <1>7, <1>14, <2>1
  <2> QED BY <2>2, WordSigns
<1>17. k = l
  BY <1>3, <1>15, <1>16
<1>18. \A i \in 1..l : e[i] = h[i]
  BY <1>7, <1>13, <1>17
<1>19. e = h
  BY <1>3, <1>17, <1>18 DEF k, l
<1> QED BY <1>19, Zenon DEF SameUse, Domain, e, h

\* What one of the globs matches, of tame actions all, is of a use that the decisions show.
LEMMA NothingElse ==
  ASSUME NEW decisions, decisions \subseteq Logged, IsFiniteSet(decisions), NEW r \in Tame,
         \A e \in decisions : ReadsAllowed(e) => e.req \in Tame,
         NEW g \in Collapsed(Codified(decisions)), Glob(g, Canonical[r])
  PROVE  \E e \in decisions : ReadsAllowed(e) /\ SameUse(r, e.req)
<1> DEFINE A == Codified(decisions)
<1>1. A \subseteq Action /\ IsFiniteSet(A)
  BY CodifiedProperties
<1>2. Globs(A, Collapsed(A))
  BY <1>1, CollapsedProperties
<1>3. PICK a \in A :
        \/ a[1] = "net" /\ g = HostGlob(NetHost(a))
        \/ Grouped(a) /\ g = Prefix(a) \o <<":", "*">>
        \/ a[1] # "net" /\ g = a
  BY <1>2, Zenon DEF Globs
<1>4. PICK e \in decisions : ReadsAllowed(e) /\ a = Canonical[e.req]
  BY <1>3 DEF Codified
<1>5. e.req \in Tame
  BY <1>4
<1>6. CASE a[1] = "net" /\ g = HostGlob(NetHost(a))
  BY <1>4, <1>5, <1>6, HostTells
<1>7. CASE Grouped(a) /\ g = Prefix(a) \o <<":", "*">>
  BY <1>4, <1>5, <1>7, PrefixTells
<1>8. CASE a[1] # "net" /\ g = a
  BY <1>4, <1>5, <1>8, ItselfTells
<1> QED BY <1>3, <1>6, <1>7, <1>8

-----------------------------------------------------------------------------
(***************************************************************************)
(* The method in an action, and the risk of an S3 operation.               *)
(***************************************************************************)
LEMMA K8sLast ==
  ASSUME NEW r, NEW a, K8sShape(r, a)
  PROVE  \E named \in BOOLEAN : Last(a) = K8sVerb(r, named)
<1>1. PICK resource \in K8sResources, named \in BOOLEAN :
        \/ a = <<"k8s", ":", resource, ":", K8sVerb(r, named)>>
        \/ \E ns \in Word : a = <<"k8s", "[ns=", ns, "]", ":", resource, ":", K8sVerb(r, named)>>
  BY DEF K8sShape
<1> DEFINE verb == K8sVerb(r, named)
<1> HIDE DEF verb
<1>2. CASE a = <<"k8s", ":", resource, ":", verb>>
  <2>1. Last(a) = verb
    BY <1>2 DEF Last
  <2> QED BY <2>1 DEF verb
<1>3. CASE \E ns \in Word : a = <<"k8s", "[ns=", ns, "]", ":", resource, ":", verb>>
  <2>1. Last(a) = verb
    BY <1>3 DEF Last
  <2> QED BY <2>1 DEF verb
<1> QED BY <1>1, <1>2, <1>3 DEF verb

\* Outside AWS two tame requests with one action have one method, if none is a verb.
LEMMA MethodTold ==
  ASSUME NEW q \in Tame, NEW r \in Tame,
         Canonical[q] = Canonical[r], Canonical[q][1] # "aws",
         q.method \notin Verb, r.method \notin Verb
  PROVE  q.method = r.method
<1> DEFINE a == Canonical[q]
           b == Canonical[r]
<1>1. a = b
  OBVIOUS
<1>2. q.method \in Word \ Verb /\ r.method \in Word \ Verb
  BY RequestType
<1>3. CASE a[1] = "gcp"
  <2>1. GcpShape(q, a) /\ GcpShape(r, b)
    BY <1>1, <1>3, Heads
  <2>2. CrudVerb(q.method, "insert") = CrudVerb(r.method, "insert")
    BY <1>1, <2>1 DEF GcpShape
  <2> QED BY <1>2, <2>2, CrudVerbTells
<1>4. CASE a[1] = "gh"
  <2>1. GithubShape(q, a) /\ GithubShape(r, b)
    BY <1>1, <1>4, Heads
  <2> QED BY <1>1, <2>1 DEF GithubShape
<1>5. CASE a[1] = "az"
  <2>1. /\ ManagementShape(q, a) \/ DataShape(q, a)
        /\ ManagementShape(r, b) \/ DataShape(r, b)
    BY <1>1, <1>5, Heads
  <2>2. CrudVerb(q.method, "create") = CrudVerb(r.method, "create")
    BY <1>1, <2>1 DEF ManagementShape, DataShape
  <2> QED BY <1>2, <2>2, CrudVerbTells
<1>6. CASE a[1] = "k8s"
  <2>1. K8sShape(q, a) /\ K8sShape(r, b)
    BY <1>1, <1>6, Heads
  <2>2. PICK n \in BOOLEAN : Last(a) = K8sVerb(q, n)
    BY <2>1, K8sLast
  <2>3. PICK o \in BOOLEAN : Last(b) = K8sVerb(r, o)
    BY <2>1, K8sLast
  <2> QED BY <1>1, <2>2, <2>3, K8sVerbTells
<1>7. CASE a[1] = "net"
  <2>1. NetShape(q, a) /\ NetShape(r, b)
    BY <1>1, <1>7, Heads
  <2> QED BY <1>1, <2>1 DEF NetShape
<1>8. a[1] \in {"gcp", "gh", "az", "k8s", "net"}
  BY Heads
<1> QED BY <1>3, <1>4, <1>5, <1>6, <1>7, <1>8

\* The first word of an S3 operation that has two.
S3Word(method, x) ==
  \/ method = "GET" /\ x \in {"List", "Get"}
  \/ method = "PUT" /\ x \in {"Create", "Put"}
  \/ method = "DELETE" /\ x = "Delete"
  \/ method = "HEAD" /\ x = "Head"
  \/ method = "POST" /\ x = "Post"

\* An S3 operation is two words that tell the method, or the method and the path.
LEMMA S3Says ==
  ASSUME NEW method, NEW path
  PROVE  \/ \E x, y : /\ S3Operation(method, path) = <<x, y>> /\ S3Word(method, x)
                      /\ y \in {"Buckets", "Objects", "Bucket", "Object"}
         \/ /\ S3Operation(method, path) = <<method, ":">> \o PathText(path)
            /\ method \notin {"GET", "PUT", "DELETE", "HEAD"}
<1> DEFINE n == S3Parts(path)
           thing == IF n = 1 THEN "Bucket" ELSE "Object"
           text == <<method, ":">> \o PathText(path)
           op == S3Operation(method, path)
<1>1. n \in 0..2
  BY DEF S3Parts
<1>2. /\ method = "GET" =>
           op = <<<<"List", "Buckets">>, <<"List", "Objects">>, <<"Get", "Object">>>>[n + 1]
      /\ method = "PUT" => op = <<IF n = 1 THEN "Create" ELSE "Put", thing>>
      /\ method = "DELETE" => op = <<"Delete", thing>>
      /\ method = "HEAD" => op = <<"Head", thing>>
      /\ method = "POST" => op = <<"Post", "Object">> \/ op = text
      /\ method \notin {"GET", "PUT", "DELETE", "HEAD", "POST"} => op = text
  BY DEF S3Operation
<1>3. thing \in {"Bucket", "Object"}
  OBVIOUS
<1> HIDE DEF thing, text, op, n
<1> DEFINE words == \E x, y : /\ op = <<x, y>> /\ S3Word(method, x)
                              /\ y \in {"Buckets", "Objects", "Bucket", "Object"}
<1>4. ASSUME method = "GET" PROVE words
  <2>1. op \in {<<"List", "Buckets">>, <<"List", "Objects">>, <<"Get", "Object">>}
    BY <1>1, <1>2, <1>4
  <2>2. S3Word(method, "List") /\ S3Word(method, "Get")
    BY <1>4 DEF S3Word
  <2> QED BY <2>1, <2>2
<1>5. ASSUME method = "PUT" PROVE words
  <2>1. S3Word(method, "Create") /\ S3Word(method, "Put")
    BY <1>5 DEF S3Word
  <2>2. op = <<"Create", thing>> \/ op = <<"Put", thing>>
    BY <1>2, <1>5
  <2> QED BY <1>3, <2>1, <2>2
<1>6. ASSUME method = "DELETE" PROVE words
  <2>1. S3Word(method, "Delete") /\ op = <<"Delete", thing>>
    BY <1>2, <1>6 DEF S3Word
  <2> QED BY <1>3, <2>1
<1>7. ASSUME method = "HEAD" PROVE words
  <2>1. S3Word(method, "Head") /\ op = <<"Head", thing>>
    BY <1>2, <1>7 DEF S3Word
  <2> QED BY <1>3, <2>1
<1>8. ASSUME method = "POST" PROVE words \/ op = text
  <2>1. op = <<"Post", "Object">> \/ op = text
    BY <1>2, <1>8
  <2>2. S3Word(method, "Post")
    BY <1>8 DEF S3Word
  <2> QED BY <2>1, <2>2
<1> HIDE DEF words
<1>9. \/ words
      \/ /\ op = text
         /\ method \notin {"GET", "PUT", "DELETE", "HEAD"}
  BY <1>2, <1>4, <1>5, <1>6, <1>7, <1>8
<1> QED BY <1>9, Zenon DEF op, text, words

-----------------------------------------------------------------------------
(***************************************************************************)
(* The inductive invariant.                                                *)
(***************************************************************************)
\* The rule that a statement becomes.
RuleOf(r, st) ==
  /\ r.effect = st.effect /\ r.action = Matched(st.action)
  /\ r.rule_type = (IF st.effect = "forbid" THEN "none" ELSE "idempotent") /\ r.expires = Never

\* The statements of a text.
StatementsOf(text) == UNION {ToSet(p.statements) : p \in Parse(text)}

LogKept == log \subseteq Logged /\ IsFiniteSet(log) /\ Cardinality(log) <= MaxLog

FilesKept == \A place \in DOMAIN files : files[place] \in Texts

\* A file that is in made holds what its decisions generate, and these were logged.
MadeKept ==
  /\ DOMAIN made \subseteq DOMAIN files
  /\ \A place \in DOMAIN made :
       /\ made[place] \subseteq log /\ Codified(made[place]) # {}
       /\ \E name \in Names :
            place = SavePlace(name) /\ files[place] = Generated(name, made[place])

LoadedKept == loaded \in Seq(Texts) /\ Len(loaded) <= MaxLoads

\* The tree holds the rules of the statements of the loaded texts.
TreeKept ==
  /\ \A r \in tree : \E text \in ToSet(loaded) : \E st \in StatementsOf(text) : RuleOf(r, st)
  /\ \A text \in ToSet(loaded) : \A st \in StatementsOf(text) : \E r \in tree : RuleOf(r, st)

Inv == LogKept /\ FilesKept /\ MadeKept /\ LoadedKept /\ TreeKept

\* The commands start with nothing.
LEMMA InitInv == Init => Inv
<1> SUFFICES ASSUME Init PROVE Inv
  OBVIOUS
<1>1. LogKept
  <2>1. IsFiniteSet({}) /\ Cardinality({}) = 0
    BY FS_EmptySet
  <2> QED BY <2>1, TemplatesAssumption DEF Init, LogKept
<1>2. FilesKept /\ MadeKept
  BY DEF Init, FilesKept, MadeKept
<1>3. LoadedKept
  BY TemplatesAssumption DEF Init, LoadedKept
<1>4. TreeKept
  <2>1. ToSet(<<>>) = {}
    BY DEF ToSet
  <2> QED BY <2>1 DEF Init, TreeKept
<1> QED BY <1>1, <1>2, <1>3, <1>4 DEF Inv

\* What a file or a decision more leaves as it is.
LEMMA OthersKept ==
  ASSUME Inv, UNCHANGED <<log, loaded, tree>>
  PROVE  LogKept' /\ LoadedKept' /\ TreeKept'
<1>1. LogKept'
  BY DEF Inv, LogKept
<1>2. LoadedKept'
  BY DEF Inv, LoadedKept
<1>3. TreeKept'
  BY DEF Inv, TreeKept
<1> QED BY <1>1, <1>2, <1>3

\* Decide keeps the invariant.
LEMMA DecideInv ==
  ASSUME Inv, NEW e \in Logged, Decide(e)
  PROVE  Inv'
<1>1. LogKept'
  <2>1. /\ IsFiniteSet(log \cup {e})
        /\ \/ Cardinality(log \cup {e}) = Cardinality(log)
           \/ Cardinality(log \cup {e}) = Cardinality(log) + 1
    BY FS_AddElement DEF Inv, LogKept
  <2>2. Cardinality(log) \in Nat
    BY FS_CardinalityType DEF Inv, LogKept
  <2>3. log' = log \cup {e} /\ Cardinality(log) < MaxLog
    BY DEF Decide
  <2> QED BY <2>1, <2>2, <2>3, TemplatesAssumption DEF Inv, LogKept
<1>2. log \subseteq log' /\ UNCHANGED <<files, made, loaded, tree>>
  BY DEF Decide
<1>3. FilesKept'
  BY <1>2 DEF Inv, FilesKept
<1>4. MadeKept'
  BY <1>2 DEF Inv, MadeKept
<1>5. LoadedKept' /\ TreeKept'
  BY <1>2 DEF Inv, LoadedKept, TreeKept
<1> QED BY <1>1, <1>3, <1>4, <1>5 DEF Inv

\* Generate keeps the invariant: what it writes is what its decisions generate.
LEMMA GenerateInv ==
  ASSUME Inv, NEW name \in Names, Generate(name)
  PROVE  Inv'
<1> DEFINE place == SavePlace(name)
           text == Generated(name, log)
<1>1. /\ Codified(log) # {} /\ files' = With(files, place, text) /\ made' = With(made, place, log)
      /\ UNCHANGED <<log, loaded, tree>>
  BY DEF Generate, Put
<1>2. text \in Texts
  BY DEF Inv, LogKept, Texts
<1>3. place = SavePlace(name) /\ text = Generated(name, log)
  OBVIOUS
<1> HIDE DEF place, text
<1>4. FilesKept'
  BY <1>1, <1>2 DEF Inv, FilesKept, With
<1>5. MadeKept'
  <2>1. DOMAIN made' = DOMAIN made \cup {place} /\ DOMAIN files' = DOMAIN files \cup {place}
    BY <1>1 DEF With
  <2>2. ASSUME NEW p \in DOMAIN made'
        PROVE  /\ made'[p] \subseteq log /\ Codified(made'[p]) # {}
               /\ \E n \in Names : p = SavePlace(n) /\ files'[p] = Generated(n, made'[p])
    <3>1. CASE p = place
      <4>1. made'[p] = log /\ files'[p] = text
        BY <1>1, <2>1, <3>1 DEF With
      <4> QED BY <1>1, <1>3, <3>1, <4>1
    <3>2. CASE p # place
      <4>1. p \in DOMAIN made /\ p \in DOMAIN files
        BY <2>1, <3>2 DEF Inv, MadeKept
      <4>2. made'[p] = made[p] /\ files'[p] = files[p]
        BY <1>1, <3>2, <4>1 DEF With
      <4> QED BY <4>1, <4>2 DEF Inv, MadeKept
    <3> QED BY <3>1, <3>2
  <2>3. DOMAIN made' \subseteq DOMAIN files'
    BY <2>1 DEF Inv, MadeKept
  <2> QED BY <1>1, <2>2, <2>3 DEF MadeKept
<1> QED BY <1>1, <1>4, <1>5, OthersKept DEF Inv

\* InitTemplate keeps the invariant: it never writes over a generated file.
LEMMA InitTemplateInv ==
  ASSUME Inv, NEW provider \in Providers, InitTemplate(provider)
  PROVE  Inv'
<1> DEFINE place == <<provider, <<"full">>>>
           text == Scaffold(provider)
<1>1. /\ place \notin DOMAIN files /\ files' = With(files, place, text)
      /\ UNCHANGED <<log, made, loaded, tree>>
  BY DEF InitTemplate, Put
<1>2. text \in Texts
  BY DEF Texts
<1> HIDE DEF place, text
<1>3. FilesKept'
  BY <1>1, <1>2 DEF Inv, FilesKept, With
<1>4. MadeKept'
  <2>1. \A p \in DOMAIN made : p \in DOMAIN files /\ p \in DOMAIN files' /\ files'[p] = files[p]
    BY <1>1 DEF Inv, MadeKept, With
  <2> QED BY <1>1, <2>1 DEF Inv, MadeKept
<1> QED BY <1>1, <1>3, <1>4, OthersKept DEF Inv

\* Write keeps the invariant: what a human writes is not held to be generated.
LEMMA WriteInv ==
  ASSUME Inv, NEW place, NEW text \in Drafts, Write(place, text)
  PROVE  Inv'
<1>1. /\ files' = With(files, place, text) /\ made' = Without(made, place)
      /\ UNCHANGED <<log, loaded, tree>>
  BY DEF Write, Put
<1>2. text \in Texts
  BY DEF Texts
<1>3. FilesKept'
  BY <1>1, <1>2 DEF Inv, FilesKept, With
<1>4. MadeKept'
  <2>1. \A p \in DOMAIN made' :
          /\ p \in DOMAIN made /\ p \in DOMAIN files' /\ made'[p] = made[p] /\ files'[p] = files[p]
    BY <1>1 DEF Inv, MadeKept, With, Without
  <2> QED BY <1>1, <2>1 DEF Inv, MadeKept
<1> QED BY <1>1, <1>3, <1>4, OthersKept DEF Inv

\* Delete keeps the invariant.
LEMMA DeleteInv ==
  ASSUME Inv, NEW place, Delete(place)
  PROVE  Inv'
<1>1. /\ files' = Without(files, place) /\ made' = Without(made, place)
      /\ UNCHANGED <<log, loaded, tree>>
  BY DEF Delete
<1>2. FilesKept'
  BY <1>1 DEF Inv, FilesKept, Without
<1>3. MadeKept'
  <2>1. \A p \in DOMAIN made' :
          /\ p \in DOMAIN made /\ p \in DOMAIN files' /\ made'[p] = made[p] /\ files'[p] = files[p]
    BY <1>1 DEF Inv, MadeKept, Without
  <2> QED BY <1>1, <2>1 DEF Inv, MadeKept
<1> QED BY <1>1, <1>2, <1>3, OthersKept DEF Inv

\* load_template makes a rule of each statement, and nothing else.
LEMMA LoadedRules ==
  ASSUME NEW p \in Policy, NEW n
  PROVE  /\ \A r \in Placed(RulesOf(p), n) : \E st \in ToSet(p.statements) : RuleOf(r, st)
         /\ \A st \in ToSet(p.statements) : \E r \in Placed(RulesOf(p), n) : RuleOf(r, st)
<1> DEFINE ss == p.statements
           globs == [i \in DOMAIN ss |-> [ss[i] EXCEPT !.action = Matched(@)]]
           rules == RulesOf(p)
           rule(i) == [rules[i] EXCEPT !.pos = n + i - 1]
<1>1. ss \in Seq(Statement) /\ ToSet(ss) = {ss[i] : i \in DOMAIN ss}
  BY DEF Policy, ToSet
<1>2. \A i \in DOMAIN ss : ss[i] \in Statement
  BY <1>1
<1>3. DOMAIN rules = DOMAIN ss
  BY DEF RulesOf, TemplateRules
<1>4. \A i \in DOMAIN ss :
        rules[i] = [pos |-> 0, id |-> <<p.name, i - 1>>, effect |-> globs[i].effect,
                    action |-> globs[i].action,
                    rule_type |-> IF globs[i].effect = "forbid" THEN "none" ELSE "idempotent",
                    consumed |-> FALSE, plan_id |-> NoPlan, expires |-> Never]
  BY DEF RulesOf, TemplateRules
<1>5. \A i \in DOMAIN ss : globs[i].effect = ss[i].effect /\ globs[i].action = Matched(ss[i].action)
  <2> SUFFICES ASSUME NEW i \in DOMAIN ss
               PROVE  globs[i].effect = ss[i].effect /\ globs[i].action = Matched(ss[i].action)
    OBVIOUS
  <2>1. globs[i] = [ss[i] EXCEPT !.action = Matched(@)]
    OBVIOUS
  <2>2. ss[i] = [effect |-> ss[i].effect, action |-> ss[i].action, reason |-> ss[i].reason]
    BY <1>2 DEF Statement
  <2> HIDE DEF globs, ss
  <2>3. globs[i] = [effect |-> ss[i].effect, action |-> Matched(ss[i].action), reason |-> ss[i].reason]
    BY <2>1, <2>2
  <2> QED BY <2>3
<1>6. Placed(rules, n) = {rule(i) : i \in DOMAIN ss}
  BY <1>3 DEF Placed
<1> HIDE DEF globs, ss, rules
<1>7. \A i \in DOMAIN ss : RuleOf(rule(i), ss[i])
  <2> SUFFICES ASSUME NEW i \in DOMAIN ss PROVE RuleOf(rule(i), ss[i])
    OBVIOUS
  <2> DEFINE effect == ss[i].effect
             kind == IF effect = "forbid" THEN "none" ELSE "idempotent"
             name == <<p.name, i - 1>>
             matched == Matched(ss[i].action)
             pos == n + i - 1
             old == rules[i]
             q == rule(i)
  <2>1. old = [pos |-> 0, id |-> name, effect |-> effect, action |-> matched, rule_type |-> kind,
                    consumed |-> FALSE, plan_id |-> NoPlan, expires |-> Never]
    BY <1>4, <1>5
  <2>0. q = [old EXCEPT !.pos = pos]
    OBVIOUS
  <2> HIDE DEF effect, kind, name, matched, pos, old, q, rule
  <2>2. q = [pos |-> pos, id |-> name, effect |-> effect, action |-> matched, rule_type |-> kind,
             consumed |-> FALSE, plan_id |-> NoPlan, expires |-> Never]
    BY <2>0, <2>1
  <2>3. q.effect = effect /\ q.action = matched /\ q.rule_type = kind /\ q.expires = Never
    BY <2>2
  <2>4. RuleOf(q, ss[i])
    BY <2>3 DEF RuleOf, effect, kind, matched
  <2> QED BY <2>4 DEF q
<1> HIDE DEF rule
<1>8. \A r \in Placed(rules, n) : \E st \in ToSet(ss) : RuleOf(r, st)
  BY <1>1, <1>6, <1>7
<1>9. \A st \in ToSet(ss) : \E r \in Placed(rules, n) : RuleOf(r, st)
  BY <1>1, <1>6, <1>7
<1> QED BY <1>8, <1>9 DEF ss, rules

\* The elements of a sequence with one more.
LEMMA AppendSet ==
  ASSUME NEW S, NEW s \in Seq(S), NEW x \in S
  PROVE  Append(s, x) \in Seq(S) /\ Len(Append(s, x)) = Len(s) + 1 /\ ToSet(Append(s, x)) = ToSet(s) \cup {x}
<1> DEFINE t == Append(s, x)
<1>1. /\ t \in Seq(S) /\ Len(t) = Len(s) + 1 /\ Len(s) \in Nat /\ DOMAIN s = 1..Len(s) /\ DOMAIN t = 1..Len(t)
      /\ \A i \in 1..Len(s) : t[i] = s[i]
      /\ t[Len(s) + 1] = x
  OBVIOUS
<1> HIDE DEF t
<1>2. ToSet(t) = {t[i] : i \in 1..Len(t)} /\ ToSet(s) = {s[i] : i \in 1..Len(s)}
  BY <1>1, Zenon DEF ToSet
<1>3. ASSUME NEW y \in ToSet(t) PROVE y \in ToSet(s) \cup {x}
  <2>1. PICK i \in 1..Len(t) : y = t[i]
    BY <1>2, <1>3
  <2>2. CASE i = Len(s) + 1
    BY <1>1, <2>1, <2>2
  <2>3. CASE i # Len(s) + 1
    <3>1. i \in 1..Len(s)
      BY <1>1, <2>3
    <3> QED BY <1>1, <1>2, <2>1, <3>1
  <2> QED BY <2>2, <2>3
<1>4. ASSUME NEW y \in ToSet(s) \cup {x} PROVE y \in ToSet(t)
  <2>1. CASE y \in ToSet(s)
    <3>1. PICK i \in 1..Len(s) : y = s[i]
      BY <1>2, <2>1
    <3>2. i \in 1..Len(t) /\ t[i] = y
      BY <1>1, <3>1
    <3> QED BY <1>2, <3>2
  <2>2. CASE y = x
    <3>1. Len(s) + 1 \in 1..Len(t)
      BY <1>1
    <3> QED BY <1>1, <1>2, <2>2, <3>1
  <2> QED BY <1>4, <2>1, <2>2
<1> QED BY <1>1, <1>3, <1>4 DEF t

\* Load keeps the invariant: the tree has the rules of one more text.
LEMMA LoadInv ==
  ASSUME Inv, NEW place, Load(place)
  PROVE  Inv'
<1>1. Len(loaded) < MaxLoads /\ UNCHANGED <<log, files, made>>
  BY DEF Load
<1>3. PICK text \in Resolve(place) : \E p \in Read[text] :
        /\ loaded' = Append(loaded, text)
        /\ tree' = tree \cup Placed(RulesOf(p), Cardinality(tree) + 1)
  BY DEF Load
<1>4. text \in Texts /\ (place \in DOMAIN files => text = files[place])
  BY DEF Resolve, Inv, FilesKept, Texts
<1>5. Read[text] = Parse(text) /\ Read[text] \in OnePolicy
  BY <1>4, TextsType
<1>6. PICK p \in Read[text] : tree' = tree \cup Placed(RulesOf(p), Cardinality(tree) + 1)
  BY <1>3
<1>7. p \in Policy /\ StatementsOf(text) = ToSet(p.statements)
  BY <1>5, <1>6 DEF OnePolicy, StatementsOf

<1>8. /\ \A r \in tree' \ tree : \E st \in StatementsOf(text) : RuleOf(r, st)
      /\ \A st \in StatementsOf(text) : \E r \in tree' : RuleOf(r, st)
  BY <1>6, <1>7, LoadedRules
<1>9. /\ loaded' \in Seq(Texts) /\ Len(loaded') = Len(loaded) + 1
      /\ ToSet(loaded') = ToSet(loaded) \cup {text}
  BY <1>3, <1>4, AppendSet DEF Inv, LoadedKept
<1>10. LogKept' /\ FilesKept' /\ MadeKept'
  BY <1>1 DEF Inv, LogKept, FilesKept, MadeKept
<1>11. LoadedKept'
  <2>1. Len(loaded) \in Nat
    BY DEF Inv, LoadedKept
  <2> QED BY <1>1, <1>9, <2>1, TemplatesAssumption DEF LoadedKept
<1>12. TreeKept'
  <2>1. ASSUME NEW r \in tree' PROVE \E t \in ToSet(loaded') : \E st \in StatementsOf(t) : RuleOf(r, st)
    BY <1>8, <1>9 DEF Inv, TreeKept
  <2>2. ASSUME NEW t \in ToSet(loaded'), NEW st \in StatementsOf(t) PROVE \E r \in tree' : RuleOf(r, st)
    <3>1. CASE t = text
      BY <1>8, <2>2, <3>1
    <3>2. CASE t # text
      <4>1. t \in ToSet(loaded) /\ tree \subseteq tree'
        BY <1>6, <1>9, <3>2
      <4> QED BY <2>2, <4>1 DEF Inv, TreeKept
    <3> QED BY <3>1, <3>2
  <2> QED BY <2>1, <2>2 DEF TreeKept
<1> QED BY <1>10, <1>11, <1>12 DEF Inv

\* Every step keeps the invariant.
LEMMA NextInv == Inv /\ [Next]_vars => Inv'
<1> SUFFICES ASSUME Inv, [Next]_vars PROVE Inv'
  OBVIOUS
<1>1. ASSUME NEW e \in Logged, Decide(e) PROVE Inv'
  BY <1>1, DecideInv
<1>2. ASSUME NEW name \in Names, Generate(name) PROVE Inv'
  BY <1>2, GenerateInv
<1>3. ASSUME NEW provider \in Providers, InitTemplate(provider) PROVE Inv'
  BY <1>3, InitTemplateInv
<1>4. ASSUME NEW place \in Place, NEW text \in Drafts, Write(place, text) PROVE Inv'
  BY <1>4, WriteInv
<1>5. ASSUME NEW place \in Place, Delete(place) PROVE Inv'
  BY <1>5, DeleteInv
<1>6. ASSUME NEW place \in Place \cup DOMAIN Bundled, Load(place) PROVE Inv'
  BY <1>6, LoadInv
<1>7. CASE UNCHANGED vars
  BY <1>7 DEF vars, Inv, LogKept, FilesKept, MadeKept, LoadedKept, TreeKept
<1> QED BY <1>1, <1>2, <1>3, <1>4, <1>5, <1>6, <1>7 DEF Next

\* The invariant holds always.
LEMMA InvAlways == Spec => []Inv
BY InitInv, NextInv, PTL DEF Spec

-----------------------------------------------------------------------------
(***************************************************************************)
(* Types, and what list shows.                                             *)
(***************************************************************************)
\* The user's directory has the places that generate and init write to.
PlacesGiven ==
  /\ \A name \in Names : SavePlace(name) \in Place
  /\ \A provider \in Providers : <<provider, <<"full">>>> \in Place

InPlaces == DOMAIN files \subseteq Place

\* The files stay in the places of the directory.
LEMMA FilesPlaced ==
  ASSUME PlacesGiven
  PROVE  Spec => []InPlaces
<1>1. Init => InPlaces
  BY DEF Init, InPlaces
<1>2. InPlaces /\ [Next]_vars => InPlaces'
  <2> SUFFICES ASSUME DOMAIN files \subseteq Place, [Next]_vars PROVE DOMAIN files' \subseteq Place
    BY DEF InPlaces
  <2>1. ASSUME NEW name \in Names, Generate(name) PROVE DOMAIN files' \subseteq Place
    BY <2>1 DEF Generate, Put, With, PlacesGiven
  <2>2. ASSUME NEW provider \in Providers, InitTemplate(provider) PROVE DOMAIN files' \subseteq Place
    BY <2>2 DEF InitTemplate, Put, With, PlacesGiven
  <2>3. ASSUME NEW place \in Place, NEW text \in Drafts, Write(place, text) PROVE DOMAIN files' \subseteq Place
    BY <2>3 DEF Write, Put, With
  <2>4. ASSUME NEW place \in Place, Delete(place) PROVE DOMAIN files' \subseteq Place
    BY <2>4 DEF Delete, Without
  <2>5. CASE UNCHANGED files
    BY <2>5
  <2> QED BY <2>1, <2>2, <2>3, <2>4, <2>5 DEF Next, vars, Decide, Load
<1> QED BY <1>1, <1>2, PTL DEF Spec

\* TypeOK, of a user's directory that has a place for each template: the commands put
\* templates where resolve looks for them.
THEOREM TemplatesTypeCorrect ==
  ASSUME PlacesGiven
  PROVE  Spec => []TypeOK
<1>1. Inv /\ InPlaces => TypeOK
  <2> SUFFICES ASSUME Inv, InPlaces PROVE TypeOK
    OBVIOUS
  <2>1. ASSUME NEW r \in tree PROVE r.effect \in Effect /\ r.action \subseteq Action
    <3>1. PICK text \in ToSet(loaded) : \E st \in StatementsOf(text) : RuleOf(r, st)
      BY DEF Inv, TreeKept
    <3>2. PICK st \in StatementsOf(text) : RuleOf(r, st)
      BY <3>1
    <3>3. text \in Texts
      BY DEF ToSet, Inv, LoadedKept
    <3>4. st \in Statement
      <4>1. Parse(text) \in OnePolicy
        BY <3>3, TextsType
      <4>2. PICK p \in Parse(text) : st \in ToSet(p.statements)
        BY DEF StatementsOf
      <4>3. p.statements \in Seq(Statement)
        BY <4>1, <4>2 DEF OnePolicy, Policy
      <4> QED BY <4>2, <4>3 DEF ToSet
    <3> QED BY <3>2, <3>4 DEF RuleOf, Statement, Effect, Matched
  <2> QED BY <2>1 DEF TypeOK, InPlaces, Inv, LogKept, MadeKept, LoadedKept
<1> QED BY <1>1, InvAlways, FilesPlaced, PTL

\* ListedIsResolved: of user's files that are well-formed and named after their places, and
\* bundled ones that are, list shows under a name the very policy that --template loads.
THEOREM ListLoads == Spec => []ListedIsResolved
<1>1. Inv => ListedIsResolved
  <2> SUFFICES ASSUME Inv, \A f \in DOMAIN files : \E p \in Read[files[f]] : p.name = NameOf(f),
                      NEW r \in Listed, NEW text \in Resolve(r.place)
               PROVE  Read[text] = {r.policy}
    BY DEF ListedIsResolved
  <2>1. \A t \in Texts : Read[t] \in OnePolicy
    BY TextsType
  <2>2. \A f \in DOMAIN files : files[f] \in Texts
    BY DEF Inv, FilesKept
  <2>3. \A f \in DOMAIN Bundled : Bundled[f] \in Texts
    BY DEF Texts
  <2>4. CASE r \in Rows(files)
    <3>1. PICK f \in DOMAIN files : \E p \in Read[files[f]] : r = [name |-> p.name, place |-> f, policy |-> p]
      BY <2>4 DEF Rows
    <3>2. PICK p \in Read[files[f]] : r = [name |-> p.name, place |-> f, policy |-> p]
      BY <3>1
    <3>3. r.place = f /\ r.policy = p
      BY <3>2
    <3>4. text = files[f]
      BY <3>3 DEF Resolve
    <3> QED BY <2>1, <2>2, <3>2, <3>3, <3>4 DEF OnePolicy
  <2>5. CASE r \in Rows(Bundled) /\ \A u \in Rows(files) : u.name # r.name
    <3>1. PICK f \in DOMAIN Bundled : \E p \in Read[Bundled[f]] : r = [name |-> p.name, place |-> f, policy |-> p]
      BY <2>5 DEF Rows
    <3>2. PICK p \in Read[Bundled[f]] : r = [name |-> p.name, place |-> f, policy |-> p]
      BY <3>1
    <3>3. r.place = f /\ r.policy = p /\ r.name = p.name
      BY <3>2
    <3>4. p.name = NameOf(f)
      <4>1. p \in Parse(Bundled[f])
        BY <2>3, <3>2, TextsType
      <4> QED BY <4>1, TemplatesAssumption
    <3>5. f \notin DOMAIN files
      <4> SUFFICES ASSUME f \in DOMAIN files PROVE FALSE
        OBVIOUS
      <4>1. PICK q \in Read[files[f]] : q.name = NameOf(f)
        OBVIOUS
      <4> DEFINE u == [name |-> q.name, place |-> f, policy |-> q]
      <4>2. u \in Rows(files)
        BY <4>1 DEF Rows
      <4>3. u.name = r.name
        BY <3>3, <3>4, <4>1
      <4> QED BY <2>5, <4>2, <4>3
    <3>6. text = Bundled[f]
      BY <3>3, <3>5 DEF Resolve
    <3> QED BY <2>1, <2>3, <3>2, <3>3, <3>6 DEF OnePolicy
  <2> QED BY <2>4, <2>5 DEF Listed
<1> QED BY <1>1, InvAlways, PTL

-----------------------------------------------------------------------------
(***************************************************************************)
(* What the tree of a session answers.                                     *)
(***************************************************************************)
\* A statement of a loaded text with an effect matches a.
Hits(effect, a) ==
  \E text \in ToSet(loaded) : \E st \in StatementsOf(text) : st.effect = effect /\ Glob(st.action, a)

\* The tree forbids, or permits, what a statement of a loaded text does.
LEMMA TreeAnswers ==
  ASSUME Inv, NEW a \in Action
  PROVE  /\ HasForbid(tree, a, 0) <=> Hits("forbid", a)
         /\ PermitsOf(tree, a, 0) # {} <=> Hits("permit", a)
<1>1. \A r, st : RuleOf(r, st) => (Matches(r, a) <=> Glob(st.action, a)) /\ r.effect = st.effect
  BY DEF RuleOf, Matches, Matched
<1>2. \A r, st : RuleOf(r, st) => ~IsExpired(r, 0)
  <2>1. ~(Never <= 0)
    BY RulesAssumption DEF Never
  <2> QED BY <2>1 DEF RuleOf, IsExpired
<1>3. \A r, st : RuleOf(r, st) => ~IsSpent(r)
  BY DEF RuleOf, IsSpent
<1>4. \A r \in tree : \E text \in ToSet(loaded) : \E st \in StatementsOf(text) : RuleOf(r, st)
  BY DEF Inv, TreeKept
<1>5. \A text \in ToSet(loaded) : \A st \in StatementsOf(text) : \E r \in tree : RuleOf(r, st)
  BY DEF Inv, TreeKept
<1>6. HasForbid(tree, a, 0) <=> \E r \in tree : r.effect = "forbid" /\ ~IsExpired(r, 0) /\ Matches(r, a)
  BY DEF HasForbid, ForbidsOf
<1>7. PermitsOf(tree, a, 0) # {} <=>
        \E r \in tree : r.effect = "permit" /\ ~IsExpired(r, 0) /\ Matches(r, a) /\ ~IsSpent(r)
  BY DEF PermitsOf
<1>8. ASSUME NEW r \in tree, Matches(r, a) PROVE Hits(r.effect, a)
  BY <1>1, <1>4, <1>8 DEF Hits
<1>9. ASSUME NEW effect, Hits(effect, a)
      PROVE  \E r \in tree : r.effect = effect /\ ~IsExpired(r, 0) /\ Matches(r, a) /\ ~IsSpent(r)
  BY <1>1, <1>2, <1>3, <1>5, <1>9 DEF Hits
<1>10. HasForbid(tree, a, 0) <=> Hits("forbid", a)
  BY <1>6, <1>8, <1>9, Zenon
<1>11. PermitsOf(tree, a, 0) # {} <=> Hits("permit", a)
  BY <1>7, <1>8, <1>9, Zenon
<1> QED BY <1>10, <1>11

Hit(p, effect, a) == \E st \in ToSet(p.statements) : st.effect = effect /\ Glob(st.action, a)

\* What check says of each text.
LEMMA CheckedIs ==
  ASSUME NEW text \in Texts, NEW a \in Action
  PROVE  Checked[text][a] = Check(text, a)
BY Zenon DEF Checked

\* What check answers, in terms of the statements.
LEMMA CheckIs ==
  ASSUME NEW text \in Texts, NEW a
  PROVE  Check(text, a) =
           {IF Hit(p, "forbid", a) THEN "forbid" ELSE IF Hit(p, "permit", a) THEN "permit" ELSE "no match" :
              p \in Parse(text)}
<1>1. Read[text] = Parse(text)
  BY TextsType
<1> QED BY <1>1, Zenon DEF Check, Hit

\* What a loaded text is said to answer, against the statements of all of them.
LEMMA SaidHits ==
  ASSUME Inv, NEW a
  PROVE  LET said == UNION {Check(t, a) : t \in ToSet(loaded)}
         IN /\ "forbid" \in said <=> Hits("forbid", a)
            /\ ~Hits("forbid", a) => ("permit" \in said <=> Hits("permit", a))
<1> DEFINE said == UNION {Check(t, a) : t \in ToSet(loaded)}
<1>1. \A text \in ToSet(loaded) : text \in Texts
  BY DEF Inv, LoadedKept, ToSet
<1>2. \A effect : Hits(effect, a) <=>
        \E text \in ToSet(loaded) : \E p \in Parse(text) : Hit(p, effect, a)
  BY DEF Hits, Hit, StatementsOf
<1>3. ASSUME NEW text \in ToSet(loaded)
      PROVE  /\ "forbid" \in Check(text, a) <=> \E p \in Parse(text) : Hit(p, "forbid", a)
             /\ "permit" \in Check(text, a) <=>
                  \E p \in Parse(text) : ~Hit(p, "forbid", a) /\ Hit(p, "permit", a)
  <2>1. Check(text, a) =
          {IF Hit(p, "forbid", a) THEN "forbid" ELSE IF Hit(p, "permit", a) THEN "permit" ELSE "no match" :
             p \in Parse(text)}
    BY <1>1, CheckIs
  <2> QED BY <2>1
<1>4. \A x : x \in said <=> \E text \in ToSet(loaded) : x \in Check(text, a)
  OBVIOUS
<1> HIDE DEF said
<1>5. "forbid" \in said <=> Hits("forbid", a)
  BY <1>2, <1>3, <1>4, Zenon
<1>6. ~Hits("forbid", a) => ("permit" \in said <=> Hits("permit", a))
  BY <1>2, <1>3, <1>4, Zenon
<1> QED BY <1>5, <1>6 DEF said

\* A generated text permits what it was generated from that is tame, and forbids nothing.
LEMMA GeneratedStatements ==
  ASSUME NEW name \in Names, NEW d, d \subseteq Logged, IsFiniteSet(d)
  PROVE  /\ Parse(Generated(name, d)) = {Generation(name, d)}
         /\ Generation(name, d).statements = Permits(Collapsed(Codified(d)))
         /\ StatementsOf(Generated(name, d)) = ToSet(Permits(Collapsed(Codified(d))))
         /\ \A st \in ToSet(Permits(Collapsed(Codified(d)))) :
              st.effect = "permit" /\ st.action \in Collapsed(Codified(d)) /\ st.reason = NoReason
         /\ \A e \in d : ReadsAllowed(e) /\ e.req \in Tame =>
              \E st \in ToSet(Permits(Collapsed(Codified(d)))) :
                st.effect = "permit" /\ Glob(st.action, Canonical[e.req])
<1> DEFINE G == Collapsed(Codified(d))
           ss == ToSet(Permits(G))
<1>1. Parse(Generated(name, d)) = {Generation(name, d)}
  BY GenerationProperties
<1>2. Generation(name, d).statements = Permits(G)
  BY DEF Generation
<1>3. StatementsOf(Generated(name, d)) = ss
  BY <1>1, <1>2 DEF StatementsOf
<1>4. G \subseteq Seq(Symbol) /\ IsFiniteSet(G)
  BY CodifiedProperties, CollapsedProperties
<1>5. \A e \in d : ReadsAllowed(e) /\ e.req \in Tame => \E g \in G : Glob(g, Canonical[e.req])
  BY Covered
<1> HIDE DEF G
<1>6. /\ \A st \in ss : st.effect = "permit" /\ st.action \in G /\ st.reason = NoReason
      /\ \A g \in G : \E st \in ss : st.effect = "permit" /\ st.action = g
  BY <1>4, PermitsProperties
<1> HIDE DEF ss
<1>7. \A e \in d : ReadsAllowed(e) /\ e.req \in Tame => \E st \in ss : st.effect = "permit" /\ Glob(st.action, Canonical[e.req])
  BY <1>5, <1>6
<1> QED BY <1>1, <1>2, <1>3, <1>6, <1>7, Zenon DEF G, ss

\* CheckAgrees: what check says of the loaded texts one by one, whatever their patterns, is
\* what the tree of the session answers.
THEOREM CheckTells == Spec => []CheckAgrees
<1>1. Inv => CheckAgrees
  <2> SUFFICES ASSUME Inv, NEW a \in Action
               PROVE  LET said == UNION {Checked[t][a] : t \in ToSet(loaded)}
                      IN Outcome(tree, a, 0) =
                           IF "forbid" \in said THEN "forbidden"
                           ELSE IF "permit" \in said THEN "allow" ELSE "no match"
    BY DEF CheckAgrees
  <2> DEFINE said == UNION {Checked[t][a] : t \in ToSet(loaded)}
  <2>1. said = UNION {Check(t, a) : t \in ToSet(loaded)}
    <3>1. \A t \in ToSet(loaded) : t \in Texts
      BY DEF Inv, LoadedKept, ToSet
    <3>2. \A t \in ToSet(loaded) : Checked[t][a] = Check(t, a)
      BY <3>1, CheckedIs
    <3> QED BY <3>2
  <2>2. /\ "forbid" \in said <=> Hits("forbid", a)
        /\ ~Hits("forbid", a) => ("permit" \in said <=> Hits("permit", a))
    BY <2>1, SaidHits
  <2>3. /\ HasForbid(tree, a, 0) <=> Hits("forbid", a)
        /\ PermitsOf(tree, a, 0) # {} <=> Hits("permit", a)
    BY TreeAnswers
  <2> HIDE DEF said
  <2>4. Outcome(tree, a, 0) =
          IF "forbid" \in said THEN "forbidden" ELSE IF "permit" \in said THEN "allow" ELSE "no match"
    BY <2>2, <2>3, Zenon DEF Outcome
  <2> QED BY <2>4 DEF said
<1> QED BY <1>1, InvAlways, PTL

-----------------------------------------------------------------------------
(***************************************************************************)
(* What a generated file permits.                                          *)
(***************************************************************************)
\* A file that generate saved, as it is read back.
LEMMA MadeRead ==
  ASSUME Inv, NEW place \in DOMAIN made
  PROVE  \E name \in Names :
           /\ place = SavePlace(name) /\ made[place] \subseteq Logged /\ IsFiniteSet(made[place])
           /\ Codified(made[place]) # {} /\ files[place] = Generated(name, made[place])
           /\ Read[files[place]] = {Generation(name, made[place])}
           /\ files[place] \in Texts
<1>1. made[place] \subseteq Logged /\ IsFiniteSet(made[place]) /\ Codified(made[place]) # {}
  BY FS_Subset DEF Inv, LogKept, MadeKept
<1>2. PICK name \in Names : place = SavePlace(name) /\ files[place] = Generated(name, made[place])
  BY DEF Inv, MadeKept
<1>3. files[place] \in Texts
  BY DEF Inv, FilesKept, MadeKept
<1>4. Read[files[place]] = {Generation(name, made[place])}
  BY <1>1, <1>2, <1>3, TextsType, GenerationProperties
<1> QED BY <1>1, <1>2, <1>3, <1>4

\* A generated file is valid under the name that it was given.
LEMMA MadeValid ==
  ASSUME Inv, NEW place \in DOMAIN made
  PROVE  \E p \in Read[files[place]] : Valid(p) /\ SavePlace(p.name) = place
<1>1. PICK name \in Names :
        /\ place = SavePlace(name) /\ made[place] \subseteq Logged /\ IsFiniteSet(made[place])
        /\ Codified(made[place]) # {} /\ Read[files[place]] = {Generation(name, made[place])}
  BY MadeRead
<1> DEFINE p == Generation(name, made[place])
           A == Codified(made[place])
           G == Collapsed(A)
<1>2. p.name = name /\ p.statements = Permits(G) /\ name # <<>>
  BY TemplatesAssumption DEF Generation
<1>3. A \subseteq Action /\ IsFiniteSet(A) /\ A # {}
  BY <1>1, CodifiedProperties
<1>4. G \subseteq Seq(Symbol) \ {<<>>} /\ IsFiniteSet(G) /\ G # {}
  BY <1>3, CollapsedProperties DEF Globs
<1> HIDE DEF p, G
<1>5. /\ Permits(G) # <<>>
      /\ \A st \in ToSet(Permits(G)) : st.effect = "permit" /\ st.action \in G
  BY <1>4, PermitsProperties
<1>6. Valid(p)
  BY <1>2, <1>4, <1>5 DEF Valid
<1> QED BY <1>1, <1>2, <1>6 DEF p

\* A generated file permits just what one of its globs matches.
LEMMA MadePermits ==
  ASSUME Inv, NEW place \in DOMAIN made, NEW a
  PROVE  Check(files[place], a) = {"permit"} <=>
           \E g \in Collapsed(Codified(made[place])) : Glob(g, a)
<1>1. PICK name \in Names :
        /\ made[place] \subseteq Logged /\ IsFiniteSet(made[place]) /\ files[place] \in Texts
        /\ files[place] = Generated(name, made[place])
  BY MadeRead
<1> DEFINE d == made[place]
           p == Generation(name, d)
           G == Collapsed(Codified(d))
           ss == ToSet(Permits(G))
<1>2. Parse(files[place]) = {p} /\ p.statements = Permits(G)
  BY <1>1, GeneratedStatements
<1>3. G \subseteq Seq(Symbol) /\ IsFiniteSet(G)
  BY <1>1, CodifiedProperties, CollapsedProperties
<1> HIDE DEF p, G
<1>4. /\ \A st \in ss : st.effect = "permit" /\ st.action \in G
      /\ \A g \in G : \E st \in ss : st.effect = "permit" /\ st.action = g
  BY <1>3, PermitsProperties
<1>5. ToSet(p.statements) = ss
  BY <1>2
<1> HIDE DEF ss
<1>6. ~Hit(p, "forbid", a) /\ (Hit(p, "permit", a) <=> \E g \in G : Glob(g, a))
  BY <1>4, <1>5 DEF Hit
<1>7. Check(files[place], a) =
           {IF Hit(q, "forbid", a) THEN "forbid" ELSE IF Hit(q, "permit", a) THEN "permit" ELSE "no match" :
              q \in {p}}
  BY <1>1, <1>2, CheckIs
<1>8. Check(files[place], a) = {IF Hit(p, "permit", a) THEN "permit" ELSE "no match"}
  BY <1>6, <1>7
<1>9. Check(files[place], a) = {"permit"} <=> \E g \in G : Glob(g, a)
  BY <1>6, <1>8
<1> QED BY <1>9 DEF G

\* SavedFits: a file that generate saved is valid under the name it was given, whatever the
\* log holds; it permits each tame request it was generated from that was allowed; and if all
\* it codified is tame, no tame request of another host, service or namespace.
THEOREM SavedFitsAlways == Spec => []SavedFits
<1>1. Inv => SavedFits
  <2> SUFFICES ASSUME Inv, NEW place \in DOMAIN made
               PROVE  /\ \E p \in Read[files[place]] : Valid(p) /\ SavePlace(p.name) = place
                      /\ \A e \in made[place] :
                           e.result = "allow" /\ e.req \in Tame =>
                             Checked[files[place]][Canonical[e.req]] = {"permit"}
                      /\ (\A e \in made[place] : ReadsAllowed(e) => e.req \in Tame) =>
                           \A r \in Tame :
                             Checked[files[place]][Canonical[r]] = {"permit"} =>
                               \E e \in made[place] :
                                 (e.result = "allow" \/ Misread(e)) /\ SameUse(r, e.req)
    BY DEF SavedFits
  <2> DEFINE d == made[place]
             t == files[place]
  <2>1. \E p \in Read[t] : Valid(p) /\ SavePlace(p.name) = place
    BY MadeValid
  <2>2. d \subseteq Logged /\ IsFiniteSet(d) /\ t \in Texts
    BY MadeRead
  <2>3. \A r \in Tame : Checked[t][Canonical[r]] = {"permit"} <=>
                        \E g \in Collapsed(Codified(d)) : Glob(g, Canonical[r])
    <3>1. \A a : Check(t, a) = {"permit"} <=> \E g \in Collapsed(Codified(d)) : Glob(g, a)
      BY MadePermits
    <3>2. \A r \in Tame : Canonical[r] \in Action
      BY RequestType
    <3> HIDE DEF d, t
    <3>3. \A r \in Tame : Checked[t][Canonical[r]] = Check(t, Canonical[r])
      BY <2>2, <3>2, CheckedIs
    <3> QED BY <3>1, <3>3
  <2> HIDE DEF d, t
  <2>4. ASSUME NEW e \in d, e.result = "allow", e.req \in Tame
        PROVE  Checked[t][Canonical[e.req]] = {"permit"}
    <3>1. ReadsAllowed(e)
      BY <2>4 DEF ReadsAllowed
    <3>2. \E g \in Collapsed(Codified(d)) : Glob(g, Canonical[e.req])
      BY <2>2, <2>4, <3>1, Covered
    <3> QED BY <2>3, <2>4, <3>2
  <2>5. ASSUME \A e \in d : ReadsAllowed(e) => e.req \in Tame,
               NEW r \in Tame, Checked[t][Canonical[r]] = {"permit"}
        PROVE  \E e \in d : (e.result = "allow" \/ Misread(e)) /\ SameUse(r, e.req)
    <3>1. PICK g \in Collapsed(Codified(d)) : Glob(g, Canonical[r])
      BY <2>3, <2>5
    <3>2. \E e \in d : ReadsAllowed(e) /\ SameUse(r, e.req)
      BY <2>2, <2>5, <3>1, NothingElse
    <3> QED BY <3>2 DEF ReadsAllowed
  <2> QED BY <2>1, <2>4, <2>5 DEF d, t
<1> QED BY <1>1, InvAlways, PTL

-----------------------------------------------------------------------------
(***************************************************************************)
(* What the actions of the log keep of the method.                         *)
(***************************************************************************)
\* The action of an S3 operation, whose colons are where Aws writes them.
S3Front(r) == <<"aws", "[profile=", r.key, "]", ":", Head(r.host), ":">>

\* The canonical action of an S3 request without a named operation.
LEMMA S3Canonical ==
  ASSUME NEW r \in Tame, Within(r, "amazonaws.com"), Head(r.host) = "s3",
         r.query = <<>>, r.target = <<>>
  PROVE  /\ Canonical[r] = S3Front(r) \o S3Operation(r.method, r.path)
         /\ IsSeq(S3Front(r)) /\ IsSeq(S3Operation(r.method, r.path))
         /\ Len(S3Front(r)) = 7 /\ S3Front(r)[7] = ":"
<1>1. Canonical[r] = Aws(r)
  BY RequestType DEF ParseAction
<1>2. Aws(r) = S3Front(r) \o S3Operation(r.method, r.path)
  BY DEF Aws, S3Front
<1>3. IsSeq(S3Operation(r.method, r.path))
  BY RequestType, S3OperationIs
<1>4. IsSeq(S3Front(r))
  BY TupleIs DEF S3Front
<1>5. Len(S3Front(r)) = 7 /\ S3Front(r)[7] = ":"
  BY DEF S3Front
<1> QED BY <1>1, <1>2, <1>3, <1>4, <1>5

\* Where the operation starts: what follows the last colon is its first symbol.
LEMMA AfterColon ==
  ASSUME NEW a \in Action, NEW k \in 1..Len(a), a[k] = ":",
         \A i \in 1..Len(a) : i > k => a[i] # ":"
  PROVE  LastColon(a) = k
<1> DEFINE n == LastColon(a)
<1>1. n \in 1..Len(a) /\ a[n] = ":" /\ Len(a) \in Nat /\ k <= n
  BY ActionType
<1> HIDE DEF n
<1>2. ~(n > k)
  BY <1>1
<1>3. n = k
  BY <1>1, <1>2
<1> QED BY <1>3 DEF n

\* What follows the last colon of such an action.
LEMMA S3Risk ==
  ASSUME NEW r \in Tame, Within(r, "amazonaws.com"), Head(r.host) = "s3",
         r.query = <<>>, r.target = <<>>
  PROVE  \/ \E x : S3Word(r.method, x) /\ Canonical[r][LastColon(Canonical[r]) + 1] = x
         \/ /\ Canonical[r][LastColon(Canonical[r]) + 1] = "/"
            /\ r.method \notin {"GET", "PUT", "DELETE", "HEAD"}
<1> DEFINE a == Canonical[r]
           u == S3Front(r)
           op == S3Operation(r.method, r.path)
           k == Len(u)
<1>1. a \in Action /\ a = u \o op /\ IsSeq(u) /\ IsSeq(op)
  BY RequestType, S3Canonical
<1>2. k = 7 /\ u[7] = ":"
  BY S3Canonical
<1> HIDE DEF u, op
<1>3. /\ IsSeq(u \o op) /\ Len(u \o op) = k + Len(op)
      /\ \A i \in 1..k : (u \o op)[i] = u[i]
      /\ \A i \in 1..Len(op) : (u \o op)[k + i] = op[i]
  BY <1>1, ConcatIs
<1> HIDE DEF k
<1>4. /\ Len(a) = 7 + Len(op) /\ a[7] = ":" /\ Len(op) \in Nat
      /\ \A i \in 1..Len(op) : a[7 + i] = op[i]
  BY <1>1, <1>2, <1>3 DEF IsSeq
<1> HIDE DEF a
<1>5. \A i \in 1..Len(a) : i > 7 => i - 7 \in 1..Len(op) /\ a[i] = op[i - 7]
  <2> SUFFICES ASSUME NEW i \in 1..Len(a), i > 7 PROVE i - 7 \in 1..Len(op) /\ a[i] = op[i - 7]
    OBVIOUS
  <2>1. i - 7 \in 1..Len(op) /\ 7 + (i - 7) = i
    BY <1>4
  <2> QED BY <1>4, <2>1
<1>6. ASSUME NEW x, NEW y, op = <<x, y>>, S3Word(r.method, x),
             y \in {"Buckets", "Objects", "Bucket", "Object"}
      PROVE  S3Word(r.method, x) /\ a[LastColon(a) + 1] = x
  <2>1. Len(op) = 2 /\ op[1] = x /\ op[2] = y
    BY <1>6
  <2>2. x # ":" /\ y # ":"
    BY <1>6 DEF S3Word
  <2>3. \A i \in 1..Len(op) : op[i] # ":"
    BY <2>1, <2>2
  <2>4. \A i \in 1..Len(a) : i > 7 => a[i] # ":"
    BY <1>5, <2>3
  <2>5. LastColon(a) = 7
    <3> DEFINE o == 7
    <3>1. o \in 1..Len(a) /\ a[o] = ":" /\ \A i \in 1..Len(a) : i > o => a[i] # ":"
      BY <1>4, <2>4
    <3> HIDE DEF o
    <3>2. LastColon(a) = o
      BY <1>1, <3>1, AfterColon
    <3> QED BY <3>2 DEF o
  <2> QED BY <1>4, <1>6, <2>1, <2>5
<1>7. ASSUME op = <<r.method, ":">> \o PathText(r.path) PROVE a[LastColon(a) + 1] = "/"
  <2> DEFINE m == <<r.method, ":">>
             t == PathText(r.path)
  <2>1. IsSeq(m) /\ Len(m) = 2 /\ m[2] = ":"
    BY TupleIs
  <2>2. t \in Seq(Word \cup {"/"}) /\ Len(t) \in Nat \ {0} /\ t[1] = "/" /\ IsSeq(t)
    BY RequestType, PathTextType
  <2>3. op = m \o t
    BY <1>7
  <2> HIDE DEF m, t
  <2>4. /\ Len(m \o t) = Len(m) + Len(t)
        /\ \A i \in 1..Len(m) : (m \o t)[i] = m[i]
        /\ \A i \in 1..Len(t) : (m \o t)[Len(m) + i] = t[i]
    <3>1. IsSeq(m) /\ IsSeq(t)
      BY <2>1, <2>2
    <3> QED BY <3>1, ConcatIs
  <2>5. /\ Len(op) = 2 + Len(t) /\ op[2] = ":" /\ \A i \in 1..Len(t) : op[2 + i] = t[i]
    BY <2>1, <2>3, <2>4
  <2>6. \A i \in 1..Len(t) : t[i] # ":"
    BY <2>2, WordSigns
  <2>7. Len(a) = 9 + Len(t) /\ a[9] = ":" /\ a[10] = "/"
    <3>1. 2 \in 1..Len(op) /\ 3 \in 1..Len(op) /\ op[3] = "/" /\ 7 + 2 = 9 /\ 7 + 3 = 10
      BY <2>2, <2>5
    <3> QED BY <1>4, <2>2, <2>5, <3>1
  <2>8. \A i \in 1..Len(a) : i > 9 => a[i] # ":"
    <3> SUFFICES ASSUME NEW i \in 1..Len(a), i > 9 PROVE a[i] # ":"
      OBVIOUS
    <3>1. i - 9 \in 1..Len(t) /\ 2 + (i - 9) = i - 7 /\ i > 7
      BY <2>2, <2>7
    <3>2. a[i] = op[i - 7] /\ op[i - 7] = t[i - 9]
      BY <1>5, <2>5, <3>1
    <3> QED BY <2>6, <3>1, <3>2
  <2>9. 9 \in 1..Len(a)
    BY <2>2, <2>7
  <2>10. LastColon(a) = 9
    BY <1>1, <2>7, <2>8, <2>9, AfterColon
  <2> QED BY <2>7, <2>10
<1>8. \/ \E x, y : /\ op = <<x, y>> /\ S3Word(r.method, x)
                   /\ y \in {"Buckets", "Objects", "Bucket", "Object"}
      \/ /\ op = <<r.method, ":">> \o PathText(r.path)
         /\ r.method \notin {"GET", "PUT", "DELETE", "HEAD"}
  BY S3Says DEF op
<1>9. \/ \E x : S3Word(r.method, x) /\ a[LastColon(a) + 1] = x
      \/ /\ a[LastColon(a) + 1] = "/"
         /\ r.method \notin {"GET", "PUT", "DELETE", "HEAD"}
  BY <1>6, <1>7, <1>8, Zenon
<1> QED BY <1>9 DEF a

\* VerbKept: outside AWS two tame logged requests with one action have one method, unless one
\* is spelled as a verb of the parsers; and the risk of S3's own operations is safe exactly for
\* a read, dangerous exactly for a delete.
THEOREM VerbKeptAlways == Spec => []VerbKept
<1>1. Inv => VerbKept
  <2> SUFFICES ASSUME Inv PROVE VerbKept
    OBVIOUS
  <2>2. ASSUME NEW d \in log, NEW e \in log, d.req \in Tame, e.req \in Tame,
               Canonical[d.req] = Canonical[e.req], Canonical[d.req][1] # "aws"
        PROVE  d.req.method = e.req.method \/ {d.req.method, e.req.method} \cap Verb # {}
    <3>1. CASE d.req.method \in Verb \/ e.req.method \in Verb
      BY <3>1
    <3>2. CASE d.req.method \notin Verb /\ e.req.method \notin Verb
      BY <2>2, <3>2, MethodTold
    <3> QED BY <3>1, <3>2
  <2>3. ASSUME NEW e \in log, e.req \in Tame, Within(e.req, "amazonaws.com"), Head(e.req.host) = "s3",
               e.req.query = <<>>, e.req.target = <<>>
        PROVE  LET risk == ClassifyRisk(Canonical[e.req])
               IN /\ risk = "safe" <=> e.req.method \in {"GET", "HEAD"}
                  /\ risk = "dangerous" <=> e.req.method = "DELETE"
    <3> DEFINE a == Canonical[e.req]
               x == a[LastColon(a) + 1]
               method == e.req.method
    <3>1. \/ S3Word(method, x)
          \/ x = "/" /\ method \notin {"GET", "PUT", "DELETE", "HEAD"}
      BY <2>3, S3Risk
    <3>2. ClassifyRisk(a) =
            CASE x \in {"Describe", "List", "Get", "Head", "read"} -> "safe"
              [] x \in {"Delete", "Terminate", "Remove", "Revoke", "Detach"} -> "dangerous"
              [] OTHER -> "moderate"
      BY DEF ClassifyRisk
    <3> HIDE DEF a, x, method
    <3>3. /\ ClassifyRisk(a) = "safe" <=> method \in {"GET", "HEAD"}
          /\ ClassifyRisk(a) = "dangerous" <=> method = "DELETE"
      BY <3>1, <3>2 DEF S3Word
    <3> QED BY <3>3 DEF a, method
  <2> QED BY <2>2, <2>3 DEF VerbKept
<1> QED BY <1>1, InvAlways, PTL
=============================================================================
