------------------------- MODULE ApprovalScreenProofs -------------------------
(***************************************************************************)
(* Proofs about ApprovalScreen, for every number of requests, of keys that *)
(* wait and of lines of the log.                                           *)
(***************************************************************************)
EXTENDS ApprovalScreen, FiniteSetTheorems, SequenceTheorems, WellFoundedInduction, TLAPS

LEMMA Halves ==
  ASSUME NEW h \in Nat
  PROVE  /\ Begun(h) \in Nat /\ h <= 2 * Begun(h) /\ 2 * Begun(h) <= h + 1
         /\ Whole(h) \in Nat /\ 2 * Whole(h) <= h /\ h <= 2 * Whole(h) + 1
BY DEF Begun, Whole

\* Every list that the human sees is in one order, by age.
Ascending(s) == \A i, j \in DOMAIN s : i < j => s[i] < s[j]

LEMMA ItemTypes ==
  /\ Entry \subseteq Item /\ Item \subseteq Nat /\ NoItem \notin Item
  /\ Seq(Entry) \subseteq Seq(Item)
<1>1. Entry \subseteq Item /\ Item \subseteq Nat /\ NoItem \notin Item
  BY ScreenAssumption DEF Entry, Item, NoItem
<1>2. ASSUME NEW s \in Seq(Entry) PROVE s \in Seq(Item)
  BY <1>1, SeqMonotonic
<1>3. Seq(Entry) \subseteq Seq(Item)
  BY <1>2, Zenon
<1> QED BY <1>1, <1>3

LEMMA LeastElement ==
  ASSUME NEW T \in SUBSET Nat, T # {}
  PROVE  \E m \in T : \A n \in T : m <= n
<1> DEFINE Segment == {0 .. n : n \in T}
<1>1. Segment \subseteq FiniteSubsetsOf(Nat) /\ Segment # {}
  <2>1. ASSUME NEW n \in T PROVE 0 .. n \in FiniteSubsetsOf(Nat)
    BY FS_Interval DEF FiniteSubsetsOf
  <2> QED BY <2>1
<1>2. IsWellFoundedOn(StrictSubsetOrdering(Nat), FiniteSubsetsOf(Nat))
  BY FS_StrictSubsetOrderingWellFounded
<1> HIDE DEF Segment
<1>3. PICK X \in Segment : \A Y \in Segment : ~(<<Y, X>> \in StrictSubsetOrdering(Nat))
  BY <1>1, <1>2, WFMin
<1>4. PICK m \in T : X = 0 .. m
  BY DEF Segment
<1>5. ASSUME NEW n \in T, ~(m <= n) PROVE FALSE
  <2>1. 0 .. n \in Segment
    BY DEF Segment
  <2>2. 0 .. n \subseteq 0 .. m /\ m \in 0 .. m /\ m \notin 0 .. n /\ 0 .. m \subseteq Nat
    BY <1>5
  <2>3. <<0 .. n, 0 .. m>> \in StrictSubsetOrdering(Nat)
    BY <2>2 DEF StrictSubsetOrdering
  <2> QED BY <1>3, <1>4, <2>1, <2>3
<1> QED BY <1>5

\* What is left of a list around its k-th item.
LEMMA Joined ==
  ASSUME NEW S, NEW list \in Seq(S), NEW k \in 1 .. Len(list)
  PROVE  LET s == SubSeq(list, 1, k - 1) \o SubSeq(list, k + 1, Len(list)) IN
         /\ s \in Seq(S) /\ Len(s) = Len(list) - 1
         /\ \A j \in 1 .. Len(s) : s[j] = IF j < k THEN list[j] ELSE list[j + 1]
<1> DEFINE front == SubSeq(list, 1, k - 1)
           back  == SubSeq(list, k + 1, Len(list))
           s     == front \o back
<1>1. /\ front \in Seq(S) /\ Len(front) = k - 1
      /\ \A j \in 1 .. k - 1 : front[j] = list[j]
  OBVIOUS
<1>2. /\ back \in Seq(S) /\ Len(back) = Len(list) - k
      /\ \A j \in 1 .. Len(list) - k : back[j] = list[k + j]
  OBVIOUS
<1> HIDE DEF front, back
<1>3. /\ s \in Seq(S) /\ Len(s) = Len(front) + Len(back)
      /\ \A j \in 1 .. Len(front) + Len(back) :
           s[j] = IF j <= Len(front) THEN front[j] ELSE back[j - Len(front)]
  BY <1>1, <1>2, ConcatProperties, Zenon
<1> HIDE DEF s
<1>4. Len(s) = Len(list) - 1
  BY <1>1, <1>2, <1>3
<1>5. ASSUME NEW j \in 1 .. Len(s) PROVE s[j] = IF j < k THEN list[j] ELSE list[j + 1]
  <2>0. s[j] = IF j <= k - 1 THEN front[j] ELSE back[j - (k - 1)]
    BY <1>1, <1>3
  <2>1. CASE j < k
    BY <1>1, <2>0, <2>1
  <2>2. CASE ~(j < k)
    <3>1. j - (k - 1) \in 1 .. Len(list) - k
      BY <1>4, <2>2
    <3>2. back[j - (k - 1)] = list[k + (j - (k - 1))]
      BY <1>2, <3>1
    <3>3. k + (j - (k - 1)) = j + 1 /\ ~(j <= k - 1)
      BY <2>2
    <3> QED BY <2>0, <2>2, <3>2, <3>3
  <2> QED BY <2>1, <2>2
<1> QED BY <1>3, <1>4, <1>5 DEF s, front, back

\* A list with an item put in at its k-th place.
LEMMA Inserted ==
  ASSUME NEW S, NEW list \in Seq(S), NEW e \in S, NEW k \in 1 .. Len(list) + 1
  PROVE  LET s == InsertAt(list, k, e) IN
         /\ s \in Seq(S) /\ Len(s) = Len(list) + 1
         /\ \A j \in 1 .. Len(s) :
              s[j] = IF j < k THEN list[j] ELSE IF j = k THEN e ELSE list[j - 1]
<1> DEFINE front == SubSeq(list, 1, k - 1)
           back  == SubSeq(list, k, Len(list))
           head  == front \o <<e>>
           s     == head \o back
<1>1. /\ front \in Seq(S) /\ Len(front) = k - 1
      /\ \A j \in 1 .. k - 1 : front[j] = list[j]
  OBVIOUS
<1>2. /\ back \in Seq(S) /\ Len(back) = Len(list) - k + 1
      /\ \A j \in 1 .. Len(list) - k + 1 : back[j] = list[k - 1 + j]
  OBVIOUS
<1> HIDE DEF front, back
<1>3. head \in Seq(S) /\ Len(head) = k
  BY <1>1
<1>4. (\A j \in 1 .. k - 1 : head[j] = list[j]) /\ head[k] = e
  <2>1. \A j \in 1 .. k - 1 : head[j] = front[j]
    BY <1>1
  <2>2. head[k] = e
    BY <1>1
  <2> QED BY <1>1, <2>1, <2>2
<1> HIDE DEF head
<1>5. /\ s \in Seq(S) /\ Len(s) = Len(head) + Len(back)
      /\ \A j \in 1 .. Len(head) + Len(back) :
           s[j] = IF j <= Len(head) THEN head[j] ELSE back[j - Len(head)]
  <2>1. head \in Seq(S) /\ back \in Seq(S)
    BY <1>2, <1>3, Zenon
  <2> QED BY <2>1, ConcatProperties, Zenon
<1> HIDE DEF s
<1>6. Len(s) = Len(list) + 1
  BY <1>2, <1>3, <1>5
<1>7. ASSUME NEW j \in 1 .. Len(s)
      PROVE  s[j] = IF j < k THEN list[j] ELSE IF j = k THEN e ELSE list[j - 1]
  <2>1. s[j] = IF j <= k THEN head[j] ELSE back[j - k]
    BY <1>3, <1>5
  <2>2. CASE j < k
    <3>1. j <= k /\ j \in 1 .. k - 1
      BY <2>2
    <3> QED BY <1>4, <2>1, <2>2, <3>1, Zenon
  <2>3. CASE j = k
    BY <1>4, <2>1, <2>3
  <2>4. CASE k < j
    <3>1. j - k \in 1 .. Len(list) - k + 1
      BY <1>6, <2>4
    <3>2. back[j - k] = list[k - 1 + (j - k)]
      BY <1>2, <3>1
    <3>3. k - 1 + (j - k) = j - 1 /\ ~(j <= k) /\ ~(j < k) /\ j # k
      BY <2>4
    <3> QED BY <2>1, <3>2, <3>3
  <2>5. j < k \/ j = k \/ k < j
    OBVIOUS
  <2> QED BY <2>2, <2>3, <2>4, <2>5, Zenon
<1>8. InsertAt(list, k, e) = s
  BY DEF InsertAt, s, head, front, back
<1> QED BY <1>5, <1>6, <1>7, <1>8, Zenon

\* Removing an item keeps the order,
LEMMA WithoutKeeps ==
  ASSUME NEW S \in SUBSET Nat, NEW list \in Seq(S), NEW i
  PROVE  /\ Without(list, i) \in Seq(S)
         /\ Ascending(list) => Ascending(Without(list, i))
         /\ ToSet(Without(list, i)) \subseteq ToSet(list)
<1>1. CASE i \notin ToSet(list)
  BY <1>1 DEF Without
<1>2. CASE i \in ToSet(list)
  <2> DEFINE k == CHOOSE j \in DOMAIN list : list[j] = i
  <2>1. k \in 1 .. Len(list)
    BY <1>2 DEF ToSet
  <2>2. Without(list, i) = SubSeq(list, 1, k - 1) \o SubSeq(list, k + 1, Len(list))
    BY <1>2 DEF Without, RemoveAt
  <2> HIDE DEF k
  <2> DEFINE s == SubSeq(list, 1, k - 1) \o SubSeq(list, k + 1, Len(list))
  <2>3. /\ s \in Seq(S) /\ Len(s) = Len(list) - 1
        /\ \A j \in 1 .. Len(s) : s[j] = IF j < k THEN list[j] ELSE list[j + 1]
    BY <2>1, Joined
  <2> HIDE DEF s
  <2>4. Ascending(list) => Ascending(s)
    <3> SUFFICES ASSUME Ascending(list), NEW a \in 1 .. Len(s), NEW b \in 1 .. Len(s), a < b
                 PROVE  s[a] < s[b]
      BY <2>3 DEF Ascending
    <3> DEFINE In(j) == IF j < k THEN j ELSE j + 1
    <3>1. In(a) \in DOMAIN list /\ In(b) \in DOMAIN list /\ In(a) < In(b)
      BY <2>1, <2>3
    <3>2. s[a] = list[In(a)] /\ s[b] = list[In(b)]
      BY <2>3
    <3> HIDE DEF In
    <3> QED BY <3>1, <3>2 DEF Ascending
  <2>5. ToSet(s) \subseteq ToSet(list)
    <3> SUFFICES ASSUME NEW j \in 1 .. Len(s) PROVE s[j] \in ToSet(list)
      BY <2>3 DEF ToSet
    <3>1. \E n \in DOMAIN list : s[j] = list[n]
      BY <2>1, <2>3
    <3> QED BY <3>1 DEF ToSet
  <2> QED BY <2>2, <2>3, <2>4, <2>5 DEF s
<1> QED BY <1>1, <1>2

\* so does adding a rule, the youngest,
LEMMA AppendKeeps ==
  ASSUME NEW list \in Seq(Item), NEW n \in Item, \A i \in DOMAIN list : list[i] < n,
         Ascending(list)
  PROVE  /\ Append(list, n) \in Seq(Item) /\ Ascending(Append(list, n))
         /\ \A i \in DOMAIN Append(list, n) : Append(list, n)[i] <= n
<1>1. Append(list, n) \in Seq(Item) /\ DOMAIN Append(list, n) = 1 .. Len(list) + 1
  OBVIOUS
<1>2. \A i \in 1 .. Len(list) + 1 :
        Append(list, n)[i] = IF i \in DOMAIN list THEN list[i] ELSE n
  OBVIOUS
<1>3. n \in Nat /\ \A i \in DOMAIN list : list[i] \in Nat
  BY DEF Item
<1>4. Ascending(Append(list, n))
  BY <1>1, <1>2 DEF Ascending
<1>5. \A i \in 1 .. Len(list) + 1 : Append(list, n)[i] <= n
  BY <1>2, <1>3
<1> QED BY <1>1, <1>4, <1>5

\* and so does parking a request at its rank, which there is,
LEMMA RankIs ==
  ASSUME pending \in Seq(Entry), Ascending(pending), NEW e \in Entry
  PROVE  /\ Rank(e) \in 1 .. Len(pending) + 1
         /\ \A j \in DOMAIN pending : pending[j] < e <=> j < Rank(e)
<1> DEFINE T == {j \in 1 .. Len(pending) + 1 : j \in DOMAIN pending => ~(pending[j] < e)}
<1>1. T \in SUBSET Nat /\ Len(pending) + 1 \in T
  OBVIOUS
<1>2. PICK m \in T : \A n \in T : m <= n
  BY <1>1, LeastElement
<1>3. ASSUME NEW j \in DOMAIN pending PROVE pending[j] < e <=> j < m
  <2>1. e \in Nat /\ pending[j] \in Nat
    BY ScreenAssumption DEF Entry
  <2>2. CASE j < m
    BY <1>2, <2>2
  <2>3. CASE j = m
    BY <2>3
  <2>4. CASE m < j
    <3>1. m \in DOMAIN pending /\ pending[m] \in Nat
      BY <2>4, ScreenAssumption DEF Entry
    <3>2. pending[m] < pending[j] /\ ~(pending[m] < e)
      BY <2>4, <3>1 DEF Ascending
    <3> QED BY <2>1, <2>4, <3>1, <3>2
  <2> QED BY <2>2, <2>3, <2>4
<1>4. m \in 1 .. Len(pending) + 1
  OBVIOUS
<1> QED BY <1>3, <1>4 DEF Rank

LEMMA ParkKeeps ==
  ASSUME pending \in Seq(Entry), Ascending(pending), ToSet(pending) \subseteq parked,
         NEW e \in Entry, e \notin parked, pending' = InsertAt(pending, Rank(e), e)
  PROVE  /\ pending' \in Seq(Entry) /\ Ascending(pending')
         /\ ToSet(pending') \subseteq parked \cup {e}
<1>1. PICK k \in 1 .. Len(pending) + 1 :
          /\ k = Rank(e)
          /\ \A j \in DOMAIN pending : pending[j] < e <=> j < k
  BY RankIs
<1> DEFINE s == InsertAt(pending, k, e)
<1>2. pending' = s
  BY <1>1
<1>3. /\ s \in Seq(Entry) /\ Len(s) = Len(pending) + 1
      /\ \A j \in 1 .. Len(s) :
           s[j] = IF j < k THEN pending[j] ELSE IF j = k THEN e ELSE pending[j - 1]
  BY Inserted
<1> HIDE DEF s
<1>4. \A j \in DOMAIN pending : pending[j] \in Nat /\ pending[j] # e /\ pending[j] \in parked
  BY ScreenAssumption DEF Entry, ToSet
<1>5. ASSUME NEW a \in 1 .. Len(s), NEW b \in 1 .. Len(s), a < b
      PROVE  s[a] < s[b]
  <2>0. e \in Nat
    BY ScreenAssumption DEF Entry
  <2>1. CASE a # k /\ b # k
    <3> DEFINE In(j) == IF j < k THEN j ELSE j - 1
    <3>1. In(a) \in DOMAIN pending /\ In(b) \in DOMAIN pending /\ In(a) < In(b)
      BY <1>3, <1>5, <2>1
    <3>2. s[a] = pending[In(a)] /\ s[b] = pending[In(b)]
      BY <1>3, <2>1
    <3> HIDE DEF In
    <3> QED BY <3>1, <3>2 DEF Ascending
  <2>2. CASE a = k
    <3>1. b - 1 \in DOMAIN pending /\ ~(b - 1 < k) /\ s[a] = e /\ s[b] = pending[b - 1]
      BY <1>3, <1>5, <2>2
    <3> QED BY <1>1, <1>4, <2>0, <3>1
  <2>3. CASE b = k
    <3>1. a \in DOMAIN pending /\ a < k /\ s[a] = pending[a] /\ s[b] = e
      BY <1>3, <1>5, <2>3
    <3> QED BY <1>1, <3>1
  <2> QED BY <2>1, <2>2, <2>3
<1>6. ASSUME NEW j \in 1 .. Len(s) PROVE s[j] \in parked \cup {e}
  <2>1. s[j] = e \/ \E n \in DOMAIN pending : s[j] = pending[n]
    <3>1. CASE j < k
      <4>1. j \in DOMAIN pending /\ s[j] = pending[j]
        BY <1>3, <3>1
      <4> QED BY <4>1, Zenon
    <3>2. CASE j = k
      BY <1>3, <3>2
    <3>3. CASE k < j
      <4>1. j - 1 \in DOMAIN pending /\ s[j] = pending[j - 1]
        BY <1>3, <3>3
      <4> QED BY <4>1, Zenon
    <3>4. j < k \/ j = k \/ k < j
      BY <1>3
    <3> QED BY <3>1, <3>2, <3>3, <3>4, Zenon
  <2> QED BY <1>4, <2>1
<1> QED BY <1>2, <1>3, <1>5, <1>6 DEF Ascending, ToSet

\* so that a list from which nothing has gone, and to which only younger items have
\* come, has its old items where they were.
LEMMA KeptInPlace ==
  ASSUME NEW old \in Seq(Item), NEW new \in Seq(Item), Ascending(old), Ascending(new),
         Kept(old, new), NEW i \in DOMAIN old
  PROVE  i \in DOMAIN new /\ new[i] = old[i]
<1> DEFINE Moved == {j \in DOMAIN old : ~(j \in DOMAIN new /\ new[j] = old[j])}
<1> SUFFICES ASSUME Moved # {} PROVE FALSE
  OBVIOUS
<1>1. Moved \in SUBSET Nat
  OBVIOUS
<1>2. PICK m \in Moved : \A n \in Moved : m <= n
  BY <1>1, LeastElement
<1>3. m \in DOMAIN old /\ ~(m \in DOMAIN new /\ new[m] = old[m])
  OBVIOUS
<1>4. \A j \in DOMAIN old : j < m => j \in DOMAIN new /\ new[j] = old[j]
  BY <1>2
<1> HIDE DEF Moved
<1>5. /\ \A j \in DOMAIN old : old[j] \in Nat
      /\ \A j \in DOMAIN new : new[j] \in Nat
  BY DEF Item
<1>6. PICK n \in DOMAIN new : new[n] = old[m]
  BY <1>3 DEF Kept, ToSet
<1>7. ~(n < m)
  <2> SUFFICES ASSUME n < m PROVE FALSE
    OBVIOUS
  <2>1. n \in DOMAIN old /\ new[n] = old[n] /\ old[n] < old[m]
    BY <1>3, <1>4 DEF Ascending
  <2> QED BY <1>3, <1>5, <1>6, <2>1
<1>8. m < n /\ m \in DOMAIN new /\ new[m] < old[m]
  <2>1. m < n /\ m \in DOMAIN new
    BY <1>3, <1>6, <1>7
  <2> QED BY <1>6, <2>1 DEF Ascending
<1>9. CASE new[m] \in ToSet(old)
  <2>1. PICK j \in DOMAIN old : old[j] = new[m]
    BY <1>9 DEF ToSet
  <2>2. j < m
    <3> SUFFICES ASSUME ~(j < m) PROVE FALSE
      OBVIOUS
    <3>1. old[m] < old[j] \/ j = m
      BY <1>3 DEF Ascending
    <3> QED BY <1>3, <1>5, <1>8, <2>1, <3>1
  <2>3. j \in DOMAIN new /\ new[j] = new[m] /\ new[j] < new[m]
    BY <1>4, <1>8, <2>1, <2>2 DEF Ascending
  <2> QED BY <1>5, <1>8, <2>3
<1>10. CASE new[m] \notin ToSet(old)
  <2>1. old[m] < new[m]
    BY <1>3, <1>8, <1>10 DEF Kept, ToSet
  <2> QED BY <1>3, <1>5, <1>8, <2>1
<1> QED BY <1>9, <1>10
-----------------------------------------------------------------------------
(***************************************************************************)
(* Type correctness and the order of the lists, which parking a request at *)
(* its rank rests on.  What has been read is there: a poll reads only where*)
(* the log has grown.                                                      *)
(***************************************************************************)
ReadsMore == pc = "read" => written > offset

DaemonInv ==
  /\ pending \in Seq(Entry) /\ Ascending(pending) /\ ToSet(pending) \subseteq parked
  /\ granted \in Nat
  /\ rules \in Seq(Item) /\ Ascending(rules) /\ \A i \in DOMAIN rules : rules[i] <= granted

WaitingInv ==
  /\ waiting \in Seq(Frame) /\ Len(waiting) <= MaxWaiting
  /\ \A k \in DOMAIN waiting : Ascending(waiting[k].list)

ScreenInv ==
  TypeOK /\ ReadsMore /\ DaemonInv /\ WaitingInv /\ Ascending(seen) /\ Ascending(policy)

LEMMA HandledKeeps ==
  ASSUME DaemonInv, NEW kind, NEW i, Handled(kind, i), parked' = parked
  PROVE  DaemonInv'
<1> USE ItemTypes DEF DaemonInv
<1>1. pending' \in Seq(Entry) /\ Ascending(pending') /\ ToSet(pending') \subseteq parked
  <2>1. pending' = pending \/ pending' = Without(pending, i)
    BY Zenon DEF Handled
  <2>2. /\ Without(pending, i) \in Seq(Entry) /\ Ascending(Without(pending, i))
        /\ ToSet(Without(pending, i)) \subseteq ToSet(pending)
    BY WithoutKeeps
  <2> QED BY <2>1, <2>2, Zenon
<1>2. CASE granted' # granted
  <2>1. granted' = granted + 1 /\ rules' = Append(rules, granted')
    BY <1>2 DEF Handled
  <2>2. granted' \in Nat /\ granted' \in Item /\ \A j \in DOMAIN rules : rules[j] < granted'
    BY <2>1 DEF Item
  <2> QED BY <1>1, <2>1, <2>2, AppendKeeps
<1>3. CASE granted' = granted
  <2>1. rules' = rules \/ rules' = Without(rules, i)
    BY <1>3, Zenon DEF Handled
  <2>2. /\ Without(rules, i) \in Seq(Item) /\ Ascending(Without(rules, i))
        /\ ToSet(Without(rules, i)) \subseteq ToSet(rules)
    BY WithoutKeeps
  <2>3. \A j \in DOMAIN Without(rules, i) : Without(rules, i)[j] <= granted
    BY <2>2 DEF ToSet
  <2> QED BY <1>1, <1>3, <2>1, <2>2, <2>3
<1> QED BY <1>2, <1>3

LEMMA ReadKeeps ==
  ASSUME TypeOK, WaitingInv, NEW place, Read(place)
  PROVE  WaitingInv' /\ Head(waiting) \in Frame /\ Ascending(Head(waiting).list)
<1>1. /\ waiting \in Seq(Frame) /\ waiting # <<>> /\ waiting' = Tail(waiting)
      /\ MaxWaiting \in Nat /\ Len(waiting) <= MaxWaiting
  BY ScreenAssumption DEF TypeOK, Read
<1>2. /\ waiting' \in Seq(Frame) /\ Len(waiting') = Len(waiting) - 1
      /\ \A k \in 1 .. Len(waiting') : waiting'[k] = waiting[k + 1]
      /\ Head(waiting) = waiting[1] /\ 1 \in DOMAIN waiting
  BY <1>1
<1>3. \A k \in DOMAIN waiting' : Ascending(waiting'[k].list)
  BY <1>1, <1>2 DEF WaitingInv
<1>4. Len(waiting') <= MaxWaiting
  BY <1>1, <1>2
<1>5. Head(waiting) \in Frame /\ Ascending(Head(waiting).list)
  BY <1>1, <1>2 DEF WaitingInv
<1> QED BY <1>2, <1>3, <1>4, <1>5 DEF WaitingInv

\* What is drawn is one of the lists.
LEMMA DrawnKeeps ==
  ASSUME TypeOK, Ascending(seen), Ascending(policy)
  PROVE  Drawn \in Frame /\ Ascending(Drawn.list)
<1>0. /\ ui.tab \in Tab /\ ui.over \in Over /\ ui.approval \in Item /\ ui.rule \in Item
      /\ seen \in Seq(Item) /\ policy \in Seq(Item)
  BY ItemTypes DEF TypeOK
<1>1. CASE ui.tab = "policy"
  <2>1. Drawn = [tab |-> "policy", over |-> ui.over, pos |-> ui.rule, list |-> policy]
    BY <1>1 DEF Drawn
  <2> QED BY <1>0, <2>1 DEF Frame, Tab
<1>2. CASE ui.tab = "approvals"
  <2>1. Drawn = [tab |-> "approvals", over |-> ui.over, pos |-> ui.approval, list |-> seen]
    BY <1>2 DEF Drawn
  <2> QED BY <1>0, <2>1 DEF Frame, Tab
<1>3. CASE ui.tab = "live"
  <2>1. Drawn = [tab |-> "live", over |-> ui.over, pos |-> 1, list |-> <<>>]
    BY <1>3 DEF Drawn, LiveFrame
  <2>2. <<>> \in Seq(Item) /\ 1 \in Item /\ Ascending(<<>>)
    BY DEF Item, Ascending
  <2> QED BY <1>0, <2>1, <2>2 DEF Frame, Tab
<1> QED BY <1>0, <1>1, <1>2, <1>3 DEF Tab

LEMMA TypeKeeps ==
  ASSUME TypeOK, WaitingInv, Ascending(seen), Ascending(policy), Type
  PROVE  WaitingInv'
<1>1. /\ waiting \in Seq(Frame) /\ MaxWaiting \in Nat /\ Len(waiting) < MaxWaiting
      /\ waiting' = Append(waiting, Drawn) /\ Drawn \in Frame
  BY ScreenAssumption, DrawnKeeps DEF TypeOK, Type
<1>2. /\ waiting' \in Seq(Frame) /\ Len(waiting') = Len(waiting) + 1
      /\ \A k \in 1 .. Len(waiting') :
           waiting'[k] = IF k \in DOMAIN waiting THEN waiting[k] ELSE Drawn
  BY <1>1
<1>3. \A k \in DOMAIN waiting' : Ascending(waiting'[k].list)
  BY <1>2, DrawnKeeps DEF WaitingInv
<1> QED BY <1>1, <1>2, <1>3 DEF WaitingInv

\* The lines that a poll reads whole.
LEMMA LinesRead ==
  ASSUME TypeOK, ReadsMore, ReadLog, NEW fresh,
         fresh = [k \in 1 .. Whole(written) - Begun(offset) |-> Begun(offset) + k]
  PROVE  /\ fresh \in Seq(1 .. MaxLines)
         /\ Len(fresh) = Whole(written) - Begun(offset)
         /\ activity' = activity \o fresh
<1>1. written \in Nat /\ offset \in Nat /\ MaxLines \in Nat /\ written <= 2 * MaxLines
  BY ScreenAssumption DEF TypeOK
<1>2. offset < written
  BY <1>1 DEF ReadLog, Step, ReadsMore
<1>3. /\ Begun(offset) \in Nat /\ 2 * Begun(offset) <= offset + 1
      /\ Whole(written) \in Nat /\ 2 * Whole(written) <= written
      /\ written <= 2 * Whole(written) + 1
  BY <1>1, Halves
<1>4. Whole(written) - Begun(offset) \in Nat /\ Whole(written) <= MaxLines
  BY <1>1, <1>2, <1>3
<1>5. activity' = activity \o fresh
  BY DEF ReadLog, ReadFrom
<1>6. ASSUME NEW m \in Nat, NEW b \in Nat, b + m <= MaxLines
      PROVE  /\ [k \in 1 .. m |-> b + k] \in Seq(1 .. MaxLines)
             /\ Len([k \in 1 .. m |-> b + k]) = m
  <2>1. \A k \in 1 .. m : b + k \in 1 .. MaxLines
    BY <1>1, <1>6
  <2> QED BY <1>6, <2>1
<1>7. Begun(offset) + (Whole(written) - Begun(offset)) <= MaxLines
  BY <1>3, <1>4
<1> QED BY <1>3, <1>4, <1>5, <1>6, <1>7

LEMMA TypeInit == Init => ScreenInv
<1> SUFFICES ASSUME Init PROVE ScreenInv
  OBVIOUS
<1>1. FirstUi \in [tab: Tab, over: Over, approval: Item, rule: Item]
  BY DEF FirstUi, Tab, Over, Item
<1>2. TypeOK /\ ReadsMore
  BY <1>1, ScreenAssumption DEF Init, TypeOK, ReadsMore, Place
<1>3. Ascending(<<>>) /\ ToSet(<<>>) = {}
  BY DEF Ascending, ToSet
<1>4. DaemonInv /\ WaitingInv
  BY <1>2, <1>3 DEF Init, DaemonInv, WaitingInv, TypeOK
<1> QED BY <1>2, <1>3, <1>4 DEF Init, ScreenInv

\* A step that leaves the lists and the keys alone keeps their order,
LEMMA RestKept ==
  ASSUME ScreenInv, UNCHANGED <<daemon, lists, waiting>>
  PROVE  DaemonInv' /\ WaitingInv' /\ Ascending(seen') /\ Ascending(policy')
BY DEF ScreenInv, DaemonInv, WaitingInv, daemon, lists

\* and one that leaves the daemon alone what it holds.
LEMMA DaemonKept ==
  ASSUME DaemonInv, UNCHANGED <<pending, parked, rules, granted>>
  PROVE  DaemonInv'
BY DEF DaemonInv

LEMMA ScreenKept == ScreenInv /\ [Next]_vars => ScreenInv'
<1> SUFFICES ASSUME ScreenInv, [Next]_vars PROVE ScreenInv'
  OBVIOUS
<1> DEFINE OrderKept == DaemonInv' /\ WaitingInv' /\ Ascending(seen') /\ Ascending(policy')
<1>a. /\ TypeOK /\ ReadsMore /\ DaemonInv /\ WaitingInv /\ Ascending(seen) /\ Ascending(policy)
  BY DEF ScreenInv
<1>b. SUFFICES TypeOK' /\ ReadsMore' /\ OrderKept
  BY DEF ScreenInv
<1>c. ASSUME UNCHANGED screen
      PROVE  WaitingInv' /\ Ascending(seen') /\ Ascending(policy')
  BY <1>a, <1>c DEF screen, lists, WaitingInv
<1> USE ScreenAssumption, <1>a DEF TypeOK, ReadsMore, Step, Place, daemon, lists, tail
<1>1. ASSUME NEW e \in Entry, Park(e) PROVE TypeOK' /\ ReadsMore' /\ OrderKept
  <2>1. /\ pending' \in Seq(Entry) /\ Ascending(pending') /\ ToSet(pending') \subseteq parked'
        /\ parked' \subseteq Entry /\ UNCHANGED <<rules, granted>>
    BY <1>1, ParkKeeps DEF Park, DaemonInv
  <2>2. DaemonInv'
    BY <2>1 DEF DaemonInv
  <2> QED BY <1>1, <1>c, <2>1, <2>2 DEF Park, screen
<1>2. ASSUME NEW kind, NEW i, OtherScreen(kind, i) PROVE TypeOK' /\ ReadsMore' /\ OrderKept
  <2>1. DaemonInv'
    BY <1>2, HandledKeeps DEF OtherScreen
  <2> QED BY <1>2, <1>c, <2>1 DEF OtherScreen, screen, DaemonInv
<1>3. CASE DaemonEnds
  <2>1. DaemonInv'
    BY <1>3, DaemonKept DEF DaemonEnds
  <2> QED BY <1>3, <1>c, <2>1 DEF DaemonEnds, screen
<1>4. ASSUME NEW n \in {1, 2}, WriteLog(n) PROVE TypeOK' /\ ReadsMore' /\ OrderKept
  <2>1. OrderKept
    BY <1>4, RestKept DEF WriteLog, screen
  <2> QED BY <1>4, <2>1 DEF WriteLog, screen
<1>5. CASE StatLog
  BY <1>5, RestKept DEF StatLog
<1>6. CASE ReadLog
  <2>1. activity' \in Seq(1 .. MaxLines)
    <3>1. PICK fresh :
              fresh = [k \in 1 .. Whole(written) - Begun(offset) |-> Begun(offset) + k]
      OBVIOUS
    <3>2. fresh \in Seq(1 .. MaxLines) /\ activity' = activity \o fresh
      BY <1>6, <3>1, LinesRead
    <3>3. activity \in Seq(1 .. MaxLines)
      OBVIOUS
    <3> QED BY <3>2, <3>3
  <2>2. offset' \in 0 .. written'
    <3>1. offset' = written /\ written' = written
      BY <1>6 DEF ReadLog
    <3> QED BY <3>1
  <2>3. torn' \subseteq 1 .. MaxLines
    <3>1. torn' = torn \cup {n \in 1 .. MaxLines : 2 * n - 1 = written}
      BY <1>6 DEF ReadLog
    <3> QED BY <3>1
  <2> QED BY <1>6, <2>1, <2>2, <2>3, RestKept DEF ReadLog
<1>7. CASE PollRules
  <2>1. UNCHANGED <<daemon, seen, waiting>> /\ policy' \in {policy, rules}
    BY <1>7 DEF PollRules
  <2>2. OrderKept
    BY <2>1, DaemonKept DEF DaemonInv, WaitingInv
  <2> QED BY <1>7, <2>1, <2>2 DEF PollRules
<1>8. CASE AskPending
  <2>1. UNCHANGED <<daemon, policy, waiting>> /\ seen' = pending
    BY <1>8 DEF AskPending
  <2>2. OrderKept
    BY <2>1, DaemonKept DEF DaemonInv, WaitingInv
  <2> QED BY <1>8, <2>1, <2>2 DEF AskPending
<1>9. CASE SkipPending
  BY <1>9, RestKept DEF SkipPending
<1>10. CASE Type
  <2>1. WaitingInv'
    BY <1>10, TypeKeeps
  <2>2. DaemonInv' /\ Ascending(seen') /\ Ascending(policy')
    BY <1>10, DaemonKept DEF Type
  <2> QED BY <1>10, <2>1, <2>2 DEF Type, WaitingInv
<1>11. CASE NoKey
  BY <1>11, RestKept DEF NoKey
<1>12. CASE EditorExits
  <2>1. UNCHANGED <<daemon, seen>> /\ policy' \in {policy, rules} /\ waiting' \in {waiting, <<>>}
    BY <1>12 DEF EditorExits
  <2>2. WaitingInv'
    <3>1. CASE waiting' = waiting
      BY <3>1 DEF WaitingInv
    <3>2. CASE waiting' = <<>>
      BY <3>2 DEF WaitingInv
    <3> QED BY <2>1, <3>1, <3>2
  <2>3. OrderKept
    BY <2>1, <2>2, DaemonKept DEF DaemonInv
  <2> QED BY <1>12, <2>1, <2>2, <2>3 DEF EditorExits, WaitingInv
<1>13. ASSUME NEW place \in {"log", "edit"}, Read(place), UNCHANGED <<daemon, lists>>
       PROVE  OrderKept /\ waiting' \in Seq(Frame) /\ Len(waiting') <= MaxWaiting
  <2>1. WaitingInv'
    BY <1>13, ReadKeeps
  <2>2. DaemonInv' /\ Ascending(seen') /\ Ascending(policy')
    BY <1>13, DaemonKept
  <2> QED BY <2>1, <2>2 DEF WaitingInv
<1>14. CASE Ignored
  BY <1>13, <1>14 DEF Ignored, Read
<1>15. CASE Quit
  <2>1. WaitingInv' /\ DaemonInv'
    BY <1>15, ReadKeeps, DaemonKept DEF Quit
  <2>2. <<>> \in Seq(Entry) /\ <<>> \in Seq(Item) /\ Ascending(<<>>)
    BY DEF Ascending
  <2>3. FirstUi \in [tab: Tab, over: Over, approval: Item, rule: Item]
    BY DEF FirstUi, Tab, Over, Item
  <2> QED BY <1>15, <2>1, <2>2, <2>3 DEF Quit, Read, WaitingInv
<1>16. ASSUME NEW o \in Over, Overlay(o) PROVE TypeOK' /\ ReadsMore' /\ OrderKept
  BY <1>13, <1>16 DEF Overlay, Read
<1>17. ASSUME NEW t \in Tab, SwitchTab(t) PROVE TypeOK' /\ ReadsMore' /\ OrderKept
  BY <1>13, <1>17 DEF SwitchTab, Read
<1>18. ASSUME NEW down \in BOOLEAN, Select(down) PROVE TypeOK' /\ ReadsMore' /\ OrderKept
  <2>1. ASSUME NEW S, NEW list \in Seq(S), NEW i \in Item
        PROVE  Up(i) \in Item /\ Down(list, i) \in Item
    BY <2>1 DEF Up, Down, Item
  <2>2. ui' \in [tab: Tab, over: Over, approval: Item, rule: Item]
    <3>1. CASE ui' = [ui EXCEPT !.approval = IF down THEN Down(seen, @) ELSE Up(@)]
      BY <2>1, <3>1
    <3>2. CASE ui' = [ui EXCEPT !.rule = IF down THEN Down(policy, @) ELSE Up(@)]
      BY <2>1, <3>2
    <3> QED BY <1>18, <3>1, <3>2 DEF Select
  <2> QED BY <1>13, <1>18, <2>2 DEF Select, Read
<1>19. ASSUME NEW kind, NEW i, Sent(kind, i), parked' = parked PROVE DaemonInv'
  <2>1. Handled(kind, i) \/ UNCHANGED <<pending, rules, granted>>
    BY <1>19 DEF Sent
  <2> QED BY <1>19, <2>1, HandledKeeps, DaemonKept
<1>20. ASSUME NEW kind \in {"approve", "deny"}, Decide(kind)
       PROVE  TypeOK' /\ ReadsMore' /\ OrderKept
  <2>1. WaitingInv' /\ DaemonInv'
    BY <1>19, <1>20, ReadKeeps DEF Decide
  <2>2. seen' \in {seen, pending'} /\ UNCHANGED <<parked, up, written, policy, ui, tail>>
    BY <1>20 DEF Decide
  <2>3. act' \in Request
    BY <1>20, ItemTypes DEF Decide, Sent, Request
  <2> QED BY <1>20, <2>1, <2>2, <2>3 DEF Decide, Read, WaitingInv, DaemonInv
<1>21. CASE DeleteRule
  <2>1. WaitingInv' /\ DaemonInv'
    BY <1>19, <1>21, ReadKeeps DEF DeleteRule
  <2>2. policy' \in {policy, rules'} /\ UNCHANGED <<parked, up, written, seen, ui, tail>>
    BY <1>21 DEF DeleteRule
  <2>3. act' \in Request
    BY <1>21 DEF DeleteRule, Sent, Request
  <2> QED BY <1>21, <2>1, <2>2, <2>3 DEF DeleteRule, Read, WaitingInv, DaemonInv
<1>22. CASE Edit
  BY <1>13, <1>22 DEF Edit, Read
<1>23. CASE UNCHANGED vars
  BY <1>23, RestKept DEF vars
<1> QED
  BY <1>1, <1>2, <1>3, <1>4, <1>5, <1>6, <1>7, <1>8, <1>9, <1>10, <1>11, <1>12, <1>14,
     <1>15, <1>16, <1>17, <1>18, <1>20, <1>21, <1>22, <1>23 DEF Next, Loop, Key

LEMMA ScreenAlways == Spec => []ScreenInv
BY TypeInit, ScreenKept, PTL DEF Spec

\* The screen's variables keep their types (tui.rs), however its steps and those of
\* the daemon, the log and other screens interleave.
THEOREM ScreenTypes == Spec => []TypeOK
<1>1. ScreenInv => TypeOK
  BY DEF ScreenInv
<1> QED BY <1>1, ScreenAlways, PTL
-----------------------------------------------------------------------------
(***************************************************************************)
(* What a key does.  The lists of the frame at which it was typed and of   *)
(* the last one are both in order, so that KeptInPlace applies.            *)
(***************************************************************************)
LEMMA KeyActs ==
  ASSUME ScreenInv, NEW tab, NEW pos \in Item, NEW list \in Seq(Item), pos \in DOMAIN list,
         Drawn = [tab |-> tab, over |-> "none", pos |-> pos, list |-> list], Read("log")
  PROVE  LET saw == Head(waiting) IN
         /\ list[pos] = Mark(Drawn)
         /\ Drawn.over = "none"
         /\ Drawn.tab = tab
         /\ /\ Mark(saw) # NoItem
            /\ saw.tab = Drawn.tab
            /\ saw.pos = Drawn.pos
            /\ Kept(saw.list, Drawn.list)
            => list[pos] = Mark(saw)
<1> DEFINE saw == Head(waiting)
<1>1. saw \in Frame /\ Ascending(saw.list)
  BY ReadKeeps DEF ScreenInv
<1>2. Ascending(list)
  <2>1. Ascending(Drawn.list)
    BY DrawnKeeps DEF ScreenInv
  <2> QED BY <2>1
<1>3. list[pos] = Mark(Drawn) /\ Drawn.over = "none" /\ Drawn.tab = tab
  BY DEF Mark
<1> HIDE DEF saw
<1>4. ASSUME Mark(saw) # NoItem, saw.pos = pos, Kept(saw.list, list)
      PROVE  list[pos] = Mark(saw)
  <2>1. saw.list \in Seq(Item)
    BY <1>1 DEF Frame
  <2>2. pos \in DOMAIN saw.list /\ Mark(saw) = saw.list[pos]
    BY <1>4 DEF Mark
  <2> QED BY <1>1, <1>2, <1>4, <2>1, <2>2, KeptInPlace
<1>5. Drawn.pos = pos /\ Drawn.list = list
  OBVIOUS
<1> QED BY <1>3, <1>4, <1>5 DEF saw

LEMMA OnlyDecisionsAct ==
  ASSUME [Next]_vars, act' \notin {NoAct, act}
  PROVE  (\E kind \in {"approve", "deny"} : Decide(kind)) \/ DeleteRule
BY DEF Next, Loop, Key, Park, OtherScreen, DaemonEnds, WriteLog, Type, StatLog, ReadLog,
   PollRules, AskPending, SkipPending, NoKey, EditorExits, Ignored, Quit, Overlay,
   SwitchTab, Select, Edit, screen, vars

\* A key acts on the item that the last frame marks, uncovered, and on the one that
\* the human saw marked when it was typed, unless what was listed then has gone or an
\* older item has come (run in tui.rs), however the lists are refreshed.
THEOREM ActsOnFrameAlways == Spec => ActsOnFrame
<1> DEFINE Right == act' \notin {NoAct, act} =>
       LET saw == Head(waiting) IN
       /\ act'.item = Mark(Drawn)
       /\ Drawn.over = "none"
       /\ Drawn.tab = IF act'.kind = "delete_rule" THEN "policy" ELSE "approvals"
       /\ /\ Mark(saw) # NoItem
          /\ saw.tab = Drawn.tab
          /\ saw.pos = Drawn.pos
          /\ Kept(saw.list, Drawn.list)
          => act'.item = Mark(saw)
<1>1. ScreenInv /\ [Next]_vars => Right
  <2> SUFFICES ASSUME ScreenInv, [Next]_vars, act' \notin {NoAct, act} PROVE Right
    BY Zenon
  <2>1. ui.approval \in Item /\ ui.rule \in Item /\ seen \in Seq(Item) /\ policy \in Seq(Item)
    BY ItemTypes DEF ScreenInv, TypeOK
  <2>2. ASSUME NEW kind \in {"approve", "deny"}, Decide(kind) PROVE Right
    <3>1. /\ Drawn = [tab |-> "approvals", over |-> "none", pos |-> ui.approval, list |-> seen]
          /\ ui.approval \in DOMAIN seen /\ Read("log")
          /\ act' = [kind |-> kind, item |-> seen[ui.approval]]
      BY <2>2 DEF Decide, Sent, Reads, Drawn
    <3>2. act'.item = seen[ui.approval] /\ act'.kind # "delete_rule"
      BY <3>1
    <3> QED BY <2>1, <3>1, <3>2, KeyActs
  <2>3. ASSUME DeleteRule PROVE Right
    <3>1. /\ Drawn = [tab |-> "policy", over |-> "none", pos |-> ui.rule, list |-> policy]
          /\ ui.rule \in DOMAIN policy /\ Read("log")
          /\ act' = [kind |-> "delete_rule", item |-> policy[ui.rule]]
      BY <2>3 DEF DeleteRule, Sent, Reads, Drawn
    <3>2. act'.item = policy[ui.rule] /\ act'.kind = "delete_rule"
      BY <3>1
    <3> QED BY <2>1, <3>1, <3>2, KeyActs
  <2> QED BY <2>2, <2>3, OnlyDecisionsAct
<1>2. ScreenInv /\ [Next]_vars => [Right]_vars
  BY <1>1
<1> QED BY <1>2, ScreenAlways, PTL DEF Spec, ActsOnFrame
-----------------------------------------------------------------------------
(***************************************************************************)
(* The log.  What is shown lies before the offset, and a line in whose     *)
(* middle the offset is was read torn.                                     *)
(***************************************************************************)
TailInv ==
  /\ TailComplete
  /\ \A i \in DOMAIN activity : activity[i] <= Whole(offset)
  /\ \A n \in 1 .. MaxLines : 2 * n - 1 = offset => n \in torn

LEMMA ReadKeepsTail ==
  ASSUME TypeOK, ReadsMore, TailInv, ReadLog
  PROVE  TailInv'
<1> DEFINE old == Begun(offset)
           m   == Whole(written) - Begun(offset)
<1>1. PICK fresh : fresh = [k \in 1 .. m |-> old + k]
  OBVIOUS
<1>2. /\ activity \in Seq(1 .. MaxLines) /\ offset \in Nat /\ written \in Nat
      /\ offset' = written /\ torn' = torn \cup {n \in 1 .. MaxLines : 2 * n - 1 = written}
  BY ScreenAssumption DEF TypeOK, ReadLog
<1>3. fresh \in Seq(1 .. MaxLines) /\ Len(fresh) = m /\ activity' = activity \o fresh
  BY <1>1, LinesRead
<1>4. /\ offset < written
      /\ old \in Nat /\ offset <= 2 * old /\ 2 * old <= offset + 1
      /\ Whole(offset) \in Nat /\ 2 * Whole(offset) <= offset
      /\ Whole(written) \in Nat /\ 2 * Whole(written) <= written
      /\ written <= 2 * Whole(written) + 1
  BY <1>2, Halves DEF ReadLog, ReadsMore, Step
<1> HIDE DEF old
<1>5. m \in Nat /\ m = Whole(written) - old
  BY <1>2, <1>4 DEF old
<1> HIDE DEF m
<1>6. \A i \in DOMAIN activity' :
        \/ i \in DOMAIN activity /\ activity'[i] = activity[i]
        \/ /\ i - Len(activity) \in 1 .. m
           /\ activity'[i] = old + (i - Len(activity))
  BY <1>1, <1>2, <1>3, <1>5
<1>7. \A i \in DOMAIN activity : activity[i] \in Nat /\ activity[i] <= Whole(offset)
  <2>1. \A i \in DOMAIN activity : activity[i] \in 1 .. MaxLines
    <3>1. ASSUME NEW S, activity \in Seq(S)
          PROVE  \A i \in DOMAIN activity : activity[i] \in S
      BY <3>1
    <3> QED BY <1>2, <3>1, Zenon
  <2>2. \A i \in DOMAIN activity : activity[i] <= Whole(offset)
    BY DEF TailInv
  <2> QED BY <2>1, <2>2, ScreenAssumption
<1>8. \A i \in DOMAIN activity' : activity'[i] <= Whole(offset')
  <2> SUFFICES ASSUME NEW i \in DOMAIN activity' PROVE activity'[i] <= Whole(written)
    BY <1>2
  <2>1. CASE i \in DOMAIN activity /\ activity'[i] = activity[i]
    BY <1>2, <1>4, <1>7, <2>1
  <2>2. CASE /\ i - Len(activity) \in 1 .. m
             /\ activity'[i] = old + (i - Len(activity))
    <3>1. PICK k \in 1 .. m : activity'[i] = old + k
      BY <2>2
    <3> QED BY <1>4, <1>5, <3>1
  <2> QED BY <1>6, <2>1, <2>2
<1>9. \A i, j \in DOMAIN activity' : i < j => activity'[i] < activity'[j]
  <2> SUFFICES ASSUME NEW i \in DOMAIN activity', NEW j \in DOMAIN activity', i < j
               PROVE  activity'[i] < activity'[j]
    OBVIOUS
  <2>0. i \in Nat /\ j \in Nat /\ Len(activity) \in Nat /\ DOMAIN activity = 1 .. Len(activity)
    BY <1>2, <1>3
  <2>1. CASE i \in DOMAIN activity /\ j \in DOMAIN activity
    BY <1>6, <2>0, <2>1 DEF TailInv, TailComplete
  <2>2. CASE i \in DOMAIN activity /\ j \notin DOMAIN activity
    <3>1. activity'[i] \in Nat /\ activity'[i] <= Whole(offset)
      BY <1>6, <1>7, <2>0, <2>2
    <3>2. PICK k \in 1 .. m : activity'[j] = old + k
      BY <1>6, <2>2
    <3> QED BY <1>2, <1>4, <1>5, <3>1, <3>2
  <2>3. CASE i \notin DOMAIN activity
    <3>1. j \notin DOMAIN activity
      BY <1>6, <2>0, <2>3
    <3>2. /\ i - Len(activity) \in 1 .. m /\ activity'[i] = old + (i - Len(activity))
          /\ j - Len(activity) \in 1 .. m /\ activity'[j] = old + (j - Len(activity))
      BY <1>6, <2>3, <3>1
    <3>3. i - Len(activity) < j - Len(activity)
      BY <2>0
    <3> QED BY <1>4, <1>5, <2>0, <3>2, <3>3
  <2> QED BY <2>1, <2>2, <2>3
<1>10. ASSUME NEW n \in 1 .. MaxLines, 2 * n <= offset', n \notin torn'
       PROVE  n \in ToSet(activity')
  <2>1. CASE 2 * n <= offset
    <3>1. n \in ToSet(activity)
      BY <1>2, <1>10, <2>1 DEF TailInv, TailComplete
    <3>2. PICK i \in DOMAIN activity : activity[i] = n
      BY <3>1 DEF ToSet
    <3>3. i \in DOMAIN activity' /\ activity'[i] = n
      BY <1>2, <1>3, <3>2
    <3> QED BY <3>3 DEF ToSet
  <2>2. CASE ~(2 * n <= offset)
    <3>1. 2 * n - 1 # offset
      BY <1>2, <1>10 DEF TailInv
    <3>2. n - old \in 1 .. m
      BY <1>2, <1>4, <1>5, <1>10, <2>2, <3>1
    <3>3. /\ Len(activity) + (n - old) \in DOMAIN activity'
          /\ activity'[Len(activity) + (n - old)] = n
      <4>1. n - old \in 1 .. Len(fresh) /\ fresh[n - old] = n
        BY <1>1, <1>3, <1>4, <1>5, <3>2
      <4>2. ASSUME NEW s \in Seq(1 .. MaxLines), NEW t \in Seq(1 .. MaxLines),
                   NEW k \in 1 .. Len(t)
            PROVE  Len(s) + k \in DOMAIN (s \o t) /\ (s \o t)[Len(s) + k] = t[k]
        BY <4>2
      <4> QED BY <1>2, <1>3, <4>1, <4>2
    <3> QED BY <3>3 DEF ToSet
  <2> QED BY <2>1, <2>2
<1>11. \A n \in 1 .. MaxLines : 2 * n - 1 = offset' => n \in torn'
  BY <1>2
<1> QED BY <1>8, <1>9, <1>10, <1>11 DEF TailInv, TailComplete

LEMMA TailKept == TypeOK /\ ReadsMore /\ TailInv /\ [Next]_vars => TailInv'
<1> SUFFICES ASSUME TypeOK, ReadsMore, TailInv, [Next]_vars PROVE TailInv'
  OBVIOUS
<1>1. CASE ReadLog
  BY <1>1, ReadKeepsTail
<1>2. CASE ~ReadLog
  <2>1. UNCHANGED tail
    BY <1>2 DEF Next, Loop, Key, Park, OtherScreen, DaemonEnds, WriteLog, StatLog,
       PollRules, AskPending, SkipPending, Type, NoKey, EditorExits, Ignored, Quit,
       Overlay, SwitchTab, Select, Decide, DeleteRule, Edit, screen, vars
  <2> QED BY <2>1 DEF tail, TailInv, TailComplete
<1> QED BY <1>1, <1>2

\* The activity list is the log, in order and once each, up to the offset, but for
\* lines of which a poll read half (poll_log in tui.rs).
THEOREM TailCompleteAlways == Spec => []TailComplete
<1>1. Init => TailInv
  BY ScreenAssumption DEF Init, TailInv, TailComplete
<1>2. TailInv => TailComplete
  BY DEF TailInv
<1>3. ScreenInv => TypeOK /\ ReadsMore
  BY DEF ScreenInv
<1> QED BY <1>1, <1>2, <1>3, ScreenAlways, TailKept, PTL DEF Spec
=============================================================================
