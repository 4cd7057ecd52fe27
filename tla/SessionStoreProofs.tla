-------------------------- MODULE SessionStoreProofs --------------------------
(***************************************************************************)
(* Proofs about SessionStore, for every set of processes and directories.  *)
(***************************************************************************)
EXTENDS SessionStore, Integers, TLAPS, WellFoundedInduction

(***************************************************************************)
(* The order of last_used.                                                 *)
(***************************************************************************)
\* A bounded set of numbers has a greatest one.
LEMMA MaxOf ==
  ASSUME NEW n \in Nat, NEW I, I \subseteq 1 .. n, I # {}
  PROVE  Max(I) \in I /\ \A i \in I : i <= Max(I)
<1> DEFINE T == {n - i : i \in I}
<1>1. T \subseteq Nat /\ T # {}
  <2>1. \A i \in I : n - i \in Nat
    OBVIOUS
  <2>2. PICK i \in I : TRUE
    OBVIOUS
  <2>3. n - i \in T
    OBVIOUS
  <2> QED BY <2>1, <2>3
<1>2. PICK x \in T : \A y \in T : ~ (<<y, x>> \in OpToRel(<, Nat))
  BY <1>1, WFMin, NatLessThanWellFounded
<1>3. \A y \in T : ~ (y < x)
  BY <1>1, <1>2 DEF OpToRel
<1>4. PICK m \in I : x = n - m
  BY <1>2
<1>5. ASSUME NEW i \in I PROVE m >= i
  <2>1. n - i \in T
    OBVIOUS
  <2>2. ~ (n - i < n - m)
    BY <1>3, <1>4, <2>1
  <2>3. i \in 1 .. n /\ m \in 1 .. n
    BY <1>4
  <2> QED BY <2>2, <2>3
<1>6. \E k \in I : \A i \in I : k >= i
  BY <1>5
<1>7. Max(I) \in I /\ \A i \in I : Max(I) >= i
  BY <1>6, Zenon DEF Max
<1> QED BY <1>7

\* The latest of some sessions is one of them.
LEMMA LatestIsOne ==
  ASSUME NEW order \in Seq(Proc), NEW S, \E i \in DOMAIN order : order[i] \in S
  PROVE  LatestOf(order, S) \in S \cap Proc
<1> DEFINE I == {i \in DOMAIN order : order[i] \in S}
<1>1. I \subseteq 1 .. Len(order) /\ I # {} /\ Len(order) \in Nat
  OBVIOUS
<1>2. Max(I) \in I
  BY <1>1, MaxOf
<1> QED BY <1>2 DEF LatestOf

Distinct(order) == \A i, j \in DOMAIN order : order[i] = order[j] => i = j

\* Taking one that is there out of the order leaves the others.
LEMMA WithoutOne ==
  ASSUME NEW order \in Seq(Proc), Distinct(order), NEW s, \E i \in DOMAIN order : order[i] = s
  PROVE  /\ Without(order, s) \in Seq(Proc) /\ Distinct(Without(order, s))
         /\ \A t \in Proc : (\E i \in DOMAIN Without(order, s) : Without(order, s)[i] = t)
                              <=> t # s /\ \E i \in DOMAIN order : order[i] = t
<1> DEFINE k == CHOOSE i \in DOMAIN order : order[i] = s
           rest == Without(order, s)
<1>1. k \in 1 .. Len(order) /\ order[k] = s
  OBVIOUS
<1>2. rest = SubSeq(order, 1, k - 1) \o SubSeq(order, k + 1, Len(order))
  BY DEF Without, RemoveAt
<1> HIDE DEF k, rest
<1>3. /\ rest \in Seq(Proc) /\ Len(rest) = Len(order) - 1
      /\ \A i \in 1 .. k - 1 : rest[i] = order[i]
      /\ \A i \in k .. Len(order) - 1 : rest[i] = order[i + 1]
  <2> DEFINE a == SubSeq(order, 1, k - 1)
             b == SubSeq(order, k + 1, Len(order))
  <2>1. /\ a \in Seq(Proc) /\ Len(a) = k - 1 /\ \A i \in 1 .. k - 1 : a[i] = order[i]
    BY <1>1
  <2>2. /\ b \in Seq(Proc) /\ Len(b) = Len(order) - k
        /\ \A i \in 1 .. Len(order) - k : b[i] = order[i + k]
    BY <1>1
  <2> HIDE DEF a, b
  <2>3. rest = a \o b
    BY <1>2 DEF a, b
  <2>4. rest \in Seq(Proc) /\ Len(rest) = Len(order) - 1
    <3>0. ASSUME NEW t \in Seq(Proc), NEW u \in Seq(Proc)
          PROVE  t \o u \in Seq(Proc) /\ Len(t \o u) = Len(t) + Len(u)
      OBVIOUS
    <3>1. a \o b \in Seq(Proc) /\ Len(a \o b) = Len(a) + Len(b)
      BY <2>1, <2>2, <3>0, Zenon
    <3>2. Len(a) + Len(b) = Len(order) - 1
      BY <1>1, <2>1, <2>2
    <3> QED BY <2>3, <3>1, <3>2
  <2>5. \A i \in 1 .. k - 1 : rest[i] = order[i]
    BY <1>1, <2>1, <2>2, <2>3
  <2>6. ASSUME NEW i \in k .. Len(order) - 1 PROVE rest[i] = order[i + 1]
    <3>1. rest[i] = b[i - (k - 1)]
      BY <1>1, <2>1, <2>2, <2>3
    <3>2. i - (k - 1) \in 1 .. Len(order) - k /\ (i - (k - 1)) + k = i + 1
      BY <1>1
    <3> QED BY <2>2, <3>1, <3>2
  <2> QED BY <2>4, <2>5, <2>6
<1>4. Distinct(rest)
  <2> SUFFICES ASSUME NEW i \in DOMAIN rest, NEW j \in DOMAIN rest, rest[i] = rest[j]
               PROVE  i = j
    BY DEF Distinct
  <2> DEFINE old(x) == IF x < k THEN x ELSE x + 1
  <2>1. ASSUME NEW x \in DOMAIN rest
        PROVE  old(x) \in DOMAIN order /\ rest[x] = order[old(x)]
    <3>0. x \in 1 .. Len(order) - 1
      BY <1>3
    <3>1. CASE x < k
      <4>1. x \in 1 .. k - 1 /\ x \in DOMAIN order /\ old(x) = x
        BY <1>1, <3>0, <3>1
      <4> QED BY <1>3, <4>1
    <3>2. CASE ~(x < k)
      <4>1. x \in k .. Len(order) - 1 /\ x + 1 \in DOMAIN order /\ old(x) = x + 1
        BY <1>1, <3>0, <3>2
      <4> QED BY <1>3, <4>1
    <3> QED BY <3>1, <3>2
  <2>2. old(i) = old(j)
    BY <2>1 DEF Distinct
  <2> QED BY <1>1, <1>3, <2>2
<1>5. ASSUME NEW t \in Proc, NEW i \in DOMAIN rest, rest[i] = t
      PROVE  t # s /\ \E j \in DOMAIN order : order[j] = t
  <2>1. PICK j \in DOMAIN order : j # k /\ order[j] = t
    <3>1. CASE i < k
      BY <1>1, <1>3, <1>5, <3>1
    <3>2. CASE ~(i < k)
      <4>1. i + 1 \in DOMAIN order /\ i + 1 # k /\ order[i + 1] = t
        BY <1>1, <1>3, <1>5, <3>2
      <4> QED BY <4>1
    <3> QED BY <3>1, <3>2
  <2> QED BY <1>1, <2>1 DEF Distinct
<1>6. ASSUME NEW t \in Proc, t # s, NEW i \in DOMAIN order, order[i] = t
      PROVE  \E j \in DOMAIN rest : rest[j] = t
  <2>1. CASE i < k
    <3>1. i \in DOMAIN rest /\ rest[i] = t
      BY <1>1, <1>3, <1>6, <2>1
    <3> QED BY <3>1
  <2>2. CASE ~(i < k)
    <3>1. i - 1 \in DOMAIN rest /\ rest[i - 1] = t
      BY <1>1, <1>3, <1>6, <2>2
    <3> QED BY <3>1
  <2> QED BY <2>1, <2>2
<1> QED BY <1>3, <1>4, <1>5, <1>6 DEF rest

\* Putting one that is not there at the end.
LEMMA AppendOne ==
  ASSUME NEW order \in Seq(Proc), Distinct(order), NEW s \in Proc,
         ~\E i \in DOMAIN order : order[i] = s
  PROVE  /\ Append(order, s) \in Seq(Proc) /\ Distinct(Append(order, s))
         /\ \A t \in Proc : (\E i \in DOMAIN Append(order, s) : Append(order, s)[i] = t)
                              <=> t = s \/ \E i \in DOMAIN order : order[i] = t
<1>1. /\ Append(order, s) \in Seq(Proc) /\ Len(Append(order, s)) = Len(order) + 1
      /\ Append(order, s)[Len(order) + 1] = s
      /\ \A i \in 1 .. Len(order) : Append(order, s)[i] = order[i]
  OBVIOUS
<1>2. Distinct(Append(order, s))
  BY <1>1 DEF Distinct
<1>3. ASSUME NEW t \in Proc
      PROVE  (\E i \in DOMAIN Append(order, s) : Append(order, s)[i] = t)
               <=> t = s \/ \E i \in DOMAIN order : order[i] = t
  BY <1>1
<1> QED BY <1>1, <1>2, <1>3
-----------------------------------------------------------------------------
(***************************************************************************)
(* Type correctness: the order holds each session that has a row, once.    *)
(***************************************************************************)
Ordered ==
  /\ recent \in Seq(Proc) /\ Distinct(recent)
  /\ \A s \in Proc : status[s] # "none" <=> \E i \in DOMAIN recent : recent[i] = s

\* A session has a row only after its process registered it, and what a process
\* is about to load was such a session.
Registered ==
  \A p \in Proc :
    /\ pc[p] \in {"unborn", "recover", "claim", "read", "load", "create"} => status[p] = "none"
    /\ pc[p] = "load" => from[p] \in Proc

TypeInv == TypeOK /\ Registered

LEMMA TypesAre ==
  TypeOK <=>
    /\ Ordered
    /\ status \in [Proc -> Status]
    /\ table \in [Proc -> SUBSET Rule]
    /\ pc \in [Proc -> Place]
    /\ cwd \in [Proc -> Workdir \cup {NoDir}]
    /\ todo \in [Proc -> SUBSET Proc]
    /\ from \in [Proc -> Proc \cup {NoProc}]
    /\ mem \in [Proc -> SUBSET Rule]
    /\ snap \in [Proc -> SUBSET Rule]
    /\ claimed \in [Proc -> Proc \cup {NoProc}]
    /\ heirs \in [Proc -> SUBSET Proc]
BY DEF TypeOK, Ordered, Distinct

\* An UPDATE moves its session to the end.
LEMMA TouchKeeps ==
  ASSUME TypeOK, NEW s \in Proc, NEW st \in Status \ {"none"}, Touch(s, st)
  PROVE  /\ Ordered' /\ status' \in [Proc -> Status]
         /\ \A p \in Proc : status[p] = "none" <=> status'[p] = "none"
<1>0. Ordered /\ status \in [Proc -> Status]
  BY TypesAre
<1>1. CASE ~Exists(s)
  BY <1>0, <1>1 DEF Touch, Ordered
<1>2. CASE Exists(s)
  <2>1. /\ status' = [status EXCEPT ![s] = st]
        /\ recent' = Append(Without(recent, s), s)
    BY <1>2 DEF Touch, MovedLast
  <2>2. \E i \in DOMAIN recent : recent[i] = s
    BY <1>0, <1>2 DEF Exists, Ordered
  <2>3. /\ Without(recent, s) \in Seq(Proc) /\ Distinct(Without(recent, s))
        /\ \A t \in Proc : (\E i \in DOMAIN Without(recent, s) : Without(recent, s)[i] = t)
                              <=> t # s /\ \E i \in DOMAIN recent : recent[i] = t
    <3>1. recent \in Seq(Proc) /\ Distinct(recent)
      BY <1>0 DEF Ordered
    <3> QED BY <2>2, <3>1, WithoutOne
  <2>4. /\ recent' \in Seq(Proc) /\ Distinct(recent')
        /\ \A t \in Proc : (\E i \in DOMAIN recent' : recent'[i] = t)
                              <=> t = s \/ \E i \in DOMAIN recent : recent[i] = t
    <3>1. ~\E i \in DOMAIN Without(recent, s) : Without(recent, s)[i] = s
      BY <2>3
    <3>2. /\ Append(Without(recent, s), s) \in Seq(Proc)
          /\ Distinct(Append(Without(recent, s), s))
          /\ \A t \in Proc :
               (\E i \in DOMAIN Append(Without(recent, s), s) :
                    Append(Without(recent, s), s)[i] = t)
                 <=> t = s \/ \E i \in DOMAIN Without(recent, s) : Without(recent, s)[i] = t
      BY <2>3, <3>1, AppendOne
    <3> QED BY <2>1, <2>3, <3>2, Zenon
  <2>5. \A t \in Proc : status'[t] # "none" <=> status[t] # "none"
    BY <1>0, <1>2, <2>1 DEF Exists
  <2>6. status' \in [Proc -> Status]
    BY <1>0, <2>1
  <2>7. \A t \in Proc : status'[t] # "none" <=> \E i \in DOMAIN recent' : recent'[i] = t
    BY <1>0, <2>2, <2>4, <2>5, Zenon DEF Ordered
  <2> QED BY <2>4, <2>5, <2>6, <2>7 DEF Ordered
<1> QED BY <1>1, <1>2

\* A row is added where there is none, and deleted where there is one.
LEMMA CreateKeeps ==
  ASSUME TypeInv, NEW p \in Proc, Create(p)
  PROVE  Ordered' /\ status' \in [Proc -> Status]
<1>0. Ordered /\ status \in [Proc -> Status] /\ status[p] = "none"
  BY TypesAre DEF TypeInv, Registered, Create, At
<1>1. status' = [status EXCEPT ![p] = "running"] /\ recent' = Append(recent, p)
  BY DEF Create
<1>2. /\ recent' \in Seq(Proc) /\ Distinct(recent')
      /\ \A t \in Proc : (\E i \in DOMAIN recent' : recent'[i] = t)
                            <=> t = p \/ \E i \in DOMAIN recent : recent[i] = t
  <2>1. ~\E i \in DOMAIN recent : recent[i] = p
    BY <1>0 DEF Ordered
  <2>2. /\ Append(recent, p) \in Seq(Proc) /\ Distinct(Append(recent, p))
        /\ \A t \in Proc : (\E i \in DOMAIN Append(recent, p) : Append(recent, p)[i] = t)
                              <=> t = p \/ \E i \in DOMAIN recent : recent[i] = t
    BY <1>0, <2>1, AppendOne DEF Ordered
  <2> QED BY <1>1, <2>2, Zenon
<1>3. \A t \in Proc : status'[t] # "none" <=> t = p \/ status[t] # "none"
  BY <1>0, <1>1
<1>4. \A t \in Proc : status'[t] # "none" <=> \E i \in DOMAIN recent' : recent'[i] = t
  BY <1>0, <1>2, <1>3, Zenon DEF Ordered
<1>5. status' \in [Proc -> Status]
  BY <1>0, <1>1 DEF Status
<1> QED BY <1>2, <1>4, <1>5 DEF Ordered

LEMMA DeleteKeeps ==
  ASSUME TypeOK, NEW s \in Proc, HubDelete(s)
  PROVE  Ordered' /\ status' \in [Proc -> Status]
<1>0. Ordered /\ status \in [Proc -> Status]
  BY TypesAre
<1>1. status' = [status EXCEPT ![s] = "none"] /\ recent' = Without(recent, s)
  BY DEF HubDelete
<1>2. \E i \in DOMAIN recent : recent[i] = s
  BY <1>0 DEF HubDelete, Exists, Ordered
<1>3. /\ recent' \in Seq(Proc) /\ Distinct(recent')
      /\ \A t \in Proc : (\E i \in DOMAIN recent' : recent'[i] = t)
                            <=> t # s /\ \E i \in DOMAIN recent : recent[i] = t
  <2>1. /\ Without(recent, s) \in Seq(Proc) /\ Distinct(Without(recent, s))
        /\ \A t \in Proc : (\E i \in DOMAIN Without(recent, s) : Without(recent, s)[i] = t)
                              <=> t # s /\ \E i \in DOMAIN recent : recent[i] = t
    <3>1. recent \in Seq(Proc) /\ Distinct(recent)
      BY <1>0 DEF Ordered
    <3> QED BY <1>2, <3>1, WithoutOne
  <2> QED BY <1>1, <2>1, Zenon
<1>4. \A t \in Proc : status'[t] # "none" <=> t # s /\ status[t] # "none"
  BY <1>0, <1>1
<1>5. \A t \in Proc : status'[t] # "none" <=> \E i \in DOMAIN recent' : recent'[i] = t
  BY <1>0, <1>3, <1>4, Zenon DEF Ordered
<1>6. status' \in [Proc -> Status]
  BY <1>0, <1>1 DEF Status
<1> QED BY <1>3, <1>5, <1>6 DEF Ordered

LEMMA TypeInvInit == Init => TypeInv
<1>1. Init => Ordered
  BY DEF Init, Ordered, Distinct
<1> QED BY <1>1, TypesAre DEF Init, TypeInv, Registered, Status, Place

LEMMA TypeInvKept == TypeInv /\ [Next]_vars => TypeInv'
<1> SUFFICES ASSUME TypeInv, [Next]_vars PROVE TypeInv'
  OBVIOUS
<1>0. TypeOK
  BY DEF TypeInv
<1> DEFINE Rest ==
             /\ table \in [Proc -> SUBSET Rule]
             /\ pc \in [Proc -> Place]
             /\ cwd \in [Proc -> Workdir \cup {NoDir}]
             /\ todo \in [Proc -> SUBSET Proc]
             /\ from \in [Proc -> Proc \cup {NoProc}]
             /\ mem \in [Proc -> SUBSET Rule]
             /\ snap \in [Proc -> SUBSET Rule]
             /\ claimed \in [Proc -> Proc \cup {NoProc}]
             /\ heirs \in [Proc -> SUBSET Proc]
<1>a. Rest /\ Ordered /\ status \in [Proc -> Status] /\ Registered
  BY <1>0, TypesAre DEF TypeInv
<1>b. ASSUME Rest', Ordered', status' \in [Proc -> Status], Registered' PROVE TypeInv'
  <2>1. TypeOK'
    BY <1>b DEF TypeOK, Ordered, Distinct
  <2> QED BY <1>b, <2>1 DEF TypeInv
<1>c. ASSUME UNCHANGED <<status, recent>> PROVE Ordered' /\ status' \in [Proc -> Status]
  BY <1>a, <1>c DEF Ordered
<1> USE DEF GoTo, At, Place, db, local, ghost
<1>1. ASSUME NEW p \in Proc, NEW dir \in Workdir, Start(p, dir) PROVE TypeInv'
  <2>1. Rest' /\ Registered' /\ UNCHANGED <<status, recent>>
    BY <1>a, <1>1 DEF Start, Registered
  <2> QED BY <1>b, <1>c, <2>1
<1>2. ASSUME NEW p \in Proc, NEW s \in Proc, Recover(p, s) PROVE TypeInv'
  <2>1. Rest' /\ pc' = pc /\ from' = from
    BY <1>a, <1>2 DEF Recover
  <2>2. Touch(s, "crashed") \/ UNCHANGED <<status, recent>>
    BY <1>2 DEF Recover
  <2>3. /\ Ordered' /\ status' \in [Proc -> Status]
        /\ \A q \in Proc : status[q] = "none" <=> status'[q] = "none"
    <3>1. CASE Touch(s, "crashed")
      BY <1>0, <3>1, TouchKeeps DEF Status
    <3>2. CASE UNCHANGED <<status, recent>>
      BY <1>c, <3>2
    <3> QED BY <2>2, <3>1, <3>2
  <2>4. Registered'
    BY <1>a, <2>1, <2>3 DEF Registered
  <2> QED BY <1>b, <2>1, <2>3, <2>4
<1>3. ASSUME NEW p \in Proc, NEW resume \in BOOLEAN, Recovered(p, resume) PROVE TypeInv'
  <2>1. Rest' /\ Registered' /\ UNCHANGED <<status, recent>>
    BY <1>a, <1>3 DEF Recovered, Registered
  <2> QED BY <1>b, <1>c, <2>1
<1>4. ASSUME NEW p \in Proc, Claim(p) PROVE TypeInv'
  <2>1. CASE Resumable(p) = {}
    <3>1. Rest' /\ Registered' /\ UNCHANGED <<status, recent>>
      BY <1>a, <1>4, <2>1 DEF Claim, Registered
    <3> QED BY <1>b, <1>c, <3>1
  <2>2. CASE Resumable(p) # {}
    <3> DEFINE s == LatestOf(recent, Resumable(p))
    <3>1. s \in Resumable(p) \cap Proc
      BY <1>a, <2>2, LatestIsOne DEF Resumable, InDir, Ordered
    <3> HIDE DEF s
    <3>2. /\ Touch(s, "running") /\ claimed' = [claimed EXCEPT ![p] = s]
          /\ pc' = [pc EXCEPT ![p] = "read"] /\ pc[p] = "claim"
          /\ UNCHANGED <<table, heirs, local>>
      BY <1>4, <2>2 DEF Claim, s
    <3>3. /\ Ordered' /\ status' \in [Proc -> Status]
          /\ \A q \in Proc : status[q] = "none" <=> status'[q] = "none"
      BY <1>0, <3>1, <3>2, TouchKeeps DEF Status
    <3>4. Rest'
      BY <1>a, <3>1, <3>2
    <3>5. Registered'
      BY <1>a, <3>2, <3>3 DEF Registered
    <3> QED BY <1>b, <3>3, <3>4, <3>5
  <2> QED BY <2>1, <2>2
<1>5. ASSUME NEW p \in Proc, ReadClaimed(p) PROVE TypeInv'
  <2> DEFINE running == {s \in InDir(p) : status[s] = "running"}
             s == LatestOf(recent, running)
  <2>1. running # {} => s \in Proc
    BY <1>a, LatestIsOne DEF InDir, Ordered
  <2> HIDE DEF s
  <2>2. /\ \/ from' = from /\ pc' = [pc EXCEPT ![p] = "create"]
           \/ /\ running # {}
              /\ from' = [from EXCEPT ![p] = s]
              /\ pc' = [pc EXCEPT ![p] = "load"]
        /\ pc[p] = "read"
        /\ UNCHANGED <<db, cwd, todo, mem, snap, ghost>>
    BY <1>5 DEF ReadClaimed, s
  <2>3. Rest' /\ Registered' /\ UNCHANGED <<status, recent>>
    BY <1>a, <2>1, <2>2 DEF Registered
  <2> QED BY <1>b, <1>c, <2>3
<1>6. ASSUME NEW p \in Proc, LoadRules(p) PROVE TypeInv'
  <2>0. from[p] \in Proc
    BY <1>a, <1>6 DEF LoadRules, Registered
  <2>1. Rest' /\ Registered' /\ UNCHANGED <<status, recent>>
    BY <1>a, <1>6, <2>0 DEF LoadRules, Loaded, Registered
  <2> QED BY <1>b, <1>c, <2>1
<1>7. ASSUME NEW p \in Proc, Create(p) PROVE TypeInv'
  <2>1. Ordered' /\ status' \in [Proc -> Status]
    BY <1>7, CreateKeeps
  <2>2. Rest'
    <3>1. {[id |-> TemplateId, by |-> p]} \subseteq Rule
      BY DEF Rule
    <3> QED BY <1>a, <1>7, <3>1 DEF Create
  <2>3. Registered'
    BY <1>a, <1>7 DEF Create, Registered
  <2> QED BY <1>b, <2>1, <2>2, <2>3
<1>8. ASSUME NEW p \in Proc, Approve(p) PROVE TypeInv'
  <2>0. {[id |-> p, by |-> p]} \subseteq Rule
    BY DEF Rule
  <2>1. Rest' /\ Registered' /\ UNCHANGED <<status, recent>>
    BY <1>a, <1>8, <2>0 DEF Approve, Registered
  <2> QED BY <1>b, <1>c, <2>1
<1>9. ASSUME NEW p \in Proc, NEW r \in Rule, DeleteRule(p, r) PROVE TypeInv'
  <2>1. Rest' /\ Registered' /\ UNCHANGED <<status, recent>>
    BY <1>a, <1>9 DEF DeleteRule, Registered
  <2> QED BY <1>b, <1>c, <2>1
<1>10. ASSUME NEW p \in Proc, Snapshot(p) PROVE TypeInv'
  <2>1. Rest' /\ Registered' /\ UNCHANGED <<status, recent>>
    BY <1>a, <1>10 DEF Snapshot, Registered
  <2> QED BY <1>b, <1>c, <2>1
<1>11. ASSUME NEW p \in Proc, Persist(p) PROVE TypeInv'
  <2>1. Rest' /\ Registered' /\ UNCHANGED <<status, recent>>
    BY <1>a, <1>11 DEF Persist, Persisted, Registered
  <2> QED BY <1>b, <1>c, <2>1
<1>12. ASSUME NEW p \in Proc, End(p) PROVE TypeInv'
  <2>1. /\ Ordered' /\ status' \in [Proc -> Status]
        /\ \A q \in Proc : status[q] = "none" <=> status'[q] = "none"
    BY <1>0, <1>12, TouchKeeps DEF End, Status
  <2>2. Rest'
    BY <1>a, <1>12 DEF End
  <2>3. Registered'
    BY <1>a, <1>12, <2>1 DEF End, Registered
  <2> QED BY <1>b, <2>1, <2>2, <2>3
<1>13. ASSUME NEW p \in Proc, Crash(p) PROVE TypeInv'
  <2>1. Rest' /\ Registered' /\ UNCHANGED <<status, recent>>
    BY <1>a, <1>13 DEF Crash, Registered
  <2> QED BY <1>b, <1>c, <2>1
<1>14. ASSUME NEW s \in Proc, HubDelete(s) PROVE TypeInv'
  <2>1. Ordered' /\ status' \in [Proc -> Status]
    BY <1>0, <1>14, DeleteKeeps
  <2>2. Rest'
    BY <1>a, <1>14 DEF HubDelete
  <2>3. Registered'
    BY <1>a, <1>14 DEF HubDelete, Registered
  <2> QED BY <1>b, <2>1, <2>2, <2>3
<1>15. CASE UNCHANGED vars
  <2>1. Rest' /\ Registered' /\ UNCHANGED <<status, recent>>
    BY <1>a, <1>15 DEF vars, Registered
  <2> QED BY <1>b, <1>c, <2>1
<1> QED
  BY <1>1, <1>2, <1>3, <1>4, <1>5, <1>6, <1>7, <1>8, <1>9, <1>10, <1>11, <1>12, <1>13,
     <1>14,
     <1>15 DEF Next

(***************************************************************************)
(* The database and the processes keep their types; in particular the      *)
(* order of last_used holds each session that has a row exactly once       *)
(* (db.rs), whoever touches, claims or deletes it.                         *)
(***************************************************************************)
THEOREM StoreTypes == Spec => []TypeOK
<1>1. Spec => []TypeInv
  BY TypeInvInit, TypeInvKept, PTL DEF Spec
<1>2. TypeInv => TypeOK
  BY DEF TypeInv
<1> QED BY <1>1, <1>2, PTL

\* Who has started stays started.
LEMMA StartedStays ==
  ASSUME TypeInv, [Next]_vars, NEW q \in Proc, pc[q] # "unborn"
  PROVE  pc'[q] # "unborn"
<1>1. pc \in [Proc -> Place]
  BY DEF TypeInv, TypeOK
<1> QED BY <1>1 DEF Next, vars, Start, Recover, Recovered, Claim, ReadClaimed, LoadRules, Create,
    Approve, DeleteRule, Snapshot, Persist, End, Crash, HubDelete, GoTo, At

\* A process that serves or shuts down is not taken for dead by those that may
\* signal it, nor is its session resumed.
LEMMA RunningKept == TypeInv /\ LiveIsRunning /\ [Next]_vars => LiveIsRunning'
<1> SUFFICES ASSUME TypeInv, LiveIsRunning, [Next]_vars, NEW o \in Proc,
                    pc'[o] \in {"serve", "persist", "end"}, Exists(o)',
                    ~\E q \in Proc : ~MaySignal(q, o) /\ pc'[q] # "unborn"
             PROVE  status'[o] = "running"
  BY DEF LiveIsRunning
<1>o. \A q \in Proc : pc[q] # "unborn" => MaySignal(q, o)
  BY StartedStays
<1>l. pc[o] \in {"serve", "persist", "end"} /\ Exists(o) => status[o] = "running"
  BY <1>o DEF LiveIsRunning
<1>t. /\ status \in [Proc -> Status] /\ table \in [Proc -> SUBSET Rule]
      /\ pc \in [Proc -> Place]
      /\ cwd \in [Proc -> Workdir \cup {NoDir}] /\ from \in [Proc -> Proc \cup {NoProc}]
      /\ mem \in [Proc -> SUBSET Rule] /\ snap \in [Proc -> SUBSET Rule]
      /\ heirs \in [Proc -> SUBSET Proc]
  BY DEF TypeInv, TypeOK
<1> USE DEF GoTo, At, db, local, ghost
<1>1. ASSUME NEW p \in Proc, NEW dir \in Workdir, Start(p, dir) PROVE status'[o] = "running"
  BY <1>t, <1>l, <1>1 DEF Start, Exists
<1>2. ASSUME NEW p \in Proc, NEW s \in Proc, Recover(p, s) PROVE status'[o] = "running"
  <2>1. CASE UNCHANGED <<status, recent>>
    BY <1>l, <1>2, <2>1 DEF Recover, Exists
  <2>2. CASE SeemsDead(p, s) /\ Touch(s, "crashed")
    <3>1. pc' = pc /\ pc[p] # "unborn"
      BY <1>2 DEF Recover
    <3>4. s # o
      BY <1>o, <1>2, <2>2, <3>1 DEF SeemsDead, Alive
    <3>2. \A q \in Proc \ {s} : status'[q] = status[q]
      BY <1>t, <1>l, <2>2 DEF Touch
    <3> QED BY <1>l, <3>1, <3>2, <3>4 DEF Exists
  <2> QED BY <1>2, <2>1, <2>2 DEF Recover
<1>3. ASSUME NEW p \in Proc, NEW resume \in BOOLEAN, Recovered(p, resume) PROVE status'[o] = "running"
  BY <1>t, <1>l, <1>3 DEF Recovered, Exists
<1>4. ASSUME NEW p \in Proc, Claim(p) PROVE status'[o] = "running"
  <2>1. CASE Resumable(p) = {}
    BY <1>t, <1>l, <1>4, <2>1 DEF Claim, Exists
  <2>2. CASE Resumable(p) # {}
    <3> DEFINE s == LatestOf(recent, Resumable(p))
    <3>1. s \in Resumable(p) \cap Proc
      BY <2>2, LatestIsOne DEF TypeInv, TypeOK, Resumable, InDir
    <3> HIDE DEF s
    <3>2. Touch(s, "running") /\ pc' = [pc EXCEPT ![p] = "read"]
      BY <1>4, <2>2 DEF Claim, s
    <3>3. \A q \in Proc : status'[q] = status[q] \/ status'[q] = "running"
      BY <1>t, <1>l, <3>2 DEF Touch
    <3>4. \A q \in Proc : status[q] = "none" => status'[q] = "none"
      BY <1>t, <1>l, <3>2 DEF Touch, Exists
    <3> QED BY <1>t, <1>l, <3>2, <3>3, <3>4 DEF Exists
  <2> QED BY <2>1, <2>2
<1>5. ASSUME NEW p \in Proc, ReadClaimed(p) PROVE status'[o] = "running"
  BY <1>t, <1>l, <1>5 DEF ReadClaimed, Exists
<1>6. ASSUME NEW p \in Proc, LoadRules(p) PROVE status'[o] = "running"
  BY <1>t, <1>l, <1>6 DEF LoadRules, Exists
<1>7. ASSUME NEW p \in Proc, Create(p) PROVE status'[o] = "running"
  BY <1>t, <1>l, <1>7 DEF Create, Exists
<1>8. ASSUME NEW p \in Proc, Approve(p) PROVE status'[o] = "running"
  BY <1>t, <1>l, <1>8 DEF Approve, Exists
<1>9. ASSUME NEW p \in Proc, NEW r \in Rule, DeleteRule(p, r) PROVE status'[o] = "running"
  BY <1>t, <1>l, <1>9 DEF DeleteRule, Exists
<1>10. ASSUME NEW p \in Proc, Snapshot(p) PROVE status'[o] = "running"
  BY <1>t, <1>l, <1>10 DEF Snapshot, Exists
<1>11. ASSUME NEW p \in Proc, Persist(p) PROVE status'[o] = "running"
  BY <1>t, <1>l, <1>11 DEF Persist, Exists
<1>12. ASSUME NEW p \in Proc, End(p) PROVE status'[o] = "running"
  <2>1. pc' = [pc EXCEPT ![p] = "gone"] /\ \A q \in Proc \ {p} : status'[q] = status[q]
    BY <1>t, <1>l, <1>12 DEF End, Touch
  <2> QED BY <1>t, <1>l, <2>1 DEF Exists
<1>13. ASSUME NEW p \in Proc, Crash(p) PROVE status'[o] = "running"
  BY <1>t, <1>l, <1>13 DEF Crash, Exists
<1>14. ASSUME NEW s \in Proc, HubDelete(s) PROVE status'[o] = "running"
  BY <1>t, <1>l, <1>14 DEF HubDelete, Exists
<1>15. CASE UNCHANGED vars
  BY <1>l, <1>15 DEF vars, Exists
<1> QED
  BY <1>1, <1>2, <1>3, <1>4, <1>5, <1>6, <1>7, <1>8, <1>9, <1>10, <1>11, <1>12, <1>13,
     <1>14, <1>15 DEF Next

(***************************************************************************)
(* Where a session's rules are before it has any: nothing is held before   *)
(* it is loaded, copied before the end, or written before that.  A process *)
(* that has not been born has no directory.                                *)
(***************************************************************************)
Fresh ==
  \A p \in Proc :
    /\ pc[p] \in {"unborn", "recover", "claim", "read", "load"} => mem[p] = {}
    /\ pc[p] \in {"unborn", "recover", "claim", "read", "load", "create", "serve"}
         => snap[p] = {}
    /\ pc[p] \in {"unborn", "recover", "claim", "read", "load", "create", "serve", "persist"}
         => table[p] = {}
    /\ pc[p] = "unborn" <=> cwd[p] = NoDir

\* Each step keeps it so.
LEMMA FreshKept == TypeInv /\ Fresh /\ [Next]_vars => Fresh'
<1> SUFFICES ASSUME TypeInv /\ Fresh, [Next]_vars PROVE Fresh'
  OBVIOUS
<1>t. /\ status \in [Proc -> Status] /\ table \in [Proc -> SUBSET Rule]
      /\ pc \in [Proc -> Place]
      /\ cwd \in [Proc -> Workdir \cup {NoDir}] /\ from \in [Proc -> Proc \cup {NoProc}]
      /\ mem \in [Proc -> SUBSET Rule] /\ snap \in [Proc -> SUBSET Rule]
      /\ heirs \in [Proc -> SUBSET Proc]
  BY DEF TypeInv, TypeOK
<1> USE DEF GoTo, At, db, local, ghost
<1>1. ASSUME NEW p \in Proc, NEW dir \in Workdir, Start(p, dir) PROVE Fresh'
  BY <1>t, <1>1, StoreAssumption DEF Start, Fresh
<1>2. ASSUME NEW p \in Proc, NEW s \in Proc, Recover(p, s) PROVE Fresh'
  BY <1>t, <1>2 DEF Recover, Fresh
<1>3. ASSUME NEW p \in Proc, NEW resume \in BOOLEAN, Recovered(p, resume) PROVE Fresh'
  BY <1>t, <1>3 DEF Recovered, Fresh
<1>4. ASSUME NEW p \in Proc, Claim(p) PROVE Fresh'
  BY <1>t, <1>4 DEF Claim, Fresh
<1>5. ASSUME NEW p \in Proc, ReadClaimed(p) PROVE Fresh'
  BY <1>t, <1>5 DEF ReadClaimed, Fresh
<1>6. ASSUME NEW p \in Proc, LoadRules(p) PROVE Fresh'
  BY <1>t, <1>6 DEF LoadRules, Fresh
<1>7. ASSUME NEW p \in Proc, Create(p) PROVE Fresh'
  BY <1>t, <1>7 DEF Create, Fresh
<1>8. ASSUME NEW p \in Proc, Approve(p) PROVE Fresh'
  BY <1>t, <1>8 DEF Approve, Fresh
<1>9. ASSUME NEW p \in Proc, NEW r \in Rule, DeleteRule(p, r) PROVE Fresh'
  BY <1>t, <1>9 DEF DeleteRule, Fresh
<1>10. ASSUME NEW p \in Proc, Snapshot(p) PROVE Fresh'
  BY <1>t, <1>10 DEF Snapshot, Fresh
<1>11. ASSUME NEW p \in Proc, Persist(p) PROVE Fresh'
  BY <1>t, <1>11 DEF Persist, Fresh
<1>12. ASSUME NEW p \in Proc, End(p) PROVE Fresh'
  BY <1>t, <1>12 DEF End, Fresh
<1>13. ASSUME NEW p \in Proc, Crash(p) PROVE Fresh'
  BY <1>t, <1>13 DEF Crash, Alive, Fresh
<1>14. ASSUME NEW s \in Proc, HubDelete(s) PROVE Fresh'
  BY <1>t, <1>14 DEF HubDelete, Fresh
<1>15. CASE UNCHANGED vars
  BY <1>15 DEF vars, Fresh
<1> QED
  BY <1>1, <1>2, <1>3, <1>4, <1>5, <1>6, <1>7, <1>8, <1>9, <1>10, <1>11, <1>12, <1>13,
     <1>14, <1>15 DEF Next

\* What a process is about to load was written in its directory.
Here == \A p \in Proc : pc[p] = "load" => cwd[from[p]] = cwd[p]

\* Each step keeps it so: the SELECT asks for the directory.
LEMMA HereKept == TypeInv /\ Fresh /\ Here /\ [Next]_vars => Here'
<1> SUFFICES ASSUME TypeInv /\ Fresh /\ Here, [Next]_vars PROVE Here'
  OBVIOUS
<1>t. /\ status \in [Proc -> Status] /\ table \in [Proc -> SUBSET Rule]
      /\ pc \in [Proc -> Place]
      /\ cwd \in [Proc -> Workdir \cup {NoDir}] /\ from \in [Proc -> Proc \cup {NoProc}]
      /\ mem \in [Proc -> SUBSET Rule] /\ snap \in [Proc -> SUBSET Rule]
      /\ heirs \in [Proc -> SUBSET Proc]
  BY DEF TypeInv, TypeOK
<1> USE DEF GoTo, At, db, local, ghost
<1>1. ASSUME NEW p \in Proc, NEW dir \in Workdir, Start(p, dir) PROVE Here'
  BY <1>t, <1>1 DEF Start, Fresh, Here, TypeInv, Registered
<1>2. ASSUME NEW p \in Proc, NEW s \in Proc, Recover(p, s) PROVE Here'
  BY <1>t, <1>2 DEF Recover, Here
<1>3. ASSUME NEW p \in Proc, NEW resume \in BOOLEAN, Recovered(p, resume) PROVE Here'
  BY <1>t, <1>3 DEF Recovered, Here
<1>4. ASSUME NEW p \in Proc, Claim(p) PROVE Here'
  BY <1>t, <1>4 DEF Claim, Here
<1>5. ASSUME NEW p \in Proc, ReadClaimed(p) PROVE Here'
  <2> DEFINE running == {s \in InDir(p) : status[s] = "running"}
             s == LatestOf(recent, running)
  <2>1. running # {} => s \in running
    BY <1>t, LatestIsOne DEF TypeInv, TypeOK, InDir
  <2>2. s \in running => cwd[s] = cwd[p]
    BY DEF InDir
  <2> HIDE DEF s, running
  <2>3. /\ \/ from' = from /\ pc' = [pc EXCEPT ![p] = "create"]
           \/ /\ running # {}
              /\ from' = [from EXCEPT ![p] = s]
              /\ pc' = [pc EXCEPT ![p] = "load"]
        /\ cwd' = cwd
    BY <1>5 DEF ReadClaimed, s, running
  <2> QED BY <1>t, <2>1, <2>2, <2>3 DEF Here
<1>6. ASSUME NEW p \in Proc, LoadRules(p) PROVE Here'
  BY <1>t, <1>6 DEF LoadRules, Here
<1>7. ASSUME NEW p \in Proc, Create(p) PROVE Here'
  BY <1>t, <1>7 DEF Create, Here
<1>8. ASSUME NEW p \in Proc, Approve(p) PROVE Here'
  BY <1>t, <1>8 DEF Approve, Here
<1>9. ASSUME NEW p \in Proc, NEW r \in Rule, DeleteRule(p, r) PROVE Here'
  BY <1>t, <1>9 DEF DeleteRule, Here
<1>10. ASSUME NEW p \in Proc, Snapshot(p) PROVE Here'
  BY <1>t, <1>10 DEF Snapshot, Here
<1>11. ASSUME NEW p \in Proc, Persist(p) PROVE Here'
  BY <1>t, <1>11 DEF Persist, Here
<1>12. ASSUME NEW p \in Proc, End(p) PROVE Here'
  BY <1>t, <1>12 DEF End, Here
<1>13. ASSUME NEW p \in Proc, Crash(p) PROVE Here'
  BY <1>t, <1>13 DEF Crash, Here
<1>14. ASSUME NEW s \in Proc, HubDelete(s) PROVE Here'
  BY <1>t, <1>14 DEF HubDelete, Here
<1>15. CASE UNCHANGED vars
  BY <1>15 DEF vars, Here
<1> QED
  BY <1>1, <1>2, <1>3, <1>4, <1>5, <1>6, <1>7, <1>8, <1>9, <1>10, <1>11, <1>12, <1>13,
     <1>14, <1>15 DEF Next

\* A rule is its own session's or was loaded with the sessions that had it.
LEMMA InheritedKept == TypeInv /\ Fresh /\ OnlyInherited /\ [Next]_vars => OnlyInherited'
<1> SUFFICES ASSUME TypeInv /\ Fresh /\ OnlyInherited, [Next]_vars PROVE OnlyInherited'
  OBVIOUS
<1>t. /\ status \in [Proc -> Status] /\ table \in [Proc -> SUBSET Rule]
      /\ pc \in [Proc -> Place]
      /\ cwd \in [Proc -> Workdir \cup {NoDir}] /\ from \in [Proc -> Proc \cup {NoProc}]
      /\ mem \in [Proc -> SUBSET Rule] /\ snap \in [Proc -> SUBSET Rule]
      /\ heirs \in [Proc -> SUBSET Proc]
  BY DEF TypeInv, TypeOK
<1> USE DEF GoTo, At, db, local, ghost
<1>1. ASSUME NEW p \in Proc, NEW dir \in Workdir, Start(p, dir) PROVE OnlyInherited'
  BY <1>t, <1>1 DEF Start, OnlyInherited
<1>2. ASSUME NEW p \in Proc, NEW s \in Proc, Recover(p, s) PROVE OnlyInherited'
  BY <1>t, <1>2 DEF Recover, OnlyInherited
<1>3. ASSUME NEW p \in Proc, NEW resume \in BOOLEAN, Recovered(p, resume) PROVE OnlyInherited'
  BY <1>t, <1>3 DEF Recovered, OnlyInherited
<1>4. ASSUME NEW p \in Proc, Claim(p) PROVE OnlyInherited'
  BY <1>t, <1>4 DEF Claim, OnlyInherited
<1>5. ASSUME NEW p \in Proc, ReadClaimed(p) PROVE OnlyInherited'
  BY <1>t, <1>5 DEF ReadClaimed, OnlyInherited
<1>6. ASSUME NEW p \in Proc, LoadRules(p) PROVE OnlyInherited'
  <2>1. from[p] \in Proc /\ snap[p] = {} /\ table[p] = {}
    BY <1>6 DEF LoadRules, TypeInv, Registered, Fresh
  <2>2. /\ mem'[p] = table[from[p]] /\ heirs'[p] = {from[p]} \cup heirs[from[p]]
        /\ snap'[p] = {} /\ table'[p] = {}
        /\ \A q \in Proc \ {p} : mem'[q] = mem[q] /\ heirs'[q] = heirs[q]
                                 /\ snap'[q] = snap[q] /\ table'[q] = table[q]
    BY <1>t, <1>6, <2>1 DEF LoadRules, Loaded
  <2> QED BY <2>1, <2>2 DEF OnlyInherited
<1>7. ASSUME NEW p \in Proc, Create(p) PROVE OnlyInherited'
  BY <1>t, <1>7 DEF Create, OnlyInherited
<1>8. ASSUME NEW p \in Proc, Approve(p) PROVE OnlyInherited'
  BY <1>t, <1>8 DEF Approve, OnlyInherited
<1>9. ASSUME NEW p \in Proc, NEW r \in Rule, DeleteRule(p, r) PROVE OnlyInherited'
  BY <1>t, <1>9 DEF DeleteRule, OnlyInherited
<1>10. ASSUME NEW p \in Proc, Snapshot(p) PROVE OnlyInherited'
  BY <1>t, <1>10 DEF Snapshot, OnlyInherited
<1>11. ASSUME NEW p \in Proc, Persist(p) PROVE OnlyInherited'
  BY <1>t, <1>11 DEF Persist, Persisted, OnlyInherited
<1>12. ASSUME NEW p \in Proc, End(p) PROVE OnlyInherited'
  BY <1>t, <1>12 DEF End, OnlyInherited
<1>13. ASSUME NEW p \in Proc, Crash(p) PROVE OnlyInherited'
  BY <1>t, <1>13 DEF Crash, OnlyInherited
<1>14. ASSUME NEW s \in Proc, HubDelete(s) PROVE OnlyInherited'
  BY <1>t, <1>14 DEF HubDelete, OnlyInherited
<1>15. CASE UNCHANGED vars
  BY <1>15 DEF vars, OnlyInherited
<1> QED
  BY <1>1, <1>2, <1>3, <1>4, <1>5, <1>6, <1>7, <1>8, <1>9, <1>10, <1>11, <1>12, <1>13,
     <1>14, <1>15 DEF Next

\* All that a session holds came into being in its directory.
LEMMA DirectoryKept == TypeInv /\ Fresh /\ Here /\ SameDirectory /\ [Next]_vars => SameDirectory'
<1> SUFFICES ASSUME TypeInv /\ Fresh /\ Here /\ SameDirectory, [Next]_vars PROVE SameDirectory'
  OBVIOUS
<1>t. /\ status \in [Proc -> Status] /\ table \in [Proc -> SUBSET Rule]
      /\ pc \in [Proc -> Place]
      /\ cwd \in [Proc -> Workdir \cup {NoDir}] /\ from \in [Proc -> Proc \cup {NoProc}]
      /\ mem \in [Proc -> SUBSET Rule] /\ snap \in [Proc -> SUBSET Rule]
      /\ heirs \in [Proc -> SUBSET Proc]
  BY DEF TypeInv, TypeOK
<1> USE DEF GoTo, At, db, local, ghost
<1>1. ASSUME NEW p \in Proc, NEW dir \in Workdir, Start(p, dir) PROVE SameDirectory'
  <2>1. pc[p] = "unborn" /\ cwd[p] = NoDir /\ UNCHANGED <<mem, snap, table>>
    BY <1>1 DEF Start, Fresh
  <2>2. \A q \in Proc \ {p} : cwd'[q] = cwd[q]
    BY <1>t, <1>1 DEF Start
  <2>3. mem[p] = {} /\ snap[p] = {} /\ table[p] = {}
    BY <2>1 DEF Fresh
  <2>4. ASSUME NEW q \in Proc, NEW r \in mem[q] \cup snap[q] \cup table[q]
        PROVE  q # p /\ r.by # p /\ r.by \in Proc
    <3>1. r \in Rule
      BY <1>t
    <3>2. q # p
      BY <2>3
    <3>3. cwd[q] # NoDir
      BY <2>4 DEF Fresh
    <3> QED BY <2>1, <2>4, <3>1, <3>2, <3>3 DEF SameDirectory, Rule
  <2> QED BY <2>1, <2>2, <2>4 DEF SameDirectory
<1>2. ASSUME NEW p \in Proc, NEW s \in Proc, Recover(p, s) PROVE SameDirectory'
  BY <1>t, <1>2 DEF Recover, SameDirectory
<1>3. ASSUME NEW p \in Proc, NEW resume \in BOOLEAN, Recovered(p, resume) PROVE SameDirectory'
  BY <1>t, <1>3 DEF Recovered, SameDirectory
<1>4. ASSUME NEW p \in Proc, Claim(p) PROVE SameDirectory'
  BY <1>t, <1>4 DEF Claim, SameDirectory
<1>5. ASSUME NEW p \in Proc, ReadClaimed(p) PROVE SameDirectory'
  BY <1>t, <1>5 DEF ReadClaimed, SameDirectory
<1>6. ASSUME NEW p \in Proc, LoadRules(p) PROVE SameDirectory'
  <2>1. from[p] \in Proc /\ cwd[from[p]] = cwd[p]
    BY <1>6 DEF LoadRules, TypeInv, Registered, Here
  <2>2. /\ mem'[p] = table[from[p]] /\ \A q \in Proc \ {p} : mem'[q] = mem[q]
        /\ UNCHANGED <<snap, table, cwd>>
    BY <1>t, <1>6, <2>1 DEF LoadRules, Loaded
  <2> QED BY <2>1, <2>2 DEF SameDirectory
<1>7. ASSUME NEW p \in Proc, Create(p) PROVE SameDirectory'
  BY <1>t, <1>7 DEF Create, SameDirectory
<1>8. ASSUME NEW p \in Proc, Approve(p) PROVE SameDirectory'
  BY <1>t, <1>8 DEF Approve, SameDirectory
<1>9. ASSUME NEW p \in Proc, NEW r \in Rule, DeleteRule(p, r) PROVE SameDirectory'
  BY <1>t, <1>9 DEF DeleteRule, SameDirectory
<1>10. ASSUME NEW p \in Proc, Snapshot(p) PROVE SameDirectory'
  BY <1>t, <1>10 DEF Snapshot, SameDirectory
<1>11. ASSUME NEW p \in Proc, Persist(p) PROVE SameDirectory'
  BY <1>t, <1>11 DEF Persist, Persisted, SameDirectory
<1>12. ASSUME NEW p \in Proc, End(p) PROVE SameDirectory'
  BY <1>t, <1>12 DEF End, SameDirectory
<1>13. ASSUME NEW p \in Proc, Crash(p) PROVE SameDirectory'
  BY <1>t, <1>13 DEF Crash, SameDirectory
<1>14. ASSUME NEW s \in Proc, HubDelete(s) PROVE SameDirectory'
  BY <1>t, <1>14 DEF HubDelete, SameDirectory
<1>15. CASE UNCHANGED vars
  BY <1>15 DEF vars, SameDirectory
<1> QED
  BY <1>1, <1>2, <1>3, <1>4, <1>5, <1>6, <1>7, <1>8, <1>9, <1>10, <1>11, <1>12, <1>13,
     <1>14, <1>15 DEF Next

\* What was written stays, from the moment that it was.
Written ==
  \A p \in Proc : pc[p] \in {"end", "gone"} /\ Exists(p) /\ DistinctIds(snap[p])
                    => table[p] = snap[p]

\* No other process touches it.
LEMMA WrittenKept == TypeInv /\ Written /\ [Next]_vars => Written'
<1> SUFFICES ASSUME TypeInv /\ Written, [Next]_vars PROVE Written'
  OBVIOUS
<1>t. /\ status \in [Proc -> Status] /\ table \in [Proc -> SUBSET Rule]
      /\ pc \in [Proc -> Place]
      /\ cwd \in [Proc -> Workdir \cup {NoDir}] /\ from \in [Proc -> Proc \cup {NoProc}]
      /\ mem \in [Proc -> SUBSET Rule] /\ snap \in [Proc -> SUBSET Rule]
      /\ heirs \in [Proc -> SUBSET Proc]
  BY DEF TypeInv, TypeOK
<1> USE DEF GoTo, At, db, local, ghost
<1>1. ASSUME NEW p \in Proc, NEW dir \in Workdir, Start(p, dir) PROVE Written'
  BY <1>t, <1>1 DEF Start, Written, Exists
<1>2. ASSUME NEW p \in Proc, NEW s \in Proc, Recover(p, s) PROVE Written'
  <2>1. \A q \in Proc : status[q] = "none" => status'[q] = "none"
    BY <1>t, <1>2 DEF Recover, Touch, Exists
  <2> QED BY <1>2, <2>1 DEF Recover, Written, Exists
<1>3. ASSUME NEW p \in Proc, NEW resume \in BOOLEAN, Recovered(p, resume) PROVE Written'
  BY <1>t, <1>3 DEF Recovered, Written, Exists
<1>4. ASSUME NEW p \in Proc, Claim(p) PROVE Written'
  <2>1. \A q \in Proc : status[q] = "none" => status'[q] = "none"
    <3>1. \/ UNCHANGED status
          \/ \E s \in Proc \cup {LatestOf(recent, Resumable(p))} : Touch(s, "running")
      BY <1>4 DEF Claim
    <3> QED BY <1>t, <3>1 DEF Touch, Exists
  <2>2. /\ UNCHANGED <<snap, table>>
        /\ pc' = [pc EXCEPT ![p] = "create"] \/ pc' = [pc EXCEPT ![p] = "read"]
    BY <1>4 DEF Claim
  <2> QED BY <1>t, <2>1, <2>2 DEF Written, Exists
<1>5. ASSUME NEW p \in Proc, ReadClaimed(p) PROVE Written'
  BY <1>t, <1>5 DEF ReadClaimed, Written, Exists
<1>6. ASSUME NEW p \in Proc, LoadRules(p) PROVE Written'
  BY <1>t, <1>6 DEF LoadRules, Written, Exists
<1>7. ASSUME NEW p \in Proc, Create(p) PROVE Written'
  BY <1>t, <1>7 DEF Create, Written, Exists
<1>8. ASSUME NEW p \in Proc, Approve(p) PROVE Written'
  BY <1>t, <1>8 DEF Approve, Written, Exists
<1>9. ASSUME NEW p \in Proc, NEW r \in Rule, DeleteRule(p, r) PROVE Written'
  BY <1>t, <1>9 DEF DeleteRule, Written, Exists
<1>10. ASSUME NEW p \in Proc, Snapshot(p) PROVE Written'
  BY <1>t, <1>10 DEF Snapshot, Written, Exists
<1>11. ASSUME NEW p \in Proc, Persist(p) PROVE Written'
  BY <1>t, <1>11 DEF Persist, Persisted, Written, Exists
<1>12. ASSUME NEW p \in Proc, End(p) PROVE Written'
  <2>1. \A q \in Proc : status[q] = "none" => status'[q] = "none"
    BY <1>t, <1>12 DEF End, Touch, Exists
  <2> QED BY <1>t, <1>12, <2>1 DEF End, Written, Exists
<1>13. ASSUME NEW p \in Proc, Crash(p) PROVE Written'
  BY <1>t, <1>13 DEF Crash, Written, Exists
<1>14. ASSUME NEW s \in Proc, HubDelete(s) PROVE Written'
  BY <1>t, <1>14 DEF HubDelete, Written, Exists
<1>15. CASE UNCHANGED vars
  BY <1>15 DEF vars, Written, Exists
<1> QED
  BY <1>1, <1>2, <1>3, <1>4, <1>5, <1>6, <1>7, <1>8, <1>9, <1>10, <1>11, <1>12, <1>13,
     <1>14, <1>15 DEF Next
-----------------------------------------------------------------------------
\* All that the theorems below need, inductive as a whole.
StoreInv ==
  TypeInv /\ LiveIsRunning /\ Fresh /\ Here /\ OnlyInherited /\ SameDirectory /\ Written

LEMMA StoreAlways == Spec => []StoreInv
<1>1. Init => StoreInv
  <2> SUFFICES ASSUME Init PROVE StoreInv
    OBVIOUS
  <2>1. LiveIsRunning /\ Fresh /\ Here /\ Written
    BY StoreAssumption DEF Init, LiveIsRunning, Fresh, Here, Written
  <2>2. OnlyInherited /\ SameDirectory
    BY DEF Init, OnlyInherited, SameDirectory
  <2> QED BY <2>1, <2>2, TypeInvInit DEF StoreInv
<1>2. StoreInv /\ [Next]_vars => StoreInv'
  BY TypeInvKept, RunningKept, FreshKept, HereKept, InheritedKept, DirectoryKept,
     WrittenKept
     DEF StoreInv
<1> QED BY <1>1, <1>2, PTL DEF Spec

(***************************************************************************)
(* The session of a process that serves or shuts down is running: no other *)
(* one's crash recovery or claim changes it (db.rs, main.rs), unless it is *)
(* root's and a process that may not signal root's has started.  It is     *)
(* inductive once the types are known.                                     *)
(***************************************************************************)
THEOREM LiveIsRunningAlways == Spec => []LiveIsRunning
<1>1. StoreInv => LiveIsRunning
  BY DEF StoreInv
<1> QED BY <1>1, StoreAlways, PTL

(***************************************************************************)
(* A permission is in effect, and in the database, only for the session in *)
(* which it came into being and for those that resumed it (load_rules and  *)
(* persist_rules of db.rs).                                                *)
(***************************************************************************)
THEOREM OnlyInheritedAlways == Spec => []OnlyInherited
<1>1. StoreInv => OnlyInherited
  BY DEF StoreInv
<1> QED BY <1>1, StoreAlways, PTL

(***************************************************************************)
(* And only in its directory (find_by_workdir of db.rs), whoever races     *)
(* between the claim and the read.                                         *)
(***************************************************************************)
THEOREM SameDirectoryAlways == Spec => []SameDirectory
<1>1. StoreInv => SameDirectory
  BY DEF StoreInv
<1> QED BY <1>1, StoreAlways, PTL

(***************************************************************************)
(* What an orderly exit wrote stays, whole, until the session is deleted   *)
(* (persist_rules of db.rs).                                               *)
(***************************************************************************)
THEOREM WrittenWholeAlways == Spec => []WrittenWhole
<1>1. StoreInv => WrittenWhole
  BY DEF StoreInv, Written, WrittenWhole, At
<1> QED BY <1>1, StoreAlways, PTL
=============================================================================
