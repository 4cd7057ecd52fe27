------------------------- MODULE PermissionTreeProofs -------------------------
(***************************************************************************)
(* Proofs about PermissionTree, for every set of rules, templates, callers *)
(* and every bound: type correctness, that a one-shot allows at most once, *)
(* and that forbid overrides permit.                                       *)
(***************************************************************************)
EXTENDS PermissionTree, TLAPS

(***************************************************************************)
(* Facts about the operators on rules, for every set of rules.             *)
(***************************************************************************)
\* Positions are unique in a set of rules.
UniquePos(R) == \A r, q \in R : r.pos = q.pos => r = q

LEMMA PlacedProperties ==
  ASSUME NEW s \in Seq(Rule), NEW p \in Nat \ {0}
  PROVE  /\ Placed(s, p) \subseteq Rule
         /\ \A r \in Placed(s, p) : r.pos \in p..(p + Len(s) - 1)
         /\ UniquePos(Placed(s, p))
<1> DEFINE at(i) == [s[i] EXCEPT !.pos = p + i - 1]
<1>1. ASSUME NEW i \in DOMAIN s
      PROVE  /\ i \in 1..Len(s) /\ Len(s) \in Nat
             /\ at(i) \in Rule
             /\ at(i).pos = p + i - 1
  <2>1. i \in 1..Len(s) /\ s[i] \in Rule /\ Len(s) \in Nat
    BY <1>1
  <2>2. p + i - 1 \in Nat
    BY <2>1
  <2>3. at(i) \in Rule /\ at(i).pos = p + i - 1
    BY <2>1, <2>2 DEF Rule
  <2> QED BY <2>1, <2>3
<1>2. \A r \in Placed(s, p) : \E i \in DOMAIN s : r = at(i)
  BY DEF Placed
<1>3. Placed(s, p) \subseteq Rule
  BY <1>1, <1>2
<1>4. ASSUME NEW r \in Placed(s, p)
      PROVE  r.pos \in p..(p + Len(s) - 1)
  <2>1. PICK i \in DOMAIN s : r = at(i)
    BY <1>2
  <2>2. i \in 1..Len(s) /\ Len(s) \in Nat /\ r.pos = p + i - 1
    BY <1>1, <2>1
  <2> HIDE DEF at
  <2> QED BY <2>2
<1>5. ASSUME NEW r \in Placed(s, p), NEW q \in Placed(s, p), r.pos = q.pos
      PROVE  r = q
  <2>1. PICK i \in DOMAIN s : r = at(i)
    BY <1>2
  <2>2. PICK j \in DOMAIN s : q = at(j)
    BY <1>2
  <2>3. i = j
    BY <1>1, <1>5, <2>1, <2>2
  <2> QED BY <2>1, <2>2, <2>3
<1> QED BY <1>3, <1>4, <1>5 DEF UniquePos

\* Marking rules consumed keeps the type, the positions and their uniqueness.
LEMMA MarkConsumedProperties ==
  ASSUME NEW R, R \subseteq Rule, NEW S, S \subseteq R, UniquePos(R)
  PROVE  /\ MarkConsumed(R, S) \subseteq Rule
         /\ \A r \in MarkConsumed(R, S) :
              \/ r \in R \ S
              \/ r.consumed /\ \E q \in S : r = [q EXCEPT !.consumed = TRUE]
         /\ \A r \in MarkConsumed(R, S) : \E q \in R : r.pos = q.pos
         /\ UniquePos(MarkConsumed(R, S))
<1> DEFINE marked(r) == [r EXCEPT !.consumed = TRUE]
<1>1. \A r \in R : marked(r) \in Rule /\ marked(r).pos = r.pos /\ marked(r).consumed
  BY DEF Rule
<1>2. \A r \in MarkConsumed(R, S) : r \in R \ S \/ \E q \in S : r = marked(q)
  BY DEF MarkConsumed
<1>3. ASSUME NEW r \in MarkConsumed(R, S), NEW q \in MarkConsumed(R, S), r.pos = q.pos
      PROVE  r = q
  <2> HIDE DEF marked
  <2>1. CASE r \in R \ S /\ q \in R \ S
    BY <1>3, <2>1 DEF UniquePos
  <2>2. ASSUME NEW u \in S, r = marked(u), q \in R \ S
        PROVE  FALSE
    BY <1>1, <1>3, <2>2 DEF UniquePos
  <2>3. ASSUME NEW u \in S, q = marked(u), r \in R \ S
        PROVE  FALSE
    BY <1>1, <1>3, <2>3 DEF UniquePos
  <2>4. ASSUME NEW u \in S, NEW v \in S, r = marked(u), q = marked(v)
        PROVE  r = q
    BY <1>1, <1>3, <2>4 DEF UniquePos
  <2> QED BY <1>2, <2>1, <2>2, <2>3, <2>4
<1>4. MarkConsumed(R, S) \subseteq Rule
  BY <1>1, <1>2
<1>5. \A r \in MarkConsumed(R, S) : \E q \in R : r.pos = q.pos
  BY <1>1, <1>2
<1>6. \A r \in MarkConsumed(R, S) :
        r \in R \ S \/ (r.consumed /\ \E q \in S : r = marked(q))
  <2> HIDE DEF marked
  <2> QED BY <1>1, <1>2
<1> QED BY <1>3, <1>4, <1>5, <1>6 DEF UniquePos

LEMMA UsedUpSubset ==
  ASSUME NEW R, NEW a, NEW t
  PROVE  UsedUp(R, a, t) \subseteq R
BY DEF UsedUp, PermitsOf
-----------------------------------------------------------------------------
(***************************************************************************)
(* Type correctness.                                                       *)
(***************************************************************************)
\* Pushing a list of rules, alone or on top of the others, keeps the type.
LEMMA PushType ==
  ASSUME TypeOK, NEW base \in SUBSET rules, NEW s \in Seq(Rule),
         nextPos + Len(s) <= MaxRules + 1,
         rules' = base \cup Placed(s, nextPos), nextPos' = nextPos + Len(s),
         UNCHANGED <<now, call, grants>>
  PROVE  TypeOK'
<1> USE TreeAssumption DEF TypeOK
<1>1. /\ Placed(s, nextPos) \subseteq Rule
      /\ \A r \in Placed(s, nextPos) : r.pos \in nextPos..(nextPos + Len(s) - 1)
      /\ UniquePos(Placed(s, nextPos))
  BY PlacedProperties
<1>2. Len(s) \in Nat
  OBVIOUS
<1>3. rules' \subseteq Rule
  BY <1>1
<1>4. nextPos' \in 1..(MaxRules + 1)
  BY <1>2
<1>5. \A r \in rules' : r.pos \in 1..(nextPos' - 1)
  BY <1>1, <1>2
<1>6. \A r, q \in rules' : r.pos = q.pos => r = q
  BY <1>1, <1>2 DEF UniquePos
<1> QED BY <1>3, <1>4, <1>5, <1>6

\* Taking rules away keeps the type.
LEMMA RemoveType ==
  ASSUME TypeOK, rules' \subseteq rules, UNCHANGED <<nextPos, now, call, grants>>
  PROVE  TypeOK'
BY DEF TypeOK

LEMMA EvaluateType ==
  ASSUME TypeOK, NEW c \in Caller, Evaluate(c)
  PROVE  TypeOK'
<1>1. PICK t \in call[c].since..now :
        /\ Return(c, Outcome(rules, call[c].action, t))
        /\ rules' = RulesAfter(rules, call[c].action, t)
        /\ grants' = [p \in Pos |->
             grants[p] + IF \E r \in UsedUp(rules, call[c].action, t) : r.pos = p
                         THEN 1 ELSE 0]
        /\ UNCHANGED <<nextPos, now>>
  BY DEF Evaluate
<1>2. UniquePos(rules)
  BY DEF TypeOK, UniquePos
<1>3. /\ rules' \subseteq Rule
      /\ \A r \in rules' : \E q \in rules : r.pos = q.pos
      /\ UniquePos(rules')
  BY <1>1, <1>2, MarkConsumedProperties, UsedUpSubset DEF RulesAfter, TypeOK
<1>4. call' \in [Caller -> Call] /\ \A d \in Caller : call'[d].since = call[d].since
  <2>1. Outcome(rules, call[c].action, t) \in Result
    BY DEF Outcome, Result
  <2>2. call[c] \in Call /\ call' = [call EXCEPT ![c].result = Outcome(rules, call[c].action, t)]
    BY <1>1 DEF TypeOK, Return
  <2> QED BY <2>1, <2>2 DEF TypeOK, Call
<1>5. grants' \in [Pos -> Nat]
  BY <1>1 DEF TypeOK
<1> QED BY <1>1, <1>3, <1>4, <1>5 DEF TypeOK, UniquePos

(***************************************************************************)
(* The rules of the tree keep their shape, their positions stay unique and *)
(* below the next one, and no call began in the future.                    *)
(***************************************************************************)
THEOREM TypeCorrect == Spec => []TypeOK
<1> USE RulesAssumption, TreeAssumption
<1>1. Init => TypeOK
  BY DEF Init, TypeOK, Call, Op, Result, Pos
<1>2. TypeOK /\ [Next]_vars => TypeOK'
  <2> SUFFICES ASSUME TypeOK, [Next]_vars PROVE TypeOK'
    OBVIOUS
  <2>1. ASSUME NEW c \in Caller, NEW op \in {"evaluate", "has_forbid"}, NEW a \in Action,
               Invoke(c, op, a)
        PROVE  TypeOK'
    <3> DEFINE new == [op |-> op, action |-> a, since |-> now, result |-> "none"]
    <3>1. new \in Call /\ new.since = now
      BY DEF TypeOK, Call, Op, Result
    <3>2. /\ call' = [call EXCEPT ![c] = new]
          /\ UNCHANGED <<rules, nextPos, now, grants>>
      BY <2>1 DEF Invoke
    <3> HIDE DEF new
    <3> QED BY <3>1, <3>2 DEF TypeOK
  <2>2. ASSUME NEW c \in Caller, Evaluate(c) PROVE TypeOK'
    BY <2>2, EvaluateType
  <2>3. ASSUME NEW c \in Caller, CheckForbid(c) PROVE TypeOK'
    <3>1. PICK result \in {"true", "false"} : call' = [call EXCEPT ![c].result = result]
      BY <2>3 DEF CheckForbid, Return
    <3> DEFINE new == [call[c] EXCEPT !.result = result]
    <3>2. new \in Call /\ new.since = call[c].since
      BY <3>1 DEF TypeOK, Call, Result
    <3>3. UNCHANGED <<rules, nextPos, now, grants>>
      BY <2>3 DEF CheckForbid
    <3>4. call' = [call EXCEPT ![c] = new]
      BY <3>1
    <3> HIDE DEF new
    <3> QED BY <3>2, <3>3, <3>4 DEF TypeOK
  <2>4. ASSUME NEW s \in Seq(Rule), Push(s) PROVE TypeOK'
    BY <2>4, PushType DEF Push
  <2>5. ASSUME NEW r \in NewRules, AddRule(r) PROVE TypeOK'
    <3>1. <<r>> \in Seq(Rule)
      OBVIOUS
    <3> QED BY <2>4, <2>5, <3>1 DEF AddRule
  <2>6. ASSUME NEW t \in Templates, LoadTemplate(t) PROVE TypeOK'
    BY <2>4, <2>6 DEF LoadTemplate
  <2>7. ASSUME NEW s \in Restorable, ReplaceRules(s) PROVE TypeOK'
    <3>1. rules' = {} \cup Placed(s, nextPos)
      BY <2>7 DEF ReplaceRules
    <3> QED BY <2>7, <3>1, PushType DEF ReplaceRules
  <2>8. ASSUME NEW id \in RuleId, RemoveRule(id) PROVE TypeOK'
    BY <2>8, RemoveType DEF RemoveRule, WithoutId
  <2>9. ASSUME NEW p \in PlanId, RevokePlan(p) PROVE TypeOK'
    BY <2>9, RemoveType DEF RevokePlan, WithoutPlan
  <2>10. CASE Tick
    BY <2>10 DEF TypeOK, Tick, Call
  <2>11. CASE UNCHANGED vars
    BY <2>11 DEF TypeOK, vars
  <2> QED
    BY <2>1, <2>2, <2>3, <2>5, <2>6, <2>7, <2>8, <2>9, <2>10, <2>11 DEF Next
<1> QED BY <1>1, <1>2, PTL DEF Spec
-----------------------------------------------------------------------------
(***************************************************************************)
(* One-shots.  OneShotOnce is not inductive: it must be known that a       *)
(* one-shot that has allowed is marked consumed and that no rule is yet to *)
(* come at a position that has (OneShotInv).                               *)
(***************************************************************************)
\* Steps that leave grants and add no used one-shot keep the invariant.
LEMMA OneShotKept ==
  ASSUME TypeOK, TypeOK', OneShotInv, UNCHANGED grants, nextPos' >= nextPos,
         \A r \in rules' : r \in rules \/ r.pos >= nextPos
  PROVE  OneShotInv'
<1>1. OneShotOnce'
  BY DEF OneShotInv, OneShotOnce, Pos
<1>2. \A p \in Pos : p >= nextPos' => grants'[p] = 0
  BY TreeAssumption DEF OneShotInv, TypeOK, Pos
<1>3. ASSUME NEW r \in rules', r.rule_type = "one-shot", grants'[r.pos] > 0
      PROVE  r.consumed
  <2>1. r.pos \in Pos
    BY TreeAssumption DEF TypeOK, Pos
  <2> QED BY <1>3, <2>1 DEF OneShotInv
<1> QED BY <1>1, <1>2, <1>3 DEF OneShotInv

LEMMA EvaluateOneShot ==
  ASSUME TypeOK, OneShotInv, NEW c \in Caller, Evaluate(c)
  PROVE  OneShotInv'
<1> DEFINE a == call[c].action
<1>1. PICK t \in call[c].since..now :
        /\ rules' = RulesAfter(rules, a, t)
        /\ grants' = [p \in Pos |->
             grants[p] + IF \E r \in UsedUp(rules, a, t) : r.pos = p THEN 1 ELSE 0]
        /\ nextPos' = nextPos
  BY DEF Evaluate
<1> DEFINE U == UsedUp(rules, a, t)
<1> HIDE DEF a
<1>2. U \subseteq rules /\ \A u \in U : u.rule_type = "one-shot" /\ ~u.consumed
  BY DEF UsedUp, PermitsOf, IsSpent
<1>3. rules' = MarkConsumed(rules, U)
  BY <1>1 DEF RulesAfter
<1>4. \A p \in Pos : grants'[p] = grants[p] + IF \E r \in U : r.pos = p THEN 1 ELSE 0
  BY <1>1
<1> HIDE DEF U
<1>5. UniquePos(rules) /\ rules \subseteq Rule
  BY DEF TypeOK, UniquePos
<1>6. \A r \in rules' :
        \/ r \in rules \ U
        \/ r.consumed /\ \E q \in U : r = [q EXCEPT !.consumed = TRUE]
  BY <1>2, <1>3, <1>5, MarkConsumedProperties
<1>7. \A r \in rules : r.pos \in Pos /\ r.pos < nextPos
  BY TreeAssumption DEF TypeOK, Pos
<1>8. \A u \in U : grants[u.pos] = 0
  BY <1>2, <1>7 DEF OneShotInv, TypeOK
<1>9. ASSUME NEW p \in Pos
      PROVE  grants'[p] <= 1
  <2>1. CASE \E u \in U : u.pos = p
    BY <1>4, <1>8, <2>1
  <2>2. CASE ~\E u \in U : u.pos = p
    BY <1>4, <2>2 DEF OneShotInv, OneShotOnce, TypeOK
  <2> QED BY <2>1, <2>2
<1>10. ASSUME NEW p \in Pos, p >= nextPos'
       PROVE  grants'[p] = 0
  <2>1. ~\E u \in U : u.pos = p
    BY <1>1, <1>2, <1>7, <1>10 DEF TypeOK, Pos
  <2> QED BY <1>1, <1>4, <1>10, <2>1 DEF OneShotInv, TypeOK
<1>11. ASSUME NEW r \in rules', r.rule_type = "one-shot", grants'[r.pos] > 0
       PROVE  r.consumed
  <2>1. CASE r \in rules \ U
    <3>1. \A u \in U : u.pos # r.pos
      BY <1>2, <1>5, <2>1 DEF UniquePos
    <3>2. grants[r.pos] > 0
      BY <1>4, <1>7, <1>11, <2>1, <3>1 DEF TypeOK
    <3> QED BY <1>11, <2>1, <3>2 DEF OneShotInv
  <2> QED BY <1>6, <2>1
<1> QED BY <1>9, <1>10, <1>11 DEF OneShotInv, OneShotOnce

LEMMA OneShotInductive ==
  ASSUME TypeOK, TypeOK', OneShotInv, [Next]_vars
  PROVE  OneShotInv'
<1> USE TreeAssumption
<1>1. ASSUME NEW c \in Caller, Evaluate(c) PROVE OneShotInv'
  BY <1>1, EvaluateOneShot
<1>2. ASSUME NEW s \in Seq(Rule), Push(s) PROVE OneShotInv'
  <2>1. \A r \in Placed(s, nextPos) : r.pos >= nextPos
    BY PlacedProperties DEF TypeOK
  <2> QED BY <1>2, <2>1, OneShotKept DEF Push, TypeOK
<1>3. ASSUME NEW r \in NewRules, AddRule(r) PROVE OneShotInv'
  <2>1. <<r>> \in Seq(Rule)
    OBVIOUS
  <2> QED BY <1>2, <1>3, <2>1 DEF AddRule
<1>4. ASSUME NEW t \in Templates, LoadTemplate(t) PROVE OneShotInv'
  BY <1>2, <1>4 DEF LoadTemplate
<1>5. ASSUME NEW s \in Restorable, ReplaceRules(s) PROVE OneShotInv'
  <2>1. \A r \in Placed(s, nextPos) : r.pos >= nextPos
    BY PlacedProperties DEF TypeOK
  <2> QED BY <1>5, <2>1, OneShotKept DEF ReplaceRules, TypeOK
<1>6. ASSUME NEW id \in RuleId, RemoveRule(id) PROVE OneShotInv'
  BY <1>6, OneShotKept DEF RemoveRule, WithoutId, TypeOK
<1>7. ASSUME NEW p \in PlanId, RevokePlan(p) PROVE OneShotInv'
  BY <1>7, OneShotKept DEF RevokePlan, WithoutPlan, TypeOK
<1>8. ASSUME UNCHANGED <<rules, nextPos, grants>> PROVE OneShotInv'
  BY <1>8, OneShotKept DEF TypeOK
<1> QED
  BY <1>1, <1>3, <1>4, <1>5, <1>6, <1>7, <1>8
  DEF Next, Invoke, CheckForbid, Tick, vars

(***************************************************************************)
(* However callers race and rules come and go, a one-shot permit allows at *)
(* most one request.                                                       *)
(***************************************************************************)
THEOREM OneShotAtMostOnce == Spec => []OneShotOnce
<1>1. Init => OneShotInv
  BY DEF Init, OneShotInv, OneShotOnce
<1>2. TypeOK /\ TypeOK' /\ OneShotInv /\ [Next]_vars => OneShotInv'
  BY OneShotInductive
<1>3. OneShotInv => OneShotOnce
  BY DEF OneShotInv
<1> QED BY <1>1, <1>2, <1>3, TypeCorrect, PTL DEF Spec
-----------------------------------------------------------------------------
(***************************************************************************)
(* Forbid overrides permit: no step answers "allow" to a call whose action *)
(* a forbid of the tree matches at the end of the call.                    *)
(***************************************************************************)
LEMMA AllowedOnlyUnforbidden ==
  ASSUME TypeOK, NEW c \in Caller, [Next]_vars, Allowed(c)
  PROVE  ~HasForbid(rules, call[c].action, now)
<1>1. PICK t \in call[c].since..now : Outcome(rules, call[c].action, t) = "allow"
  <2>1. ASSUME NEW d \in Caller, Evaluate(d)
        PROVE  \E t \in call[c].since..now : Outcome(rules, call[c].action, t) = "allow"
    BY <2>1 DEF Evaluate, Return, Allowed, TypeOK
  <2>2. ASSUME NEW d \in Caller, NEW op \in {"evaluate", "has_forbid"}, NEW a \in Action,
               Invoke(d, op, a)
        PROVE  FALSE
    BY <2>2 DEF Invoke, Allowed, TypeOK
  <2>3. ASSUME NEW d \in Caller, CheckForbid(d) PROVE FALSE
    BY <2>3 DEF CheckForbid, Return, Allowed, TypeOK
  <2>4. ~UNCHANGED call
    BY DEF Allowed
  <2> QED
    BY <2>1, <2>2, <2>3, <2>4
    DEF Next, AddRule, LoadTemplate, Push, ReplaceRules, RemoveRule, RevokePlan, Tick, vars
<1>2. ~HasForbid(rules, call[c].action, t)
  BY <1>1 DEF Outcome
<1>3. \A r \in rules : IsExpired(r, t) => IsExpired(r, now)
  <2>1. ASSUME NEW r \in rules, IsExpired(r, t)
        PROVE  IsExpired(r, now)
    <3>1. r.expires \in Int /\ t \in Int /\ now \in Int /\ t <= now
      BY RulesAssumption DEF TypeOK, Rule, Call, Never
    <3> QED BY <2>1, <3>1 DEF IsExpired
  <2> QED BY <2>1
<1> QED BY <1>2, <1>3 DEF HasForbid, ForbidsOf

THEOREM ForbidWins == Spec => ForbidOverridesPermit
<1>1. TypeOK /\ [Next]_vars =>
        [\A c \in Caller : Allowed(c) => ~HasForbid(rules, call[c].action, now)]_vars
  BY AllowedOnlyUnforbidden
<1> QED BY <1>1, TypeCorrect, PTL DEF Spec, ForbidOverridesPermit
=============================================================================
