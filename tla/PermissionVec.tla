---------------------------- MODULE PermissionVec ----------------------------
(***************************************************************************)
(* PermissionTree as the code has it: a Vec<Rule> behind an RwLock.        *)
(* evaluate holds the write lock while it walks the list twice, has_forbid *)
(* holds a read lock, and every other operation changes the list under the *)
(* write lock.  One step looks at one rule, so the walks of the callers    *)
(* and the changes of the others interleave wherever the lock allows it.   *)
(*                                                                         *)
(* The specification implements PermissionTree: Tree!Spec.                 *)
(***************************************************************************)
EXTENDS PermissionRules, SequencesExt

CONSTANTS Caller, NoAction, NewRules, Templates, Restorable, MaxRules,
          NoCaller   \* nobody holds the write lock

VARIABLES
  vec,      \* Vec<Rule>; pos tags a rule with the order in which it came
  writer,   \* the caller in the write lock
  readers,  \* the callers in a read lock
  walk,     \* each caller's program counter, loop index and clock reading
  nextPos, now, call, grants   \* as in PermissionTree

lock == <<writer, readers>>
vars == <<vec, writer, readers, walk, nextPos, now, call, grants>>

Tree == INSTANCE PermissionTree WITH rules <- ToSet(vec)

ASSUME VecAssumption ==
  /\ NoCaller \notin Caller
  /\ MaxRules \in Nat
  /\ NoAction \notin Action
  /\ NewRules \subseteq Rule
  /\ Restorable \subseteq Seq(Rule)
  /\ \A t \in Templates : TemplateRules(t) \in Seq(Rule)

Walk == [pc: {"idle", "enter", "forbids", "permits"}, i: 1..(MaxRules + 1),
         t: 0..MaxTime]

At(c, pc) == walk[c].pc = pc

\* The shapes of the Vec, the walks and the lock, and PermissionTree's invariant.
TypeOK ==
  /\ vec \in Seq(Rule)
  /\ walk \in [Caller -> Walk]
  /\ writer \in Caller \cup {NoCaller}
  /\ readers \subseteq Caller
  /\ Tree!TypeOK

Init ==
  /\ vec = <<>>
  /\ writer = NoCaller
  /\ readers = {}
  /\ walk = [c \in Caller |-> [pc |-> "idle", i |-> 1, t |-> 0]]
  /\ Tree!Init
-----------------------------------------------------------------------------
LockFree     == writer = NoCaller /\ readers = {}
NoWriter     == writer = NoCaller

\* Mutant of AcquireWrite: nobody is waited for.
AcquireAnyway(c) == writer' = c /\ UNCHANGED readers

AcquireWrite(c) == LockFree /\ writer' = c /\ UNCHANGED readers
AcquireRead(c)  == NoWriter /\ readers' = readers \cup {c} /\ UNCHANGED writer
ReleaseWrite    == writer' = NoCaller /\ UNCHANGED readers
ReleaseRead(c)  == readers' = readers \ {c} /\ UNCHANGED writer

GoTo(c, pc, i) == walk' = [walk EXCEPT ![c].pc = pc, ![c].i = i]

Invoke(c, op, a) ==
  /\ At(c, "idle")
  /\ Tree!Idle(c)
  /\ GoTo(c, "enter", 1)
  /\ call' = [call EXCEPT ![c] = [op |-> op, action |-> a, since |-> now,
                                  result |-> "none"]]
  /\ UNCHANGED <<vec, lock, nextPos, now, grants>>

\* Take the lock, then read the clock.
Enter(c) ==
  /\ At(c, "enter")
  /\ IF call[c].op = "evaluate" THEN AcquireWrite(c) ELSE AcquireRead(c)
  /\ walk' = [walk EXCEPT ![c] = [pc |-> "forbids", i |-> 1, t |-> now]]
  /\ UNCHANGED <<vec, nextPos, now, call, grants>>

Return(c, result) ==
  /\ call' = [call EXCEPT ![c].result = result]
  /\ GoTo(c, "idle", 1)
  /\ IF call[c].op = "evaluate" THEN ReleaseWrite ELSE ReleaseRead(c)

Applies(r, c, effect) ==
  /\ r.effect = effect
  /\ ~IsExpired(r, walk[c].t)
  /\ Matches(r, call[c].action)

\* One turn of the loop over forbids, of evaluate (phase 1) or has_forbid.
ForbidTurn(c) ==
  /\ At(c, "forbids")
  /\ walk[c].i <= Len(vec)
  /\ IF Applies(vec[walk[c].i], c, "forbid")
     THEN Return(c, IF call[c].op = "evaluate" THEN "forbidden" ELSE "true")
     ELSE GoTo(c, "forbids", walk[c].i + 1) /\ UNCHANGED <<call, lock>>
  /\ UNCHANGED <<vec, nextPos, now, grants>>

ForbidsDone(c) ==
  /\ At(c, "forbids")
  /\ walk[c].i > Len(vec)
  /\ IF call[c].op = "evaluate"
     THEN GoTo(c, "permits", 1) /\ UNCHANGED <<call, lock>>
     ELSE Return(c, "false")
  /\ UNCHANGED <<vec, nextPos, now, grants>>

\* One turn of the loop over permits (phase 2).
PermitTurn(c) ==
  LET i == walk[c].i IN
  /\ At(c, "permits")
  /\ i <= Len(vec)
  /\ IF Applies(vec[i], c, "permit") /\ ~IsSpent(vec[i])
     THEN /\ Return(c, "allow")
          /\ IF vec[i].rule_type = "one-shot"
             THEN /\ vec' = [vec EXCEPT ![i].consumed = TRUE]
                  /\ grants' = [grants EXCEPT ![vec[i].pos] = @ + 1]
             ELSE UNCHANGED <<vec, grants>>
     ELSE GoTo(c, "permits", i + 1) /\ UNCHANGED <<vec, grants, call, lock>>
  /\ UNCHANGED <<nextPos, now>>

\* Phase 3.
NoMatch(c) ==
  /\ At(c, "permits")
  /\ walk[c].i > Len(vec)
  /\ Return(c, "no match")
  /\ UNCHANGED <<vec, nextPos, now, grants>>
-----------------------------------------------------------------------------
\* The operations that change the list in one go under the write lock.
\* Mutant of ChangeList: the list changes while others walk it.
ChangeUnlocked == UNCHANGED <<lock, walk, now, call, grants>>

ChangeList ==
  /\ LockFree
  /\ UNCHANGED <<lock, walk, now, call, grants>>

\* Mutant of Tagged.
TaggedAlike(s) == [i \in DOMAIN s |-> [s[i] EXCEPT !.pos = nextPos]]

Tagged(s) == [i \in DOMAIN s |-> [s[i] EXCEPT !.pos = nextPos + i - 1]]

Extend(base, s) ==
  /\ nextPos + Len(s) <= MaxRules + 1
  /\ vec' = base \o Tagged(s)
  /\ nextPos' = nextPos + Len(s)

AddRule(r)      == ChangeList /\ Extend(vec, <<r>>)
LoadTemplate(t) == ChangeList /\ Extend(vec, TemplateRules(t))
ReplaceRules(s) == ChangeList /\ Extend(<<>>, s)

\* Vec::retain of the rules in R: kept[i] is what is left of the first i.
Kept(s, R) ==
  LET kept[i \in 0..Len(s)] ==
        IF i = 0 THEN <<>>
        ELSE IF s[i] \in R THEN Append(kept[i - 1], s[i]) ELSE kept[i - 1]
  IN kept

Retain(s, R) == Kept(s, R)[Len(s)]

RemoveRule(id) ==
  /\ ChangeList
  /\ vec' = Retain(vec, WithoutId(ToSet(vec), id))
  /\ UNCHANGED nextPos

RevokePlan(p) ==
  /\ ChangeList
  /\ vec' = Retain(vec, WithoutPlan(ToSet(vec), p))
  /\ UNCHANGED nextPos

Tick ==
  /\ now < MaxTime
  /\ now' = now + 1
  /\ UNCHANGED <<vec, lock, walk, nextPos, call, grants>>

Next ==
  \/ \E c \in Caller, a \in Action : Invoke(c, "evaluate", a)
  \/ \E c \in Caller, a \in Action : Invoke(c, "has_forbid", a)
  \/ \E c \in Caller : Enter(c)
  \/ \E c \in Caller : ForbidTurn(c)
  \/ \E c \in Caller : ForbidsDone(c)
  \/ \E c \in Caller : PermitTurn(c)
  \/ \E c \in Caller : NoMatch(c)
  \/ \E r \in NewRules : AddRule(r)
  \/ \E t \in Templates : LoadTemplate(t)
  \/ \E s \in Restorable : ReplaceRules(s)
  \/ \E id \in RuleId : RemoveRule(id)
  \/ \E p \in PlanId : RevokePlan(p)
  \/ Tick

Spec == Init /\ [][Next]_vars
-----------------------------------------------------------------------------
(***************************************************************************)
(* The walks under the lock are atomic: every call of the code takes       *)
(* effect as one step of PermissionTree on the set of rules of the Vec,    *)
(* with its forbids before its permits, in list order, and one clock.      *)
(***************************************************************************)
ImplementsTree == Tree!Spec

(***************************************************************************)
(* A walk never runs off the list and never skips a rule: the rules it has *)
(* passed in its current loop are the ones it did not answer on, and the   *)
(* list it resumes on is the list it started on (the lock is still held).  *)
(***************************************************************************)
WalkSound ==
  \A c \in Caller :
    /\ walk[c].i \in 1..(Len(vec) + 1)
    /\ At(c, "forbids") =>
         \A i \in 1..(walk[c].i - 1) : ~Applies(vec[i], c, "forbid")
    /\ At(c, "permits") =>
         /\ \A r \in ToSet(vec) : ~Applies(r, c, "forbid")
         /\ \A i \in 1..(walk[c].i - 1) :
              Applies(vec[i], c, "permit") => IsSpent(vec[i])
=============================================================================
