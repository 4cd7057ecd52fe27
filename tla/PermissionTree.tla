---------------------------- MODULE PermissionTree ----------------------------
(***************************************************************************)
(* What PermissionTree promises its callers: every operation takes effect  *)
(* in one step.  A call of evaluate or has_forbid is invoked, takes effect *)
(* once and returns; the clock it reads is some instant during the call.   *)
(* PermissionVec is the same component with its RwLock and its loops.      *)
(***************************************************************************)
EXTENDS PermissionRules

CONSTANTS
  Caller,      \* threads that evaluate actions
  NoAction,    \* no call made yet
  NewRules,    \* the rules add_rule may be given (pos = 0)
  Templates,   \* the parsed templates: [name, statements]
  Restorable,  \* the lists replace_rules may be given
  MaxRules     \* bound on the rules ever pushed

VARIABLES
  rules,    \* the rules of the tree
  nextPos,  \* position the next pushed rule gets
  now,      \* Utc::now
  call,     \* each caller's last call and, once it returned, its result
  grants    \* history: how often the rule at a position allowed as a one-shot

vars == <<rules, nextPos, now, call, grants>>

Op     == {"none", "evaluate", "has_forbid"}
Result == {"none", "allow", "forbidden", "no match", "true", "false"}
Pos    == 1..MaxRules

ASSUME TreeAssumption ==
  /\ MaxRules \in Nat
  /\ NoAction \notin Action
  /\ NewRules \subseteq Rule
  /\ Restorable \subseteq Seq(Rule)
  /\ \A t \in Templates : TemplateRules(t) \in Seq(Rule)

Call == [op: Op, action: Action \cup {NoAction}, since: 0..MaxTime, result: Result]

Idle(c)    == call[c].op = "none" \/ call[c].result # "none"
Waiting(c) == call[c].op # "none" /\ call[c].result = "none"

TypeOK ==
  /\ rules \subseteq Rule
  /\ \A r \in rules : r.pos \in 1..(nextPos - 1)
  /\ \A r, q \in rules : r.pos = q.pos => r = q
  /\ nextPos \in 1..(MaxRules + 1)
  /\ now \in 0..MaxTime
  /\ call \in [Caller -> Call]
  /\ \A c \in Caller : call[c].since <= now
  /\ grants \in [Pos -> Nat]

Init ==
  /\ rules = {}
  /\ nextPos = 1
  /\ now = 0
  /\ call = [c \in Caller |->
               [op |-> "none", action |-> NoAction, since |-> 0, result |-> "none"]]
  /\ grants = [p \in Pos |-> 0]
-----------------------------------------------------------------------------
Invoke(c, op, a) ==
  /\ Idle(c)
  /\ call' = [call EXCEPT ![c] = [op |-> op, action |-> a, since |-> now,
                                  result |-> "none"]]
  /\ UNCHANGED <<rules, nextPos, now, grants>>

Return(c, result) == call' = [call EXCEPT ![c].result = result]

\* evaluate takes effect, with the clock read at some time t of the call.
Evaluate(c) ==
  /\ Waiting(c)
  /\ call[c].op = "evaluate"
  /\ \E t \in call[c].since..now :
       /\ Return(c, Outcome(rules, call[c].action, t))
       /\ rules' = RulesAfter(rules, call[c].action, t)
       /\ grants' = [p \in Pos |->
            grants[p] + IF \E r \in UsedUp(rules, call[c].action, t) : r.pos = p
                        THEN 1 ELSE 0]
  /\ UNCHANGED <<nextPos, now>>

CheckForbid(c) ==
  /\ Waiting(c)
  /\ call[c].op = "has_forbid"
  /\ \E t \in call[c].since..now :
       Return(c, IF HasForbid(rules, call[c].action, t) THEN "true" ELSE "false")
  /\ UNCHANGED <<rules, nextPos, now, grants>>

\* add_rule pushes one rule, load_template the statements of a template.
Push(s) ==
  /\ nextPos + Len(s) <= MaxRules + 1
  /\ rules' = rules \cup Placed(s, nextPos)
  /\ nextPos' = nextPos + Len(s)
  /\ UNCHANGED <<now, call, grants>>

AddRule(r)      == Push(<<r>>)
LoadTemplate(t) == Push(TemplateRules(t))

ReplaceRules(s) ==
  /\ nextPos + Len(s) <= MaxRules + 1
  /\ rules' = Placed(s, nextPos)
  /\ nextPos' = nextPos + Len(s)
  /\ UNCHANGED <<now, call, grants>>

RemoveRule(id) ==
  /\ rules' = WithoutId(rules, id)
  /\ UNCHANGED <<nextPos, now, call, grants>>

RevokePlan(p) ==
  /\ rules' = WithoutPlan(rules, p)
  /\ UNCHANGED <<nextPos, now, call, grants>>

Tick ==
  /\ now < MaxTime
  /\ now' = now + 1
  /\ UNCHANGED <<rules, nextPos, call, grants>>

Next ==
  \/ \E c \in Caller, a \in Action : Invoke(c, "evaluate", a)
  \/ \E c \in Caller, a \in Action : Invoke(c, "has_forbid", a)
  \/ \E c \in Caller : Evaluate(c)
  \/ \E c \in Caller : CheckForbid(c)
  \/ \E r \in NewRules : AddRule(r)
  \/ \E t \in Templates : LoadTemplate(t)
  \/ \E s \in Restorable : ReplaceRules(s)
  \/ \E id \in RuleId : RemoveRule(id)
  \/ \E p \in PlanId : RevokePlan(p)
  \/ Tick

Spec == Init /\ [][Next]_vars
-----------------------------------------------------------------------------
(***************************************************************************)
(* A one-shot permit allows at most one request, however many callers race *)
(* for it and whatever other rules come and go (evaluate marks it consumed *)
(* under the same write lock that found it).                               *)
(***************************************************************************)
OneShotOnce == \A p \in Pos : grants[p] <= 1

\* Inductive strengthening: a one-shot that can still allow never has.
OneShotInv ==
  /\ OneShotOnce
  /\ \A p \in Pos : p >= nextPos => grants[p] = 0
  /\ \A r \in rules : r.rule_type = "one-shot" /\ grants[r.pos] > 0 => r.consumed

Allowed(c) == call[c].result # "allow" /\ call'[c].result = "allow"

(***************************************************************************)
(* Forbid overrides permit: the step in which an evaluation allows an      *)
(* action finds no forbid on it in the tree that is in force at the end of *)
(* the call (phase 1 of evaluate precedes phase 2).                        *)
(***************************************************************************)
ForbidOverridesPermit ==
  [][\A c \in Caller : Allowed(c) => ~HasForbid(rules, call[c].action, now)]_vars
=============================================================================
