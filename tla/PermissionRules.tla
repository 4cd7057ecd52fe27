--------------------------- MODULE PermissionRules ---------------------------
(***************************************************************************)
(* The rules of a permission tree and the verdict of an action against a   *)
(* set of rules (crates/closedshell-lib/src/permission.rs).                *)
(*                                                                         *)
(* A Vec<Rule> is modelled as a set of rules that carry their position:    *)
(* push gives a rule a position above every earlier one, so the order of   *)
(* the Vec is the order of the positions.  A glob is modelled as the set   *)
(* of canonical actions it matches.                                        *)
(***************************************************************************)
EXTENDS Integers, Sequences

CONSTANTS
  Action,     \* canonical action strings
  RuleId,     \* rule ids
  PlanId,     \* plan ids; NoPlan is the None of Option<String>
  NoPlan,
  MaxTime     \* bound on the clock

ASSUME RulesAssumption == MaxTime \in Nat

\* No clock value reaches Never: it is the None of Option<DateTime>.
Never == MaxTime + 1

Effect   == {"permit", "forbid"}
RuleType == {"none", "idempotent", "one-shot"}

(***************************************************************************)
(* A rule; pos = 0 in a rule that is in no tree yet.  approved_by, source  *)
(* and reason only label a rule and are left out.                          *)
(***************************************************************************)
Rule == [pos: Nat, id: RuleId, effect: Effect, action: SUBSET Action,
         rule_type: RuleType, consumed: BOOLEAN,
         plan_id: PlanId \cup {NoPlan}, expires: 0..Never]

IsExpired(r, t) == r.expires <= t

Matches(r, a) == a \in r.action

\* Phase 1 of evaluate, and all of has_forbid.
ForbidsOf(R, a, t) ==
  {r \in R : r.effect = "forbid" /\ ~IsExpired(r, t) /\ Matches(r, a)}

HasForbid(R, a, t) == ForbidsOf(R, a, t) # {}

IsSpent(r) == r.rule_type = "one-shot" /\ r.consumed

\* Phase 2: the permits that would allow a; a consumed one-shot is skipped.
PermitsOf(R, a, t) ==
  {r \in R : r.effect = "permit" /\ ~IsExpired(r, t) /\ Matches(r, a) /\ ~IsSpent(r)}

\* Mutant of Outcome: the permits are looked at before the forbids.
PermitFirst(R, a, t) ==
  IF PermitsOf(R, a, t) # {} THEN "allow"
  ELSE IF HasForbid(R, a, t) THEN "forbidden" ELSE "no match"

Outcome(R, a, t) ==
  IF HasForbid(R, a, t) THEN "forbidden"
  ELSE IF PermitsOf(R, a, t) # {} THEN "allow" ELSE "no match"

\* The one-shot that an allowing evaluation uses up, if any: the first of the
\* permits answers, and is used up if it is a one-shot.
UsedUp(R, a, t) ==
  {r \in PermitsOf(R, a, t) :
     /\ ~HasForbid(R, a, t)
     /\ \A q \in PermitsOf(R, a, t) : r.pos <= q.pos
     /\ r.rule_type = "one-shot"}

\* Mutant of MarkConsumed: the flag is set on a copy of the rule.
MarkCopy(R, S) == R

MarkConsumed(R, S) == (R \ S) \cup {[r EXCEPT !.consumed = TRUE] : r \in S}

RulesAfter(R, a, t) == MarkConsumed(R, UsedUp(R, a, t))

(***************************************************************************)
(* What the operations that change the list do to it.                      *)
(***************************************************************************)
\* Mutant of Placed: the index is not added.
PlacedTogether(s, p) == {[s[i] EXCEPT !.pos = p] : i \in DOMAIN s}

\* The rules of the sequence s pushed in order, the first at position p.
Placed(s, p) == {[s[i] EXCEPT !.pos = p + i - 1] : i \in DOMAIN s}

WithoutId(R, id) == {r \in R : r.id # id}

WithoutPlan(R, p) == {r \in R : r.plan_id # p}

\* load_template: the statements of a parsed policy as rules; the i-th one
\* (from 0) gets the id "template:NAME:i".
TemplateRules(t) ==
  [i \in DOMAIN t.statements |->
     [pos |-> 0, id |-> <<t.name, i - 1>>, effect |-> t.statements[i].effect,
      action |-> t.statements[i].action,
      rule_type |-> IF t.statements[i].effect = "forbid" THEN "none" ELSE "idempotent",
      consumed |-> FALSE, plan_id |-> NoPlan, expires |-> Never]]
=============================================================================
