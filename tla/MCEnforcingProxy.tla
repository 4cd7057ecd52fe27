--------------------------- MODULE MCEnforcingProxy ---------------------------
(***************************************************************************)
(* EnforcingProxy on three actions: net, an action of the generic parser,  *)
(* whose net form is the action itself; api, an action of a provider's     *)
(* parser, whose net form matches no canonical action; and bad, forbidden  *)
(* and permitted at the start.                                             *)
(***************************************************************************)
EXTENDS EnforcingProxy, TLC

CONSTANTS net, api, bad

MCAction     == {net, api, bad}
MCTwoActions == {net, bad}
MCNetPattern == [a \in Action |-> IF a = api THEN {} ELSE {a}]
MCStart(id, effect) ==
  [pos |-> 0, id |-> id, effect |-> effect, action |-> {bad}, rule_type |-> "none",
   consumed |-> FALSE, plan_id |-> NoPlan, expires |-> Never]
MCInitialRules == <<MCStart("allow bad", "permit"), MCStart("no bad", "forbid")>>
MCHumanIds     == {"human"}
MCSymmetry     == Permutations(Conn)
MCRuleId       == {"allow bad", "no bad", "human"}
=============================================================================
