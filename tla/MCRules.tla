------------------------------- MODULE MCRules -------------------------------
(***************************************************************************)
(* The rules of the small instances of PermissionTree and PermissionVec:   *)
(* two actions, a template that both permits and forbids, one-shots that   *)
(* overlap, a forbid that expires, a rule of a plan and a restored list.   *)
(***************************************************************************)
EXTENDS PermissionRules

CONSTANTS a1, a2, plan

MCAction == {a1, a2}
MCPlanId == {plan}

MCRule(id, effect, acts, type) ==
  [pos |-> 0, id |-> <<id, 0>>, effect |-> effect, action |-> acts, rule_type |-> type,
   consumed |-> FALSE, plan_id |-> NoPlan, expires |-> Never]

MCOneShot  == MCRule("once", "permit", {a1, a2}, "one-shot")
MCOneShot1 == [MCRule("plan", "permit", {a1}, "one-shot") EXCEPT !.plan_id = plan]
MCForbid   == [MCRule("stop", "forbid", {a2}, "none") EXCEPT !.expires = 1]

MCNewRules  == {MCOneShot, MCOneShot1, MCForbid}
MCTemplates == {[name |-> "tpl",
                 statements |-> <<[effect |-> "permit", action |-> {a1}],
                                  [effect |-> "forbid", action |-> {a2}]>>]}
MCRestorable == {<<MCOneShot, MCRule("old", "permit", {a2}, "none")>>}
MCRuleId == {<<"once", 0>>, <<"plan", 0>>, <<"stop", 0>>, <<"old", 0>>,
             <<"tpl", 0>>, <<"tpl", 1>>}
=============================================================================
