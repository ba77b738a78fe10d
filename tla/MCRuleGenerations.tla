-------------------------- MODULE MCRuleGenerations --------------------------
(* Two workers and two streams over two compiled rule sets: an update that   *)
(* is good in either mode, one that is malformed, one whose rules do not     *)
(* load, and one whose budget does not cover its response bodies.            *)
EXTENDS RuleGenerations

Good ==
    [well_formed |-> TRUE, loads |-> TRUE, rule_engine_mode |-> "Enabled",
     request_body_max_bytes |-> 1, response |-> TRUE, response_body_max_bytes |-> 2,
     max_active_body_bytes |-> 2]

MCUpdates ==
    {Good,
     [Good EXCEPT !.rule_engine_mode = "DetectionOnly", !.response = FALSE,
                  !.max_active_body_bytes = 1],
     [Good EXCEPT !.well_formed = FALSE],
     [Good EXCEPT !.loads = FALSE],
     [Good EXCEPT !.max_active_body_bytes = 1]}
=============================================================================
