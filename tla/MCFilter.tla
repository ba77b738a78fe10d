------------------------------ MODULE MCFilter ------------------------------
(* One stream with limits of two bytes in a budget of three, so that a body *)
(* can overflow its limit, the budget alone, or the budget because another  *)
(* stream holds two bytes of it.                                            *)
EXTENDS FilterProperties

MCLimit == [p \in Paths |-> 2]

MCSettings ==
    {[failure_mode_allow |-> allow, rule_engine_mode |-> "DetectionOnly",
      response_inspection |-> response, limit |-> MCLimit] :
        allow \in BOOLEAN, response \in BOOLEAN}

NoRoute ==
    [disabled |-> FALSE, replaces |-> {}, disables_response |-> FALSE, limit |-> MCLimit]

MCRoutes ==
    {NoRoute,
     [NoRoute EXCEPT !.disabled = TRUE],
     [NoRoute EXCEPT !.disables_response = TRUE],
     [NoRoute EXCEPT !.replaces = Paths, !.limit = [p \in Paths |-> 1]]}

MCLoggingResults ==
    {NoResult,
     LoggingFailed,
     [NoResult EXCEPT !.rules = TRUE, !.truncated = TRUE, !.anomaly = TRUE,
                   !.exceeded = {"Request"}]}

MCKinds == {"Regular", "Grpc", "Tunnel"}
MCChunks == {0, 1, 2}
MCDeclared == {0, 3}
MCOtherChunks == {2}
=============================================================================
