---------------------- MODULE MCQualificationBenchmark ----------------------
(* A warm-up, a workload of each kind of limit and a soak.                   *)
EXTENDS QualificationBenchmark

Workload(name, count, evaluated) == [name |-> name, count |-> count, evaluated |-> evaluated]

MCPlan ==
    <<Workload("warmup", 1, FALSE), Workload("safe_headers", 3, TRUE),
      Workload("pathological_regex", 2, TRUE), Workload("soak-0", 1, FALSE)>>
=============================================================================
