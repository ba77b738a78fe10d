----------------------- MODULE QualificationBenchmark -----------------------
(***************************************************************************)
(* tools/qualification-benchmark.py: main, run_workload and                *)
(* zero_modsecurity_gauges, beside the Envoy they measure.                 *)
(*                                                                         *)
(* A run drives one workload after another through Envoy, each with a pool *)
(* of threads, reads Envoy's memory before and after them, and waits for   *)
(* the gauges of the filter to return to zero.  Any request may fail or    *)
(* time out, any step may raise, Envoy may die at any time (it is then a   *)
(* zombie, for nobody waits for it), and Ctrl+C may come.                  *)
(***************************************************************************)
EXTENDS Naturals, Sequences, Percentile

CONSTANTS
    Enforce,        \* --enforce
    Plan,           \* the workloads in order, the warm-up first
    Concurrency,
    MaxLingering,   \* bound: streams in Envoy that have no client left
    MaxRss,         \* bound: memory read
    MaxGrowth       \* --maximum-rss-growth-mib

ASSUME EnforceAssumption == Enforce \in BOOLEAN
ASSUME PlanAssumption ==
    /\ Plan \in Seq([name : STRING, count : Nat \ {0}, evaluated : BOOLEAN])
    /\ Plan # <<>>
ASSUME ConcurrencyAssumption == Concurrency \in Nat \ {0}
ASSUME BoundsAssumption ==
    MaxLingering \in Nat \ {0} /\ MaxRss \in Nat \ {0} /\ MaxGrowth \in Nat

VARIABLES
    stage,      \* where main is, or how it ended
    current,    \* the workload that runs or is next
    load,       \* its requests
    workloads,  \* what the workloads that are over have measured
    rss,        \* baseline and after the soak
    envoy,      \* the process, and whether main knows of it
    lingering,  \* streams in Envoy whose client has its answer, or gave up
    main        \* the rest of main

vars == <<stage, current, load, workloads, rss, envoy, lingering, main>>

measurements == <<current, load, workloads, rss>>

NoLoad == [waiting |-> 0, inflight |-> 0, errors |-> 0, latencies |-> NoLatencies]

NoResult == [latencies |-> NoLatencies, throughput |-> "good", cpu |-> "good"]

TryStages ==
    {"validate", "spawn", "record", "wait_for_admin", "workload", "rss_baseline",
     "gauges", "rss_after_soak"}

LastStages == {"evaluate", "write_json", "write_markdown"}

Ends == {"0", "1", "2", "cut", "interrupted"}

Go(next) == stage' = next

-----------------------------------------------------------------------------
(* Setting up *)

\* The upstream runs and the configuration is written.
Prepare ==
    /\ stage = "prepare"
    /\ \E next \in {"validate", "2"} : Go(next)
    /\ UNCHANGED <<measurements, envoy, lingering, main>>

Raise ==
    /\ stage \in TryStages \ {"record", "workload"}
    /\ Go("stop")
    /\ main' = [main EXCEPT !.raised = TRUE]
    /\ UNCHANGED <<measurements, envoy, lingering>>

Validate ==
    /\ stage = "validate"
    /\ Go("spawn")
    /\ UNCHANGED <<measurements, envoy, lingering, main>>

Spawn ==
    /\ stage = "spawn"
    /\ Go("record")
    /\ envoy' = [envoy EXCEPT !.state = "starting"]
    /\ UNCHANGED <<measurements, lingering, main>>

Record ==
    /\ stage = "record"
    /\ Go("wait_for_admin")
    /\ envoy' = [envoy EXCEPT !.recorded = TRUE]
    /\ UNCHANGED <<measurements, lingering, main>>

\* Submitting all requests of a workload to the pool.
SubmitAll(i) == load' = [NoLoad EXCEPT !.waiting = Plan[i].count]

\* wait_for_admin, listener_port, and the start of the warm-up.
AdminReady ==
    /\ stage = "wait_for_admin" /\ envoy.state = "ready"
    /\ Go("workload")
    /\ SubmitAll(current)
    /\ UNCHANGED <<current, workloads, rss, envoy, lingering, main>>

-----------------------------------------------------------------------------
(* one_request, in the threads of the pool *)

Connect ==
    /\ load.waiting > 0 /\ load.inflight < Concurrency
    /\ load' = [load EXCEPT !.waiting = @ - 1, !.inflight = @ + 1]
    /\ UNCHANGED <<stage, current, workloads, rss, envoy, lingering, main>>

\* The latency of a workload that is not evaluated does not matter.
ClassesOf(i) == {class \in Classes : Plan[i].evaluated \/ class = "fast"}

\* The expected status, after some time.  Envoy destroys the stream later.
Answered ==
    /\ load.inflight > 0 /\ envoy.state = "ready" /\ lingering < MaxLingering
    /\ \E class \in ClassesOf(current) :
        load' = [load EXCEPT !.inflight = @ - 1, !.latencies[class] = @ + 1]
    /\ lingering' = lingering + 1
    /\ UNCHANGED <<stage, current, workloads, rss, envoy, main>>

\* Fault: a request that failed is not heard of.
FailsSilently ==
    /\ load.inflight > 0
    /\ load' = [load EXCEPT !.inflight = @ - 1]
    /\ UNCHANGED <<stage, current, workloads, rss, envoy, lingering, main>>

\* Another status, a reset, a refused connection, or a timeout.
Fails ==
    /\ load.inflight > 0
    /\ load' = [load EXCEPT !.inflight = @ - 1, !.errors = @ + 1]
    /\ \/ envoy.state = "ready" /\ lingering < MaxLingering /\ lingering' = lingering + 1
       \/ UNCHANGED lingering
    /\ UNCHANGED <<stage, current, workloads, rss, envoy, main>>

-----------------------------------------------------------------------------
(* run_workload and the measurements between workloads *)

\* Fault: a workload counts as long as one request was answered.
FailedMostly == Number(load.latencies) = 0

Failed == load.errors > 0

\* After the last request of a workload.
NextStage ==
    IF main.raised \/ Failed THEN "stop"
    ELSE IF current = 1 THEN "rss_baseline"
    ELSE IF current = Len(Plan) THEN "gauges"
    ELSE "workload"

\* The pool is left when all its requests are done, also after Ctrl+C.
WorkloadEnds ==
    /\ stage = "workload" /\ load.waiting = 0 /\ load.inflight = 0
    /\ Go(NextStage)
    /\ main' = [main EXCEPT !.raised = @ \/ Failed]
    /\ IF NextStage = "stop"
       THEN UNCHANGED <<current, load, workloads>>
       ELSE /\ \E throughput, cpu \in {"good"} \cup (IF Plan[current].evaluated THEN {"bad"} ELSE {}) :
                workloads' = [workloads EXCEPT
                    ![current] = [latencies |-> load.latencies, throughput |-> throughput,
                                  cpu |-> cpu]]
            /\ IF NextStage = "workload"
               THEN current' = current + 1 /\ SubmitAll(current + 1)
               ELSE load' = NoLoad /\ UNCHANGED current
    /\ UNCHANGED <<rss, envoy, lingering>>

\* The memory of a zombie is read as 0.
Rss == IF envoy.state = "ready" THEN 1..MaxRss ELSE {0}

ReadRssBaseline ==
    /\ stage = "rss_baseline"
    /\ \E value \in Rss : rss' = [rss EXCEPT !.baseline = value]
    /\ IF Len(Plan) = 1
       THEN Go("gauges") /\ UNCHANGED <<current, load>>
       ELSE Go("workload") /\ current' = 2 /\ SubmitAll(2)
    /\ UNCHANGED <<workloads, envoy, lingering, main>>

\* active_transactions and modsecurity_buffer_bytes are zero.
ZeroGauges ==
    /\ stage = "gauges" /\ envoy.state = "ready" /\ lingering = 0
    /\ Go("rss_after_soak")
    /\ UNCHANGED <<measurements, envoy, lingering, main>>

ReadRssAfterSoak ==
    /\ stage = "rss_after_soak"
    /\ \E value \in Rss : rss' = [rss EXCEPT !.after_soak = value]
    /\ Go("stop")
    /\ UNCHANGED <<current, load, workloads, envoy, lingering, main>>

-----------------------------------------------------------------------------
(* The finally clause *)

NeedsStop == envoy.recorded /\ envoy.state \in {"starting", "ready"}

\* Envoy has ended or there is none; the upstream is shut down.
Stopped ==
    /\ stage = "stop" /\ ~ NeedsStop
    /\ Go(IF ~ main.raised THEN "evaluate" ELSE IF main.interrupted THEN "interrupted" ELSE "2")
    /\ UNCHANGED <<measurements, envoy, lingering, main>>

\* Fault: the wait after terminate() has no timeout.
SignalOnce ==
    /\ stage = "stop" /\ NeedsStop /\ main.waiting = "no"
    /\ main' = [main EXCEPT !.waiting = "terminated"]
    /\ UNCHANGED <<stage, measurements, envoy, lingering>>

Signal ==
    /\ stage = "stop" /\ NeedsStop
    /\ \/ main.waiting = "no" /\ main' = [main EXCEPT !.waiting = "terminated"]
       \/ main.waiting = "terminated" /\ main' = [main EXCEPT !.waiting = "killed"]
    /\ UNCHANGED <<stage, measurements, envoy, lingering>>

\* The wait after kill() expires: its exception ends the script, and what is
\* left of the finally clause is not done.
WaitExpires ==
    /\ stage = "stop" /\ NeedsStop /\ main.waiting = "killed"
    /\ Go("2")
    /\ UNCHANGED <<measurements, envoy, lingering, main>>

\* Ctrl+C in the finally clause.
CutShort ==
    /\ stage = "stop"
    /\ Go("cut")
    /\ UNCHANGED <<measurements, envoy, lingering, main>>

-----------------------------------------------------------------------------
(* The verdict *)

MaximumP99(name) == IF name = "pathological_regex" THEN "middling" ELSE "fast"

\* What a workload that is evaluated did not meet.
Violates(i, what) ==
    /\ Plan[i].evaluated
    /\ \/ what = "throughput" /\ workloads[i].throughput = "bad"
       \/ what = "p99" /\ Exceeds(percentile(workloads[i].latencies, 99),
                                  MaximumP99(Plan[i].name))
       \/ what = "cpu" /\ workloads[i].cpu = "bad" /\ Plan[i].name = "pathological_regex"

violations ==
    {v \in (DOMAIN Plan) \X {"throughput", "p99", "cpu"} : Violates(v[1], v[2])}
        \cup (IF rss.after_soak > rss.baseline + MaxGrowth THEN {<<0, "rss">>} ELSE {})

Evaluate ==
    /\ stage = "evaluate"
    /\ Go("write_json")
    /\ main' = [main EXCEPT !.passed = violations = {}]
    /\ UNCHANGED <<measurements, envoy, lingering>>

Write ==
    /\ \/ stage = "write_json" /\ Go("write_markdown")
       \/ stage = "write_markdown" /\ Go(IF Enforce /\ ~ main.passed THEN "1" ELSE "0")
       \/ stage \in {"write_json", "write_markdown"} /\ Go("2")
    /\ UNCHANGED <<measurements, envoy, lingering, main>>

-----------------------------------------------------------------------------
(* Ctrl+C, and Envoy *)

Interrupt ==
    /\ \/ stage = "workload" /\ UNCHANGED stage
          /\ main' = [main EXCEPT !.raised = TRUE, !.interrupted = TRUE]
       \/ stage \in TryStages \ {"workload"} /\ Go("stop")
          /\ main' = [main EXCEPT !.raised = TRUE, !.interrupted = TRUE]
       \/ stage \in {"prepare"} \cup LastStages /\ Go("interrupted") /\ UNCHANGED main
    /\ UNCHANGED <<measurements, envoy, lingering>>

EnvoyReady ==
    /\ envoy.state = "starting"
    /\ envoy' = [envoy EXCEPT !.state = "ready"]
    /\ UNCHANGED <<stage, measurements, lingering, main>>

EnvoyDies ==
    /\ envoy.state \in {"starting", "ready"}
    /\ envoy' = [envoy EXCEPT !.state = "dead"]
    /\ lingering' = 0
    /\ UNCHANGED <<stage, measurements, main>>

DestroyStream ==
    /\ lingering > 0
    /\ lingering' = lingering - 1
    /\ UNCHANGED <<stage, measurements, envoy, main>>

-----------------------------------------------------------------------------

Init ==
    /\ stage = "prepare"
    /\ current = 1
    /\ load = NoLoad
    /\ workloads = [i \in DOMAIN Plan |-> NoResult]
    /\ rss = [baseline |-> 0, after_soak |-> 0]
    /\ envoy = [state |-> "none", recorded |-> FALSE]
    /\ lingering = 0
    /\ main = [raised |-> FALSE, interrupted |-> FALSE, waiting |-> "no", passed |-> FALSE]

Step ==
    \/ Prepare \/ Raise \/ Validate \/ Spawn \/ Record \/ AdminReady
    \/ WorkloadEnds \/ ReadRssBaseline \/ ZeroGauges \/ ReadRssAfterSoak
    \/ Stopped \/ Signal \/ Evaluate \/ Write

Next ==
    \/ Step \/ Connect \/ Answered \/ Fails \/ WaitExpires \/ CutShort \/ Interrupt
    \/ EnvoyReady \/ EnvoyDies \/ DestroyStream

Spec == Init /\ [][Next]_vars

\* Main and the threads of the pool run, requests time out, and a killed Envoy
\* dies or the wait for it expires.
Fairness ==
    /\ WF_vars(Step) /\ WF_vars(Connect) /\ WF_vars(Answered \/ Fails)
    /\ WF_vars(WaitExpires \/ (stage = "stop" /\ main.waiting = "killed" /\ EnvoyDies))

FairSpec == Spec /\ Fairness

-----------------------------------------------------------------------------
(* Properties *)

TypeOK ==
    /\ stage \in {"prepare", "stop"} \cup TryStages \cup LastStages \cup Ends
    /\ current \in DOMAIN Plan
    /\ load \in [waiting : Nat, inflight : 0..Concurrency, errors : Nat, latencies : Latencies]
    /\ workloads \in [DOMAIN Plan -> [latencies : Latencies, throughput : {"good", "bad"},
                                      cpu : {"good", "bad"}]]
    /\ rss \in [baseline : 0..MaxRss, after_soak : 0..MaxRss]
    /\ envoy \in [state : {"none", "starting", "ready", "dead"}, recorded : BOOLEAN]
    /\ lingering \in 0..MaxLingering
    /\ main \in [raised : BOOLEAN, interrupted : BOOLEAN, passed : BOOLEAN,
                 waiting : {"no", "terminated", "killed"}]

\* No request of a workload is forgotten, whatever became of it.
RequestsConserved ==
    stage = "workload" =>
        load.waiting + load.inflight + load.errors + Number(load.latencies)
            = Plan[current].count

\* From the reading of the gauges until Envoy is stopped, the reading of the
\* memory among it, no request is under way, no client is left to send one, and
\* none has left a transaction or a body in the filter.
QuietSinceGauges ==
    stage = "rss_after_soak" \/ (stage = "stop" /\ ~ main.raised) =>
        load.waiting = 0 /\ load.inflight = 0 /\ lingering = 0

\* A run that enforces its thresholds exits with zero only if every request of
\* every workload was answered as expected, the throughput of each workload
\* that is evaluated sufficed, no more latencies were beyond its limit than lie
\* above the rank of the 99th percentile, and memory grew within its limit from
\* a baseline that was read of an Envoy that ran.  The memory after the soak may
\* be the 0 of a zombie, but not that of an Envoy that was alive to be stopped.
PassedIsEarned ==
    stage = "0" /\ Enforce =>
        /\ \A i \in DOMAIN Plan :
            LET result == workloads[i]
                n == Plan[i].count
                limit == IF Plan[i].name = "pathological_regex" THEN "middling" ELSE "fast"
            IN  /\ Number(result.latencies) = n
                /\ Plan[i].evaluated =>
                    /\ result.throughput = "good"
                    /\ Plan[i].name = "pathological_regex" => result.cpu = "good"
                    /\ Beyond(result.latencies, limit) <= n - Rank(n, 99)
        /\ rss.baseline # 0
        /\ rss.after_soak <= rss.baseline + MaxGrowth
        /\ main.waiting # "no" => rss.after_soak # 0

\* A run that ends by itself leaves no Envoy, whichever step failed, but one that
\* has outlived kill() for as long as it is waited for; Ctrl+C before the
\* finally clause leaves one only between its creation and the assignment.
EnvoyStopped ==
    /\ stage \in {"0", "1"} => envoy.state \in {"none", "dead"}
    /\ stage = "2" => envoy.state \in {"none", "dead"} \/ main.waiting = "killed"
    /\ stage = "interrupted" /\ envoy.recorded => envoy.state = "dead"

\* A run has an account of its requests, of the streams it has left in Envoy
\* and of Envoy itself.
RunIsAccounted == TypeOK /\ RequestsConserved /\ QuietSinceGauges /\ EnvoyStopped

\* A run ends, whatever Envoy does.
MainEnds == <>(stage \in Ends)
=============================================================================
