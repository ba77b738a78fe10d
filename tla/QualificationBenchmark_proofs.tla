-------------------- MODULE QualificationBenchmark_proofs --------------------
(***************************************************************************)
(* A run of the qualification benchmark accounts for its requests and for  *)
(* Envoy, and one that enforces its thresholds exits with zero only if     *)
(* they were met: for any plan, concurrency and bounds.                    *)
(***************************************************************************)
EXTENDS QualificationBenchmark, TLAPS

-----------------------------------------------------------------------------
(* The invariant.  Requests are counted while a workload runs, and there   *)
(* are none at any other time; what is known of Envoy at each stage makes  *)
(* sure that finally stops it; the results of the workloads that are over  *)
(* are complete, and stay as they are once they have been evaluated.       *)

Idle == load.waiting = 0 /\ load.inflight = 0

LoadOK ==
    /\ RequestsConserved
    /\ stage # "workload" => Idle
    /\ stage = "rss_after_soak" \/ (stage = "stop" /\ ~ main.raised) => lingering = 0

Alive == envoy.state \in {"starting", "ready"}

EnvoyOK ==
    /\ EnvoyStopped
    /\ envoy.recorded => envoy.state # "none"
    /\ Alive /\ ~ envoy.recorded => stage = "record" \/ main.interrupted
    /\ main.interrupted => main.raised
    /\ stage \in {"prepare", "validate", "spawn"} => envoy.state = "none"
    /\ stage = "record" => envoy.state # "none"
    /\ stage \in LastStages => ~ Alive

\* Every request of a workload was answered as expected.
Completed(i) == Number(workloads[i].latencies) = Plan[i].count

AllCompleted == \A i \in DOMAIN Plan : Completed(i)

ResultsOK ==
    /\ \A i \in DOMAIN Plan : i < current => Completed(i)
    /\ stage = "rss_baseline" => current = 1 /\ Completed(1)
    /\ stage \in {"gauges", "rss_after_soak", "0", "1"} \cup LastStages => AllCompleted
    /\ stage = "stop" /\ ~ main.raised => AllCompleted
    /\ stage \in {"write_json", "write_markdown"} => (main.passed => violations = {})
    /\ stage = "0" /\ Enforce => violations = {}

\* The memory of an Envoy that runs is not zero, and one that was dead when the
\* baseline was read never answers for its gauges.
BaselineOK ==
    /\ stage \in {"prepare", "validate", "spawn", "record", "wait_for_admin"} => current = 1
    /\ stage \in {"workload", "rss_baseline", "gauges"} => envoy.state \in {"ready", "dead"}
    /\ stage = "gauges" \/ (stage = "workload" /\ current # 1) =>
        (envoy.state = "ready" => rss.baseline # 0)
    /\ \/ stage \in {"rss_after_soak", "0", "1"} \cup LastStages
       \/ stage = "stop" /\ ~ main.raised
       => rss.baseline # 0

\* An Envoy that is alive to be stopped was alive when its memory was read, so
\* that what was read is not zero.
SoakOK ==
    /\ stage = "rss_after_soak" => envoy.state \in {"ready", "dead"}
    /\ stage \notin {"stop"} \cup LastStages \cup Ends => main.waiting = "no"
    /\ stage = "stop" /\ ~ main.raised /\ (Alive \/ main.waiting # "no") => rss.after_soak # 0
    /\ stage \in {"0", "1"} \cup LastStages /\ main.waiting # "no" => rss.after_soak # 0

Inv == TypeOK /\ LoadOK /\ EnvoyOK /\ BaselineOK /\ SoakOK /\ ResultsOK

-----------------------------------------------------------------------------
(* The types. *)

Loads == [waiting : Nat, inflight : 0..Concurrency, errors : Nat, latencies : Latencies]

Result == [latencies : Latencies, throughput : {"good", "bad"}, cpu : {"good", "bad"}]

Mains == [raised : BOOLEAN, interrupted : BOOLEAN, passed : BOOLEAN,
          waiting : {"no", "terminated", "killed"}]

\* The plan counts requests, and main starts with the first workload.
LEMMA PlanCounts ==
    /\ \A i \in DOMAIN Plan : Plan[i].count \in Nat \ {0}
    /\ DOMAIN Plan = 1..Len(Plan) /\ Len(Plan) \in Nat \ {0}
<1> DEFINE Workload == [name : STRING, count : Nat \ {0}, evaluated : BOOLEAN]
<1>1. Plan \in Seq(Workload) /\ Plan # <<>>
  BY PlanAssumption
<1>2. \A workload \in Workload : workload.count \in Nat \ {0}
  OBVIOUS
<1> HIDE DEF Workload
<1>3. DOMAIN Plan = 1..Len(Plan) /\ Len(Plan) \in Nat \ {0}
  BY <1>1
<1>4. \A i \in DOMAIN Plan : Plan[i] \in Workload
  BY <1>1, <1>3
<1> QED
  BY <1>2, <1>3, <1>4

\* The number of latencies is a number.
LEMMA NumberType ==
    ASSUME NEW latencies \in Latencies
    PROVE  Number(latencies) \in Nat
BY DEF Latencies, Classes, Number

\* A load without requests, and one of which all requests are submitted.
LEMMA LoadType ==
    /\ NoLoad \in Loads
    /\ \A i \in DOMAIN Plan : [NoLoad EXCEPT !.waiting = Plan[i].count] \in Loads
<1>1. NoLatencies \in Latencies
  BY DEF NoLatencies, Latencies
<1>2. 0 \in 0..Concurrency
  BY ConcurrencyAssumption
<1>3. NoLoad \in Loads
  BY <1>1, <1>2 DEF NoLoad, Loads
<1>4. ASSUME NEW i \in DOMAIN Plan
      PROVE  [NoLoad EXCEPT !.waiting = Plan[i].count] \in Loads
  BY <1>3, <1>4, PlanCounts DEF Loads
<1> QED
  BY <1>3, <1>4

\* The steps of main that run no workload keep the types.
LEMMA TypeOfMain ==
    ASSUME TypeOK,
           \/ Prepare \/ Raise \/ Validate \/ Spawn \/ Record
           \/ ZeroGauges \/ Stopped \/ Signal \/ Evaluate \/ Write
           \/ WaitExpires \/ CutShort \/ Interrupt \/ EnvoyReady \/ EnvoyDies \/ DestroyStream
    PROVE  TypeOK'
<1> USE DEF TypeOK, Go, measurements, TryStages, LastStages, Ends
<1>1. CASE Prepare
  BY <1>1 DEF Prepare
<1>2. CASE Raise
  BY <1>2 DEF Raise
<1>3. CASE Validate
  BY <1>3 DEF Validate
<1>4. CASE Spawn
  BY <1>4 DEF Spawn
<1>5. CASE Record
  BY <1>5 DEF Record
<1>6. CASE ZeroGauges
  BY <1>6 DEF ZeroGauges
<1>7. CASE Stopped
  BY <1>7 DEF Stopped
<1>8. CASE Signal
  BY <1>8 DEF Signal
<1>9. CASE Evaluate
  BY <1>9 DEF Evaluate
<1>10. CASE Write
  BY <1>10 DEF Write
<1>11. CASE CutShort
  BY <1>11 DEF CutShort
<1>12. CASE Interrupt
  BY <1>12 DEF Interrupt
<1>13. CASE EnvoyReady
  BY <1>13 DEF EnvoyReady
<1>14. CASE EnvoyDies
  BY <1>14, BoundsAssumption DEF EnvoyDies
<1>15. CASE DestroyStream
  BY <1>15, BoundsAssumption DEF DestroyStream
<1>16. CASE WaitExpires
  BY <1>16 DEF WaitExpires
<1> QED
  BY <1>1, <1>2, <1>3, <1>4, <1>5, <1>6, <1>7, <1>8, <1>9, <1>10, <1>11, <1>12,
     <1>13, <1>14, <1>15, <1>16

\* Reading the memory keeps the types.
LEMMA TypeOfRss ==
    ASSUME TypeOK, ReadRssBaseline \/ ReadRssAfterSoak
    PROVE  TypeOK'
<1> USE DEF TypeOK, Go, TryStages
<1>1. Rss \subseteq 0..MaxRss
  BY BoundsAssumption DEF Rss
<1>2. CASE ReadRssBaseline
  <2>1. rss' \in [baseline : 0..MaxRss, after_soak : 0..MaxRss]
    BY <1>1, <1>2 DEF ReadRssBaseline
  <2>2. current' \in DOMAIN Plan /\ load' \in Loads
    <3>1. load \in Loads
      BY DEF Loads
    <3>2. CASE Len(Plan) = 1
      BY <1>2, <3>1, <3>2 DEF ReadRssBaseline
    <3>3. CASE Len(Plan) # 1
      <4>1. 2 \in DOMAIN Plan
        BY <3>3, PlanCounts
      <4>2. current' = 2 /\ load' = [NoLoad EXCEPT !.waiting = Plan[2].count]
        BY <1>2, <3>3 DEF ReadRssBaseline, SubmitAll
      <4> QED
        BY <4>1, <4>2, LoadType
    <3> QED
      BY <3>2, <3>3
  <2> QED
    BY <1>2, <2>1, <2>2 DEF ReadRssBaseline, Loads
<1>3. CASE ReadRssAfterSoak
  BY <1>1, <1>3 DEF ReadRssAfterSoak
<1> QED
  BY <1>2, <1>3

\* A request that starts or ends keeps the types.
LEMMA TypeOfRequests ==
    ASSUME TypeOK, AdminReady \/ Connect \/ Answered \/ Fails
    PROVE  TypeOK'
<1>5. load \in Loads /\ lingering \in 0..MaxLingering /\ current \in DOMAIN Plan
  BY DEF TypeOK, Loads
<1>1. CASE AdminReady
  <2>1. load' \in Loads
    BY <1>1, <1>5, LoadType DEF AdminReady, SubmitAll
  <2> QED
    BY <1>1, <2>1 DEF TypeOK, AdminReady, Loads, Go, TryStages
<1>2. CASE Connect
  <2>1. load.waiting - 1 \in Nat /\ load.inflight + 1 \in 0..Concurrency
    BY <1>2, <1>5, ConcurrencyAssumption DEF Connect, Loads
  <2>2. load' \in Loads
    BY <1>2, <1>5, <2>1 DEF Connect, Loads
  <2> QED
    BY <1>2, <2>2 DEF TypeOK, Connect, Loads
<1>3. CASE Answered
  <2>7. load.inflight > 0 /\ lingering < MaxLingering /\ lingering' = lingering + 1
    BY <1>3, Zenon DEF Answered
  <2>1. PICK class \in Classes :
        load' = [load EXCEPT !.inflight = @ - 1, !.latencies[class] = @ + 1]
    BY <1>3 DEF Answered, ClassesOf
  <2>2. [load.latencies EXCEPT ![class] = @ + 1] \in Latencies
    BY <1>5 DEF Latencies, Loads
  <2>3. load' = [load EXCEPT !.inflight = load.inflight - 1,
                             !.latencies = [load.latencies EXCEPT ![class] = @ + 1]]
    BY <2>1
  <2>4. load.inflight - 1 \in 0..Concurrency
    BY <1>5, <2>7, ConcurrencyAssumption DEF Loads
  <2>5. load' \in Loads
    BY <1>5, <2>2, <2>3, <2>4 DEF Loads
  <2>6. lingering' \in 0..MaxLingering
    BY <1>5, <2>7, BoundsAssumption
  <2> QED
    BY <1>3, <2>5, <2>6 DEF TypeOK, Answered, Loads
<1>4. CASE Fails
  <2>3. load.inflight - 1 \in 0..Concurrency /\ load.errors + 1 \in Nat
    BY <1>4, <1>5, ConcurrencyAssumption DEF Fails, Loads
  <2>1. load' \in Loads
    BY <1>4, <1>5, <2>3 DEF Fails, Loads
  <2>2. lingering' \in 0..MaxLingering
    BY <1>4, <1>5, BoundsAssumption DEF Fails
  <2> QED
    BY <1>4, <2>1, <2>2 DEF TypeOK, Fails, Loads
<1> QED
  BY <1>1, <1>2, <1>3, <1>4

\* A workload that ends keeps the types.
LEMMA TypeOfWorkload ==
    ASSUME TypeOK, WorkloadEnds
    PROVE  TypeOK'
<1> USE DEF TypeOK
<1>1. stage' \in {"stop", "workload", "rss_baseline", "gauges"}
  BY DEF WorkloadEnds, Go, NextStage
<1>2. main' \in Mains
  BY DEF WorkloadEnds, Mains, Failed
<1>3. current' \in DOMAIN Plan
  BY PlanCounts DEF WorkloadEnds, NextStage
<1>4. load' \in Loads
  <2>1. NextStage = "workload" => current + 1 \in DOMAIN Plan
    BY PlanCounts DEF NextStage
  <2> QED
    BY <2>1, LoadType DEF WorkloadEnds, SubmitAll, Loads
<1>5. workloads' \in [DOMAIN Plan -> Result]
  <2>1. CASE NextStage = "stop"
    BY <2>1 DEF WorkloadEnds, Result
  <2>2. CASE NextStage # "stop"
    <3>1. PICK throughput \in {"good", "bad"}, cpu \in {"good", "bad"} :
          workloads' = [workloads EXCEPT ![current] =
              [latencies |-> load.latencies, throughput |-> throughput, cpu |-> cpu]]
      BY <2>2 DEF WorkloadEnds
    <3>2. [latencies |-> load.latencies, throughput |-> throughput, cpu |-> cpu] \in Result
      BY DEF Result
    <3>3. workloads \in [DOMAIN Plan -> Result]
      BY DEF Result
    <3> QED
      BY <3>1, <3>2, <3>3
  <2> QED
    BY <2>1, <2>2
<1> QED
  BY <1>1, <1>2, <1>3, <1>4, <1>5
  DEF WorkloadEnds, Loads, Result, Mains, TryStages

\* Every step keeps the types.
LEMMA TypeOKStep ==
    ASSUME TypeOK, [Next]_vars
    PROVE  TypeOK'
<1>1. CASE UNCHANGED vars
  BY <1>1 DEF TypeOK, vars
<1>2. CASE Next
  BY <1>2, TypeOfMain, TypeOfRss, TypeOfRequests, TypeOfWorkload, Zenon DEF Next, Step
<1> QED
  BY <1>1, <1>2

-----------------------------------------------------------------------------
(* Requests. *)

\* An answer adds one to the number of latencies.
LEMMA NumberGrows ==
    ASSUME NEW latencies \in Latencies, NEW class \in Classes
    PROVE  Number([latencies EXCEPT ![class] = @ + 1]) = Number(latencies) + 1
BY SMTT(30) DEF Latencies, Classes, Number

\* What the end of one request does to the load.
LEMMA AnsweredLoad ==
    ASSUME TypeOK, Answered
    PROVE  /\ stage' = stage /\ current' = current /\ load.inflight > 0
           /\ load'.waiting = load.waiting /\ load'.inflight = load.inflight - 1
           /\ load'.errors = load.errors
           /\ Number(load'.latencies) = Number(load.latencies) + 1
<1>1. load \in Loads
  BY DEF TypeOK, Loads
<1>2. PICK class \in Classes :
      load' = [load EXCEPT !.inflight = @ - 1, !.latencies[class] = @ + 1]
  BY DEF Answered, ClassesOf
<1>3. stage' = stage /\ current' = current /\ load.inflight > 0
  BY Zenon DEF Answered
<1>4. /\ load'.waiting = load.waiting /\ load'.inflight = load.inflight - 1
      /\ load'.errors = load.errors
      /\ load'.latencies = [load.latencies EXCEPT ![class] = @ + 1]
  BY <1>1, <1>2 DEF Loads
<1>5. load.latencies \in Latencies
  BY <1>1 DEF Loads
<1>6. Number([load.latencies EXCEPT ![class] = @ + 1]) = Number(load.latencies) + 1
  BY <1>5, NumberGrows
<1> QED
  BY <1>3, <1>4, <1>6

\* A load that is submitted.
LEMMA Submitted ==
    ASSUME NEW i \in DOMAIN Plan
    PROVE  LET submitted == [NoLoad EXCEPT !.waiting = Plan[i].count] IN
           submitted.waiting + submitted.inflight + submitted.errors
               + Number(submitted.latencies) = Plan[i].count
<1>1. Plan[i].count \in Nat
  BY PlanCounts
<1>2. Number(NoLatencies) = 0
  BY DEF Number, NoLatencies, Classes
<1> QED
  BY <1>1, <1>2 DEF NoLoad

\* Every step keeps the account of the requests.
LEMMA LoadStep ==
    ASSUME TypeOK, LoadOK, [Next]_vars
    PROVE  LoadOK'
<1> USE DEF LoadOK, RequestsConserved, Idle
<1>0. /\ load \in Loads /\ lingering \in 0..MaxLingering /\ current \in DOMAIN Plan
      /\ Number(load.latencies) \in Nat /\ main \in Mains
  <2>1. /\ load \in Loads /\ lingering \in 0..MaxLingering /\ current \in DOMAIN Plan
        /\ main \in Mains
    BY DEF TypeOK, Loads, Mains
  <2> QED
    BY <2>1, NumberType DEF Loads
<1>1. CASE UNCHANGED vars
  BY <1>1 DEF vars
<1>2. ASSUME stage # "workload", stage' # "workload", UNCHANGED <<load, lingering>>,
             stage' # "rss_after_soak",
             stage' = "stop" => main'.raised \/ (stage = "stop" /\ main'.raised = main.raised)
      PROVE  LoadOK'
  BY <1>2
<1>3. CASE Prepare
  BY <1>2, <1>3 DEF Prepare, Go, measurements
<1>4. CASE Raise
  BY <1>0, <1>2, <1>4 DEF Raise, Go, measurements, TryStages, Mains
<1>5. CASE Validate
  BY <1>2, <1>5 DEF Validate, Go, measurements
<1>6. CASE Spawn
  BY <1>2, <1>6 DEF Spawn, Go, measurements
<1>7. CASE Record
  BY <1>2, <1>7 DEF Record, Go, measurements
<1>8. CASE AdminReady
  BY <1>0, <1>8, Submitted DEF AdminReady, Go, SubmitAll
<1>9. CASE Connect
  <2>1. /\ stage' = stage /\ current' = current /\ load.waiting > 0
        /\ load'.waiting = load.waiting - 1 /\ load'.inflight = load.inflight + 1
        /\ load'.errors = load.errors /\ load'.latencies = load.latencies
        /\ lingering' = lingering
    BY <1>0, <1>9 DEF Connect, Loads
  <2>2. stage = "workload"
    BY <1>0, <2>1 DEF Loads
  <2> QED
    BY <1>0, <2>1, <2>2 DEF Loads
<1>10. CASE Answered
  <2>1. stage = "workload"
    BY <1>0, <1>10, AnsweredLoad DEF Loads
  <2> QED
    BY <1>0, <1>10, <2>1, AnsweredLoad DEF Loads
<1>11. CASE Fails
  <2>1. /\ stage' = stage /\ current' = current /\ load.inflight > 0
        /\ load'.waiting = load.waiting /\ load'.inflight = load.inflight - 1
        /\ load'.errors = load.errors + 1 /\ load'.latencies = load.latencies
    BY <1>0, <1>11 DEF Fails, Loads
  <2>2. stage = "workload"
    BY <1>0, <2>1 DEF Loads
  <2> QED
    BY <1>0, <2>1, <2>2 DEF Loads
<1>12. CASE WorkloadEnds
  <2>1. stage = "workload" /\ load.waiting = 0 /\ load.inflight = 0 /\ stage' = NextStage
    BY <1>12 DEF WorkloadEnds, Go
  <2>2. NextStage \in {"stop", "workload", "rss_baseline", "gauges"}
    BY DEF NextStage
  <2>3. CASE NextStage = "stop"
    <3>1. main.raised \/ Failed
      BY <2>3 DEF NextStage
    <3>2. main'.raised
      BY <1>0, <1>12, <3>1 DEF WorkloadEnds, Mains
    <3> QED
      BY <1>12, <2>1, <2>3, <3>2 DEF WorkloadEnds
  <2>4. CASE NextStage = "workload"
    <3>1. current' = current + 1 /\ load' = [NoLoad EXCEPT !.waiting = Plan[current + 1].count]
      BY <1>12, <2>4 DEF WorkloadEnds, SubmitAll
    <3>2. current + 1 \in DOMAIN Plan
      BY <1>0, <2>4, PlanCounts DEF NextStage
    <3> QED
      BY <2>1, <2>4, <3>1, <3>2, Submitted
  <2>5. CASE NextStage \in {"rss_baseline", "gauges"}
    <3>1. load' = NoLoad
      BY <1>12, <2>5 DEF WorkloadEnds
    <3> QED
      BY <2>1, <2>5, <3>1 DEF NoLoad
  <2> QED
    BY <2>2, <2>3, <2>4, <2>5
<1>13. CASE ReadRssBaseline
  <2>1. CASE Len(Plan) = 1
    BY <1>13, <2>1 DEF ReadRssBaseline, Go
  <2>2. CASE Len(Plan) # 1
    <3>1. 2 \in DOMAIN Plan
      BY <2>2, PlanCounts
    <3>2. stage' = "workload" /\ current' = 2 /\ load' = [NoLoad EXCEPT !.waiting = Plan[2].count]
      BY <1>13, <2>2 DEF ReadRssBaseline, Go, SubmitAll
    <3> QED
      BY <3>1, <3>2, Submitted
  <2> QED
    BY <2>1, <2>2
<1>14. CASE ZeroGauges
  BY <1>14 DEF ZeroGauges, Go, measurements
<1>15. CASE ReadRssAfterSoak
  BY <1>15 DEF ReadRssAfterSoak, Go
<1>16. CASE Stopped
  BY <1>2, <1>16 DEF Stopped, Go, measurements
<1>17. CASE Signal
  <2>1. main'.raised = main.raised /\ stage = "stop" /\ stage' = stage
    BY <1>0, <1>17 DEF Signal, Mains
  <2> QED
    BY <1>2, <1>17, <2>1 DEF Signal, measurements
<1>18. CASE Evaluate
  BY <1>2, <1>18 DEF Evaluate, Go, measurements
<1>19. CASE Write
  BY <1>2, <1>19 DEF Write, Go, measurements
<1>20. CASE CutShort
  BY <1>2, <1>20 DEF CutShort, Go, measurements
<1>21. CASE Interrupt
  <2>1. UNCHANGED <<current, load, lingering>>
    BY <1>21 DEF Interrupt, measurements
  <2>2. \/ stage = "workload" /\ stage' = "workload"
        \/ stage # "workload" /\ stage' = "stop" /\ main'.raised
        \/ stage # "workload" /\ stage' = "interrupted"
    BY <1>0, <1>21 DEF Interrupt, Go, TryStages, LastStages, Mains
  <2> QED
    BY <2>1, <2>2
<1>22. CASE EnvoyReady
  BY <1>22 DEF EnvoyReady, measurements
<1>23. CASE EnvoyDies
  BY <1>23 DEF EnvoyDies, measurements
<1>24. CASE DestroyStream
  BY <1>0, <1>24 DEF DestroyStream, measurements
<1>25. CASE WaitExpires
  BY <1>2, <1>25 DEF WaitExpires, Go, measurements
<1> QED
  BY <1>1, <1>3, <1>4, <1>5, <1>6, <1>7, <1>8, <1>9, <1>10, <1>11, <1>12, <1>13, <1>14,
     <1>15, <1>16, <1>17, <1>18, <1>19, <1>20, <1>21, <1>22, <1>23, <1>24, <1>25
  DEF Next, Step

-----------------------------------------------------------------------------
(* Envoy. *)

\* Every step keeps what is known of Envoy.
LEMMA EnvoyStep ==
    ASSUME TypeOK, EnvoyOK, [Next]_vars
    PROVE  EnvoyOK'
<1> USE DEF EnvoyOK, EnvoyStopped, Alive, LastStages
<1>0. /\ stage \in {"prepare", "stop"} \cup TryStages \cup LastStages \cup Ends
      /\ envoy \in [state : {"none", "starting", "ready", "dead"}, recorded : BOOLEAN]
      /\ main \in Mains
  BY DEF TypeOK, Mains
<1>1. CASE UNCHANGED vars
  BY <1>1 DEF vars
<1>2. CASE Prepare
  BY <1>2 DEF Prepare, Go
<1>3. CASE Raise
  BY <1>0, <1>3 DEF Raise, Go, TryStages, Mains
<1>4. CASE Validate
  BY <1>4 DEF Validate, Go
<1>5. CASE Spawn
  BY <1>0, <1>5 DEF Spawn, Go
<1>6. CASE Record
  BY <1>0, <1>6 DEF Record, Go
<1>7. CASE AdminReady
  BY <1>7 DEF AdminReady, Go
<1>8. CASE Connect
  BY <1>8 DEF Connect
<1>9. CASE Answered
  <2>1. UNCHANGED <<stage, envoy, main>>
    BY <1>9, Zenon DEF Answered
  <2> QED
    BY <2>1
<1>10. CASE Fails
  <2>1. UNCHANGED <<stage, envoy, main>>
    BY <1>10, Zenon DEF Fails
  <2> QED
    BY <2>1
<1>11. CASE WorkloadEnds
  <2>1. /\ stage = "workload" /\ stage' \in {"stop", "workload", "rss_baseline", "gauges"}
        /\ envoy' = envoy
        /\ main'.interrupted = main.interrupted /\ (main.raised => main'.raised)
    <3>1. NextStage \in {"stop", "workload", "rss_baseline", "gauges"}
      BY DEF NextStage
    <3>2. main' = [main EXCEPT !.raised = @ \/ Failed]
      BY <1>11, Zenon DEF WorkloadEnds
    <3>3. main'.interrupted = main.interrupted /\ (main.raised => main'.raised)
      BY <1>0, <3>2 DEF Mains
    <3>4. stage = "workload" /\ stage' = NextStage /\ envoy' = envoy
      BY <1>11, Zenon DEF WorkloadEnds, Go
    <3> QED
      BY <3>1, <3>3, <3>4
  <2> QED
    BY <2>1
<1>12. CASE ReadRssBaseline
  BY <1>12 DEF ReadRssBaseline, Go
<1>13. CASE ZeroGauges
  BY <1>13 DEF ZeroGauges, Go
<1>14. CASE ReadRssAfterSoak
  BY <1>14 DEF ReadRssAfterSoak, Go
<1>15. CASE Stopped
  BY <1>0, <1>15 DEF Stopped, Go, NeedsStop
<1>16. CASE Signal
  BY <1>0, <1>16 DEF Signal, Mains
<1>17. CASE Evaluate
  BY <1>0, <1>17 DEF Evaluate, Go, Mains
<1>18. CASE Write
  BY <1>0, <1>18 DEF Write, Go
<1>19. CASE CutShort
  BY <1>19 DEF CutShort, Go
<1>20. CASE Interrupt
  <2>1. CASE stage \in TryStages
    BY <1>0, <1>20, <2>1 DEF Interrupt, Go, Mains, TryStages
  <2>2. CASE stage \notin TryStages
    BY <1>0, <1>20, <2>2 DEF Interrupt, Go, TryStages
  <2> QED
    BY <2>1, <2>2
<1>21. CASE EnvoyReady
  BY <1>0, <1>21 DEF EnvoyReady
<1>22. CASE EnvoyDies
  BY <1>0, <1>22 DEF EnvoyDies
<1>23. CASE DestroyStream
  BY <1>23 DEF DestroyStream
<1>24. CASE WaitExpires
  BY <1>24 DEF WaitExpires, Go
<1> QED
  BY <1>1, <1>2, <1>3, <1>4, <1>5, <1>6, <1>7, <1>8, <1>9, <1>10, <1>11, <1>12, <1>13, <1>14,
     <1>15, <1>16, <1>17, <1>18, <1>19, <1>20, <1>21, <1>22, <1>23, <1>24
  DEF Next, Step

\* Every step keeps what is known of the baseline.
LEMMA BaselineStep ==
    ASSUME TypeOK, BaselineOK, [Next]_vars
    PROVE  BaselineOK'
<1> USE DEF BaselineOK, LastStages, Go, measurements
<1>0. /\ stage \in {"prepare", "stop"} \cup TryStages \cup LastStages \cup Ends
      /\ envoy \in [state : {"none", "starting", "ready", "dead"}, recorded : BOOLEAN]
      /\ rss \in [baseline : 0..MaxRss, after_soak : 0..MaxRss]
      /\ main \in Mains
  BY DEF TypeOK, Mains
<1>1. ASSUME UNCHANGED <<stage, current, rss, envoy>>, main'.raised = main.raised
      PROVE  BaselineOK'
  BY <1>1
<1>2. ASSUME \/ stage' \in {"2", "cut", "interrupted"}
             \/ stage' = "stop" /\ main'.raised
      PROVE  BaselineOK'
  BY <1>2
<1>3. CASE UNCHANGED vars
  BY <1>1, <1>3 DEF vars
<1>4. CASE Prepare \/ Validate \/ Spawn \/ Record
  BY <1>4 DEF Prepare, Validate, Spawn, Record
<1>19. CASE WaitExpires \/ CutShort
  BY <1>2, <1>19 DEF WaitExpires, CutShort
<1>5. CASE Raise
  BY <1>0, <1>2, <1>5 DEF Raise, Mains
<1>6. CASE AdminReady
  <2>1. stage' = "workload" /\ UNCHANGED <<current, rss, envoy>> /\ envoy.state = "ready"
    BY <1>6 DEF AdminReady
  <2> QED
    BY <1>6, <2>1 DEF AdminReady
<1>7. CASE Connect \/ Answered \/ Fails \/ DestroyStream
  <2>1. UNCHANGED <<stage, current, rss, envoy, main>>
    BY <1>7, Zenon DEF Connect, Answered, Fails, DestroyStream
  <2> QED
    BY <1>1, <2>1
<1>8. CASE WorkloadEnds
  <2>1. stage = "workload" /\ stage' = NextStage /\ rss' = rss /\ envoy' = envoy
    BY <1>8, Zenon DEF WorkloadEnds
  <2>2. CASE NextStage = "stop"
    <3>1. main.raised \/ Failed
      BY <2>2 DEF NextStage
    <3>2. main'.raised
      BY <1>0, <1>8, <3>1 DEF WorkloadEnds, Mains
    <3> QED
      BY <1>2, <2>1, <2>2, <3>2
  <2>3. CASE NextStage = "rss_baseline"
    BY <2>1, <2>3
  <2>4. CASE NextStage \in {"gauges", "workload"}
    <3>1. current # 1
      BY <2>4 DEF NextStage
    <3>2. envoy.state \in {"ready", "dead"} /\ (envoy.state = "ready" => rss.baseline # 0)
      BY <2>1, <3>1
    <3> QED
      BY <2>1, <2>4, <3>2
  <2> QED
    BY <2>2, <2>3, <2>4 DEF NextStage
<1>9. CASE ReadRssBaseline
  <2>1. stage = "rss_baseline" /\ stage' \in {"gauges", "workload"} /\ envoy' = envoy
    BY <1>9 DEF ReadRssBaseline
  <2>2. rss'.baseline \in Rss
    BY <1>0, <1>9 DEF ReadRssBaseline
  <2>3. envoy.state = "ready" => rss'.baseline # 0
    BY <2>2 DEF Rss
  <2> QED
    BY <2>1, <2>3
<1>10. CASE ZeroGauges
  BY <1>10 DEF ZeroGauges
<1>11. CASE ReadRssAfterSoak
  BY <1>0, <1>11 DEF ReadRssAfterSoak
<1>12. CASE Stopped
  BY <1>12 DEF Stopped
<1>13. CASE Signal
  <2>1. UNCHANGED <<stage, current, rss, envoy>> /\ main'.raised = main.raised
    BY <1>0, <1>13 DEF Signal, Mains
  <2> QED
    BY <1>1, <2>1
<1>14. CASE Evaluate
  BY <1>14 DEF Evaluate
<1>15. CASE Write
  BY <1>15 DEF Write
<1>16. CASE Interrupt
  <2>1. CASE stage = "workload"
    BY <1>16, <2>1 DEF Interrupt, TryStages
  <2>2. CASE stage # "workload"
    <3>1. stage' = "interrupted" \/ (stage' = "stop" /\ main'.raised)
      BY <1>0, <1>16, <2>2 DEF Interrupt, TryStages, Mains
    <3> QED
      BY <1>2, <3>1
  <2> QED
    BY <2>1, <2>2
<1>17. CASE EnvoyReady
  <2>1. /\ stage \notin {"workload", "rss_baseline", "gauges"}
        /\ UNCHANGED <<stage, current, rss, main>>
    BY <1>17 DEF EnvoyReady
  <2> QED
    BY <2>1
<1>18. CASE EnvoyDies
  <2>1. envoy'.state = "dead" /\ UNCHANGED <<stage, current, rss, main>>
    BY <1>0, <1>18 DEF EnvoyDies
  <2> QED
    BY <2>1
<1> QED
  BY <1>3, <1>4, <1>5, <1>6, <1>7, <1>8, <1>9, <1>10, <1>11, <1>12, <1>13, <1>14, <1>15,
     <1>16, <1>17, <1>18, <1>19
  DEF Next, Step

\* The memory after the soak.
LEMMA SoakStep ==
    ASSUME TypeOK, SoakOK, [Next]_vars
    PROVE  SoakOK'
<1> USE DEF SoakOK, LastStages, Ends, Alive
<1>0. /\ stage \in {"prepare", "stop"} \cup TryStages \cup LastStages \cup Ends
      /\ envoy \in [state : {"none", "starting", "ready", "dead"}, recorded : BOOLEAN]
      /\ rss \in [baseline : 0..MaxRss, after_soak : 0..MaxRss]
      /\ main \in Mains
  BY DEF TypeOK, Mains
<1>1. ASSUME UNCHANGED <<stage, rss, envoy, main>>
      PROVE  SoakOK'
  BY <1>1
<1>2. ASSUME \/ stage' \in {"2", "cut", "interrupted"}
             \/ stage' = "stop" /\ main'.raised
      PROVE  SoakOK'
  BY <1>2
<1>3. ASSUME stage' \in {"prepare"} \cup TryStages, stage' # "rss_after_soak",
             main'.waiting = main.waiting, stage \in {"prepare"} \cup TryStages
      PROVE  SoakOK'
  BY <1>3 DEF TryStages
<1>4. CASE UNCHANGED vars
  BY <1>1, <1>4 DEF vars, measurements
<1>5. CASE Prepare
  <2>1. \/ stage' = "validate" /\ main' = main /\ stage = "prepare"
        \/ stage' = "2"
    BY <1>5 DEF Prepare, Go
  <2> QED
    BY <1>2, <1>3, <2>1 DEF TryStages
<1>6. CASE Validate \/ Spawn \/ Record \/ AdminReady
  <2>1. /\ stage' \in {"spawn", "record", "wait_for_admin", "workload"} /\ main' = main
        /\ stage \in TryStages
    BY <1>6 DEF Validate, Spawn, Record, AdminReady, Go, TryStages
  <2> QED
    BY <1>3, <2>1 DEF TryStages
<1>7. CASE Raise
  <2>1. stage' = "stop" /\ main'.raised
    BY <1>0, <1>7 DEF Raise, Mains, Go
  <2> QED
    BY <1>2, <2>1
<1>8. CASE Connect \/ Answered \/ Fails \/ DestroyStream
  <2>1. UNCHANGED <<stage, rss, envoy, main>>
    BY <1>8 DEF Connect, Answered, Fails, DestroyStream, measurements
  <2> QED
    BY <1>1, <2>1
<1>9. CASE WorkloadEnds
  <2>1. stage = "workload" /\ stage' = NextStage
    BY <1>9, Zenon DEF WorkloadEnds, Go
  <2>2. main'.waiting = main.waiting
    BY <1>0, <1>9 DEF WorkloadEnds, Mains
  <2>3. CASE NextStage = "stop"
    <3>1. main.raised \/ Failed
      BY <2>3 DEF NextStage
    <3>2. main'.raised
      BY <1>0, <1>9, <3>1 DEF WorkloadEnds, Mains
    <3> QED
      BY <1>2, <2>1, <2>3, <3>2
  <2>4. CASE NextStage \in {"rss_baseline", "gauges", "workload"}
    BY <1>3, <2>1, <2>2, <2>4 DEF TryStages
  <2> QED
    BY <2>3, <2>4 DEF NextStage
<1>10. CASE ReadRssBaseline
  <2>1. stage = "rss_baseline" /\ stage' \in {"gauges", "workload"} /\ main' = main
    BY <1>10 DEF ReadRssBaseline, Go
  <2> QED
    BY <1>3, <2>1 DEF TryStages
<1>11. CASE ZeroGauges
  BY <1>11 DEF ZeroGauges, Go
<1>12. CASE ReadRssAfterSoak
  <2>1. /\ stage = "rss_after_soak" /\ stage' = "stop" /\ envoy' = envoy /\ main' = main
        /\ rss'.after_soak \in Rss
    BY <1>0, <1>12 DEF ReadRssAfterSoak, Go
  <2>2. envoy.state = "ready" => rss'.after_soak # 0
    BY <2>1 DEF Rss
  <2> QED
    BY <2>1, <2>2
<1>13. CASE Stopped
  BY <1>13 DEF Stopped, Go, measurements
<1>14. CASE Signal
  <2>1. stage = "stop" /\ Alive /\ UNCHANGED <<stage, rss, envoy>>
    BY <1>14 DEF Signal, NeedsStop, measurements
  <2>2. main'.raised = main.raised
    BY <1>0, <1>14 DEF Signal, Mains
  <2> QED
    BY <2>1, <2>2
<1>15. CASE Evaluate
  <2>1. stage = "evaluate" /\ stage' = "write_json" /\ UNCHANGED <<rss, envoy>>
    BY <1>15 DEF Evaluate, Go, measurements
  <2>2. main'.waiting = main.waiting
    BY <1>0, <1>15 DEF Evaluate, Mains
  <2> QED
    BY <2>1, <2>2
<1>16. CASE Write
  BY <1>16 DEF Write, Go, measurements
<1>17. CASE Interrupt
  <2>1. CASE stage = "workload"
    <3>1. stage' = stage /\ main'.waiting = main.waiting
      BY <1>0, <1>17, <2>1 DEF Interrupt, TryStages, Mains, Go
    <3> QED
      BY <1>3, <2>1, <3>1 DEF TryStages
  <2>2. CASE stage # "workload"
    <3>1. stage' = "interrupted" \/ (stage' = "stop" /\ main'.raised)
      BY <1>0, <1>17, <2>2 DEF Interrupt, TryStages, Mains, Go
    <3> QED
      BY <1>2, <3>1
  <2> QED
    BY <2>1, <2>2
<1>18. CASE EnvoyReady
  <2>1. /\ envoy.state = "starting" /\ envoy'.state = "ready"
        /\ UNCHANGED <<stage, rss, main>>
    BY <1>0, <1>18 DEF EnvoyReady, measurements
  <2> QED
    BY <2>1
<1>19. CASE EnvoyDies
  <2>1. envoy'.state = "dead" /\ UNCHANGED <<stage, rss, main>>
    BY <1>0, <1>19 DEF EnvoyDies, measurements
  <2> QED
    BY <2>1
<1>20. CASE WaitExpires \/ CutShort
  BY <1>2, <1>20 DEF WaitExpires, CutShort, Go
<1> QED
  BY <1>4, <1>5, <1>6, <1>7, <1>8, <1>9, <1>10, <1>11, <1>12, <1>13, <1>14, <1>15, <1>16,
     <1>17, <1>18, <1>19, <1>20
  DEF Next, Step

-----------------------------------------------------------------------------
(* Results. *)

\* What was measured decides what is violated and what is complete.
LEMMA SameResults ==
    ASSUME UNCHANGED <<workloads, rss>>
    PROVE  /\ violations' = violations
           /\ AllCompleted' = AllCompleted
           /\ \A i \in DOMAIN Plan : Completed(i)' = Completed(i)
<1>1. violations' = violations
  BY DEF violations, Violates
<1>2. \A i \in DOMAIN Plan : Completed(i)' = Completed(i)
  BY DEF Completed
<1>3. AllCompleted' = AllCompleted
  BY DEF AllCompleted, Completed
<1> QED
  BY <1>1, <1>2, <1>3

\* A workload of which no request failed is complete when it ends.
LEMMA EndIsComplete ==
    ASSUME TypeOK, LoadOK, WorkloadEnds, NextStage # "stop"
    PROVE  \A i \in DOMAIN Plan :
               IF i = current THEN Completed(i)' ELSE Completed(i)' = Completed(i)
<1>1. load \in Loads /\ current \in DOMAIN Plan /\ workloads \in [DOMAIN Plan -> Result]
  BY DEF TypeOK, Loads, Result
<1>2. stage = "workload" /\ load.waiting = 0 /\ load.inflight = 0
  BY Zenon DEF WorkloadEnds
<1>3. load.errors = 0
  BY <1>1 DEF NextStage, Failed, Loads
<1>4. Number(load.latencies) = Plan[current].count
  <2>1. Number(load.latencies) \in Nat
    BY <1>1, NumberType DEF Loads
  <2>2. load.waiting + load.inflight + load.errors + Number(load.latencies)
            = Plan[current].count
    BY <1>2 DEF LoadOK, RequestsConserved
  <2> QED
    BY <1>2, <1>3, <2>1, <2>2
<1>5. PICK throughput, cpu :
      workloads' = [workloads EXCEPT
          ![current] = [latencies |-> load.latencies, throughput |-> throughput,
                        cpu |-> cpu]]
  BY DEF WorkloadEnds
<1>6. workloads'[current].latencies = load.latencies
  BY <1>1, <1>5
<1>7. \A i \in DOMAIN Plan : i # current => workloads'[i] = workloads[i]
  BY <1>1, <1>5
<1> QED
  BY <1>4, <1>6, <1>7 DEF Completed

\* Every step keeps what is known of the results.
LEMMA ResultsStep ==
    ASSUME TypeOK, LoadOK, ResultsOK, [Next]_vars
    PROVE  ResultsOK'
<1>0. /\ stage \in {"prepare", "stop"} \cup TryStages \cup LastStages \cup Ends
      /\ current \in DOMAIN Plan
      /\ main \in Mains
      /\ DOMAIN Plan = 1..Len(Plan) /\ Len(Plan) \in Nat \ {0}
  BY PlanCounts DEF TypeOK, Mains
<1> DEFINE First == {"prepare", "validate", "spawn", "record", "wait_for_admin", "workload"}
           Over == {"2", "cut", "interrupted"}
<1>1. ASSUME UNCHANGED <<stage, workloads, rss, current>>,
             main'.passed = main.passed, main.raised => main'.raised
      PROVE  ResultsOK'
  <2>1. (\A i \in DOMAIN Plan : i < current => Completed(i))'
    BY <1>1, SameResults DEF ResultsOK
  <2>2. (stage = "rss_baseline" => current = 1 /\ Completed(1))'
    BY <1>1, <1>0, SameResults DEF ResultsOK
  <2>3. /\ (stage \in {"gauges", "rss_after_soak", "0", "1"} \cup LastStages => AllCompleted)'
        /\ (stage = "stop" /\ ~ main.raised => AllCompleted)'
    BY <1>1, SameResults DEF ResultsOK, LastStages
  <2>4. (stage \in {"write_json", "write_markdown"} => (main.passed => violations = {}))'
    BY <1>1, SameResults DEF ResultsOK
  <2>5. (stage = "0" /\ Enforce => violations = {})'
    BY <1>1, SameResults DEF ResultsOK
  <2> QED
    BY <2>1, <2>2, <2>3, <2>4, <2>5, Zenon DEF ResultsOK
<1>2. ASSUME UNCHANGED <<workloads, rss, current>>,
             \/ stage' \in First \cup Over
             \/ stage' = "stop" /\ main'.raised
      PROVE  ResultsOK'
  BY <1>2, SameResults DEF ResultsOK, LastStages
<1>3. CASE UNCHANGED vars
  BY <1>1, <1>3 DEF vars
<1>4. CASE Prepare
  BY <1>2, <1>4 DEF Prepare, Go, measurements
<1>5. CASE Raise
  <2>1. main'.raised
    BY <1>0, <1>5 DEF Raise, Mains
  <2> QED
    BY <1>2, <1>5, <2>1 DEF Raise, Go, measurements
<1>6. CASE Validate
  BY <1>2, <1>6 DEF Validate, Go, measurements
<1>7. CASE Spawn
  BY <1>2, <1>7 DEF Spawn, Go, measurements
<1>8. CASE Record
  BY <1>2, <1>8 DEF Record, Go, measurements
<1>9. CASE AdminReady
  BY <1>2, <1>9 DEF AdminReady, Go
<1>10. CASE Connect
  BY <1>1, <1>10 DEF Connect
<1>11. CASE Answered
  <2>1. UNCHANGED <<stage, current, workloads, rss, main>>
    BY <1>11, Zenon DEF Answered
  <2> QED
    BY <1>1, <2>1
<1>12. CASE Fails
  <2>1. UNCHANGED <<stage, current, workloads, rss, main>>
    BY <1>12, Zenon DEF Fails
  <2> QED
    BY <1>1, <2>1
<1>13. CASE WorkloadEnds
  <2>1. stage = "workload" /\ stage' = NextStage /\ rss' = rss
    BY <1>13, Zenon DEF WorkloadEnds, Go
  <2>2. CASE NextStage = "stop"
    <3>1. workloads' = workloads /\ current' = current
      BY <1>13, <2>2, Zenon DEF WorkloadEnds
    <3>2. main' = [main EXCEPT !.raised = @ \/ Failed]
      BY <1>13, Zenon DEF WorkloadEnds
    <3>3. main.raised \/ Failed
      BY <2>2 DEF NextStage
    <3>4. main'.raised
      BY <1>0, <3>2, <3>3 DEF Mains
    <3> QED
      BY <1>2, <2>1, <2>2, <3>1, <3>4
  <2>3. CASE NextStage # "stop"
    <3>1. \A i \in DOMAIN Plan : i <= current => Completed(i)'
      <4>1. \A i \in DOMAIN Plan : i < current => Completed(i)
        BY DEF ResultsOK
      <4>2. \A i \in DOMAIN Plan : i <= current => i < current \/ i = current
        BY <1>0
      <4>3. \A i \in DOMAIN Plan :
              IF i = current THEN Completed(i)' ELSE Completed(i)' = Completed(i)
        BY <1>13, <2>3, EndIsComplete
      <4>4. \A i \in DOMAIN Plan : i < current => i # current
        BY <1>0
      <4> QED
        BY <4>1, <4>2, <4>3, <4>4
    <3>2. CASE NextStage = "workload"
      <4>1. current' = current + 1
        BY <1>13, <2>3, <3>2, Zenon DEF WorkloadEnds
      <4>2. \A i \in DOMAIN Plan : i < current' => Completed(i)'
        BY <1>0, <3>1, <4>1
      <4> QED
        BY <2>1, <3>2, <4>2 DEF ResultsOK, LastStages
    <3>3. CASE NextStage # "workload"
      <4>1. current' = current
        BY <1>13, <2>3, <3>3, Zenon DEF WorkloadEnds
      <4>2. \A i \in DOMAIN Plan : i <= current' => Completed(i)'
        BY <3>1, <4>1
      <4>3. \A i \in DOMAIN Plan : i < current' => Completed(i)'
        BY <1>0, <4>1, <4>2
      <4>4. CASE current = 1 /\ NextStage = "rss_baseline"
        <5>1. current' = 1
          BY <4>1, <4>4
        <5>2. 1 \in DOMAIN Plan /\ 1 <= current'
          BY <1>0, <5>1
        <5>3. Completed(1)'
          BY <4>2, <5>2
        <5> QED
          BY <2>1, <4>3, <4>4, <5>1, <5>3 DEF ResultsOK, LastStages
      <4>5. CASE current = Len(Plan) /\ NextStage = "gauges"
        <5>1. \A i \in DOMAIN Plan : i <= current'
          BY <1>0, <4>1, <4>5
        <5>2. AllCompleted'
          BY <4>2, <5>1 DEF AllCompleted
        <5> QED
          BY <2>1, <4>3, <4>5, <5>2 DEF ResultsOK, LastStages
      <4> QED
        BY <2>3, <3>3, <4>4, <4>5 DEF NextStage
    <3> QED
      BY <3>2, <3>3
  <2> QED
    BY <2>2, <2>3
<1>14. CASE ReadRssBaseline
  <2>1. stage = "rss_baseline" /\ workloads' = workloads /\ current = 1 /\ Completed(1)
    BY <1>14 DEF ReadRssBaseline, ResultsOK
  <2>2. \A i \in DOMAIN Plan : Completed(i)' = Completed(i)
    BY <2>1 DEF Completed
  <2>3. CASE Len(Plan) = 1
    <3>1. stage' = "gauges" /\ current' = 1
      BY <1>14, <2>1, <2>3 DEF ReadRssBaseline, Go
    <3>2. \A i \in DOMAIN Plan : i = 1
      BY <1>0, <2>3
    <3>3. AllCompleted'
      BY <2>1, <2>2, <3>2 DEF AllCompleted
    <3>4. \A i \in DOMAIN Plan : ~ (i < current')
      BY <3>1, <3>2
    <3> QED
      BY <3>1, <3>3, <3>4 DEF ResultsOK, LastStages
  <2>4. CASE Len(Plan) # 1
    <3>1. stage' = "workload" /\ current' = 2
      BY <1>14, <2>4 DEF ReadRssBaseline, Go
    <3>2. \A i \in DOMAIN Plan : i < current' => i = 1
      BY <1>0, <3>1
    <3>3. \A i \in DOMAIN Plan : i < current' => Completed(i)'
      BY <2>1, <2>2, <3>2
    <3> QED
      BY <3>1, <3>3 DEF ResultsOK, LastStages
  <2> QED
    BY <2>3, <2>4
<1>15. CASE ZeroGauges
  BY <1>15, SameResults DEF ZeroGauges, Go, measurements, ResultsOK, LastStages
<1>16. CASE ReadRssAfterSoak
  <2>1. /\ stage = "rss_after_soak" /\ stage' = "stop"
        /\ workloads' = workloads /\ current' = current
    BY <1>16 DEF ReadRssAfterSoak, Go
  <2>2. AllCompleted' = AllCompleted /\ \A i \in DOMAIN Plan : Completed(i)' = Completed(i)
    BY <2>1 DEF AllCompleted, Completed
  <2> QED
    BY <2>1, <2>2 DEF ResultsOK, LastStages
<1>17. CASE Stopped
  <2>1. /\ stage = "stop" /\ UNCHANGED <<workloads, rss, current, main>>
        /\ \/ stage' = "evaluate" /\ ~ main.raised
           \/ stage' \in Over
    BY <1>17 DEF Stopped, Go, measurements
  <2>2. CASE stage' = "evaluate" /\ ~ main.raised
    BY <2>1, <2>2, SameResults DEF ResultsOK, LastStages
  <2> QED
    BY <1>2, <2>1, <2>2
<1>18. CASE Signal
  <2>1. UNCHANGED <<stage, workloads, rss, current>>
    BY <1>18 DEF Signal, measurements
  <2>2. main'.passed = main.passed /\ main'.raised = main.raised
    BY <1>0, <1>18 DEF Signal, Mains
  <2> QED
    BY <1>1, <2>1, <2>2
<1>19. CASE Evaluate
  <2>1. /\ stage = "evaluate" /\ stage' = "write_json"
        /\ UNCHANGED <<workloads, rss, current>>
    BY <1>19 DEF Evaluate, Go, measurements
  <2>2. main'.passed = (violations = {})
    BY <1>0, <1>19 DEF Evaluate, Mains
  <2> QED
    BY <2>1, <2>2, SameResults DEF ResultsOK, LastStages
<1>20. CASE Write
  <2>1. /\ UNCHANGED <<workloads, rss, current, main>>
        /\ \/ stage = "write_json" /\ stage' = "write_markdown"
           \/ stage = "write_markdown" /\ stage' = "1"
           \/ stage = "write_markdown" /\ stage' = "0" /\ (Enforce => main.passed)
           \/ stage' = "2"
    BY <1>20 DEF Write, Go, measurements
  <2> QED
    BY <2>1, SameResults DEF ResultsOK, LastStages
<1>21. CASE CutShort
  BY <1>2, <1>21 DEF CutShort, Go, measurements
<1>22. CASE Interrupt
  <2>1. UNCHANGED <<workloads, rss, current>>
    BY <1>22 DEF Interrupt, measurements
  <2>2. CASE stage \in TryStages
    <3>1. main'.raised /\ stage' \in {"workload", "stop"}
      BY <1>0, <1>22, <2>2 DEF Interrupt, Go, Mains, TryStages, LastStages
    <3> QED
      BY <1>2, <2>1, <3>1
  <2>3. CASE stage \notin TryStages
    <3>1. stage' = "interrupted"
      BY <1>22, <2>3 DEF Interrupt, Go, TryStages
    <3> QED
      BY <1>2, <2>1, <3>1
  <2> QED
    BY <2>2, <2>3
<1>23. CASE EnvoyReady
  BY <1>1, <1>23 DEF EnvoyReady, measurements
<1>24. CASE EnvoyDies
  BY <1>1, <1>24 DEF EnvoyDies, measurements
<1>25. CASE DestroyStream
  BY <1>1, <1>25 DEF DestroyStream, measurements
<1>26. CASE WaitExpires
  BY <1>2, <1>26 DEF WaitExpires, Go, measurements
<1> QED
  BY <1>3, <1>4, <1>5, <1>6, <1>7, <1>8, <1>9, <1>10, <1>11, <1>12, <1>13, <1>14, <1>15,
     <1>16, <1>17, <1>18, <1>19, <1>20, <1>21, <1>22, <1>23, <1>24, <1>25, <1>26
  DEF Next, Step

-----------------------------------------------------------------------------
(* The verdict. *)

\* A percentile within a limit leaves no more latencies beyond the limit than
\* lie above its rank.
LEMMA WithinLimit ==
    ASSUME NEW latencies \in Latencies, NEW percent \in Nat,
           NEW limit \in {"fast", "middling"},
           ~ Exceeds(percentile(latencies, percent), limit)
    PROVE  Beyond(latencies, limit) <= Number(latencies) - Rank(Number(latencies), percent)
<1> DEFINE n == Number(latencies)
           rank == Rank(n, percent)
<1>1. /\ latencies["fast"] \in Nat /\ latencies["middling"] \in Nat /\ latencies["slow"] \in Nat
      /\ n = latencies["fast"] + latencies["middling"] + latencies["slow"]
  BY DEF Latencies, Classes, Number
<1>2. rank \in Int
  <2>1. n \in Nat
    BY <1>1
  <2>2. (n * percent) \div 100 \in Int
    BY <2>1
  <2> QED
    BY <2>1, <2>2 DEF Rank
<1>3. percentile(latencies, percent) =
          IF rank <= latencies["fast"] THEN "fast"
          ELSE IF rank <= latencies["fast"] + latencies["middling"] THEN "middling"
          ELSE "slow"
  BY DEF percentile
<1> HIDE DEF n, rank
<1>4. Beyond(latencies, limit) <= n - rank
  <2>1. CASE limit = "fast"
    <3>1. rank <= latencies["fast"]
      BY <1>3, <2>1 DEF Exceeds
    <3>2. Beyond(latencies, limit) = latencies["middling"] + latencies["slow"]
      BY <2>1 DEF Beyond
    <3> QED
      BY <1>1, <1>2, <3>1, <3>2
  <2>2. CASE limit = "middling"
    <3>1. rank <= latencies["fast"] \/ rank <= latencies["fast"] + latencies["middling"]
      BY <1>3, <2>2 DEF Exceeds
    <3>2. Beyond(latencies, limit) = latencies["slow"]
      BY <2>2 DEF Beyond
    <3> QED
      BY <1>1, <1>2, <3>1, <3>2
  <2> QED
    BY <2>1, <2>2
<1> QED
  BY <1>4 DEF n, rank

\* The invariant gives what a pass means.
LEMMA PassIsEarned == Inv => PassedIsEarned
<1> SUFFICES ASSUME Inv, stage = "0", Enforce
             PROVE  PassedIsEarned
  BY DEF PassedIsEarned
<1>1. violations = {} /\ AllCompleted
  BY DEF Inv, ResultsOK
<1>2. workloads \in [DOMAIN Plan -> Result] /\ rss \in [baseline : 0..MaxRss, after_soak : 0..MaxRss]
  BY DEF Inv, TypeOK, Result
<1>3. rss.after_soak <= rss.baseline + MaxGrowth
  <2>1. ~ (rss.after_soak > rss.baseline + MaxGrowth)
    BY <1>1 DEF violations
  <2>2. rss.after_soak \in Nat /\ rss.baseline \in Nat /\ MaxGrowth \in Nat
    BY <1>2, BoundsAssumption
  <2> QED
    BY <2>1, <2>2
<1>4. ASSUME NEW i \in DOMAIN Plan, NEW what \in {"throughput", "p99", "cpu"}
      PROVE  ~ Violates(i, what)
  <2>1. <<i, what>> \in (DOMAIN Plan) \X {"throughput", "p99", "cpu"}
    OBVIOUS
  <2>2. <<i, what>>[1] = i /\ <<i, what>>[2] = what
    OBVIOUS
  <2>3. Violates(<<i, what>>[1], <<i, what>>[2]) => <<i, what>> \in violations
    BY <2>1, Zenon DEF violations
  <2> QED
    BY <1>1, <2>2, <2>3
<1>5. ASSUME NEW i \in DOMAIN Plan
      PROVE  Number(workloads[i].latencies) = Plan[i].count
  BY <1>1, <1>5 DEF AllCompleted, Completed
<1>6. ASSUME NEW i \in DOMAIN Plan, Plan[i].evaluated
      PROVE  /\ workloads[i].throughput = "good"
             /\ Plan[i].name = "pathological_regex" => workloads[i].cpu = "good"
             /\ Beyond(workloads[i].latencies, MaximumP99(Plan[i].name))
                    <= Plan[i].count - Rank(Plan[i].count, 99)
  <2>1. /\ ~ Violates(i, "throughput") /\ ~ Violates(i, "p99") /\ ~ Violates(i, "cpu")
    BY <1>4
  <2>2. workloads[i] \in Result
    BY <1>2
  <2>3. workloads[i].throughput = "good"
    BY <1>6, <2>1, <2>2 DEF Violates, Result
  <2>4. Plan[i].name = "pathological_regex" => workloads[i].cpu = "good"
    BY <1>6, <2>1, <2>2 DEF Violates, Result
  <2>5. ~ Exceeds(percentile(workloads[i].latencies, 99), MaximumP99(Plan[i].name))
    BY <1>6, <2>1, Zenon DEF Violates
  <2>6. workloads[i].latencies \in Latencies
    BY <2>2 DEF Result
  <2>7. MaximumP99(Plan[i].name) \in {"fast", "middling"}
    BY DEF MaximumP99
  <2>8. Beyond(workloads[i].latencies, MaximumP99(Plan[i].name))
            <= Number(workloads[i].latencies) - Rank(Number(workloads[i].latencies), 99)
    BY <2>5, <2>6, <2>7, WithinLimit
  <2>9. Number(workloads[i].latencies) = Plan[i].count
    BY <1>5
  <2> QED
    BY <2>3, <2>4, <2>8, <2>9
<1>7. rss.baseline # 0
  BY DEF Inv, BaselineOK
<1>8. main.waiting # "no" => rss.after_soak # 0
  BY DEF Inv, SoakOK
<1> QED
  BY <1>3, <1>5, <1>6, <1>7, <1>8 DEF PassedIsEarned, MaximumP99

-----------------------------------------------------------------------------
(* The theorems. *)

LEMMA InitInv == Init => Inv
<1> SUFFICES ASSUME Init
             PROVE  Inv
  OBVIOUS
<1>1. NoLatencies \in Latencies /\ Number(NoLatencies) = 0
  BY DEF NoLatencies, Latencies, Number, Classes
<1>2. load \in Loads
  BY LoadType DEF Init
<1>3. workloads \in [DOMAIN Plan -> Result]
  BY <1>1 DEF Init, NoResult, Result
<1>4. TypeOK
  <2>1. 1 \in DOMAIN Plan
    BY PlanCounts
  <2>2. rss \in [baseline : 0..MaxRss, after_soak : 0..MaxRss]
    BY BoundsAssumption DEF Init
  <2>3. lingering \in 0..MaxLingering
    BY BoundsAssumption DEF Init
  <2>4. /\ envoy \in [state : {"none", "starting", "ready", "dead"}, recorded : BOOLEAN]
        /\ main \in Mains
    BY DEF Init, Mains
  <2> QED
    BY <1>2, <1>3, <2>1, <2>2, <2>3, <2>4 DEF TypeOK, Init, Loads, Result, Mains
<1>5. LoadOK
  BY DEF Init, LoadOK, RequestsConserved, Idle, NoLoad
<1>6. EnvoyOK
  BY DEF Init, EnvoyOK, EnvoyStopped, Alive, LastStages
<1>7. ResultsOK
  <2>1. \A i \in DOMAIN Plan : ~ (i < current)
    BY PlanCounts DEF Init
  <2> QED
    BY <2>1 DEF Init, ResultsOK, LastStages
<1>8. BaselineOK
  BY DEF Init, BaselineOK, LastStages
<1>9. SoakOK
  BY DEF Init, SoakOK, LastStages, Ends, Alive
<1> QED
  BY <1>4, <1>5, <1>6, <1>7, <1>8, <1>9 DEF Inv

LEMMA NextInv == Inv /\ [Next]_vars => Inv'
BY TypeOKStep, LoadStep, EnvoyStep, BaselineStep, SoakStep, ResultsStep DEF Inv

LEMMA Invariance == Spec => []Inv
BY InitInv, NextInv, PTL DEF Spec

\* The account of main: no request of a workload is forgotten, memory is read
\* when the filter holds nothing, and Envoy ends with the run, unless it
\* outlives kill() for as long as it is waited for.
THEOREM RunAccounted == Spec => []RunIsAccounted
<1>1. Inv => RunIsAccounted
  BY DEF Inv, LoadOK, EnvoyOK, RunIsAccounted, QuietSinceGauges, Idle
<1> QED
  BY <1>1, Invariance, PTL

\* The exit code of main with --enforce: zero was earned by every workload
\* and measured against the memory of an Envoy that ran.
THEOREM EnforcedPass == Spec => []PassedIsEarned
BY Invariance, PassIsEarned, PTL
=============================================================================
