---------------------------- MODULE Filter_proofs ----------------------------
(***************************************************************************)
(* The filter's resources are accounted for on every path, a stream gets   *)
(* one verdict, and what is passed on has been inspected, whole and in     *)
(* order: for all limits, settings, routes, chunk lengths and engine       *)
(* answers.                                                                *)
(*                                                                         *)
(* What a helper of the class preserves is a predicate of the record it    *)
(* works on, so that it is proved once per helper and composed the way the *)
(* handlers compose the helpers.  The counters are typed in a step of      *)
(* their own: each proof names the new statistics before it builds the new *)
(* record from them.                                                       *)
(***************************************************************************)
EXTENDS FilterProperties, SequenceTheorems, TLAPS

\* The resources of a filter whose peers hold the given bytes.
Accounted(f, held) ==
    /\ f.used = f.charged + held
    /\ f.used <= BudgetLimit
    /\ f.stats.active_transactions = IF f.transaction THEN 1 ELSE 0
    /\ f.stats.modsecurity_buffer_bytes = f.charged
    /\ f.charged # 0 => f.transaction
    /\ f.resources_released => ~ f.transaction

\* What every helper preserves.
Sound(f, held) == f \in FilterType /\ held \in Nat /\ Accounted(f, held)

-----------------------------------------------------------------------------
(* Counters *)

\* Two statistics whose gauges agree.
SameGauges(s, t) ==
    /\ s.active_transactions = t.active_transactions
    /\ s.modsecurity_buffer_bytes = t.modsecurity_buffer_bytes

\* Two filters of which neither has got or lost a transaction.
SameResources(f, g) ==
    /\ f.transaction = g.transaction
    /\ f.replying = g.replying
    /\ f.resources_released = g.resources_released

\* Changing a counter that is not a gauge disturbs nothing.
LEMMA Recounted ==
    ASSUME NEW f, NEW held, Sound(f, held), NEW s \in Stats, SameGauges(s, f.stats)
    PROVE  Sound([f EXCEPT !.stats = s], held)
BY DEF Sound, Accounted, FilterType, SameGauges

\* thresholdExceeded counts upwards.
LEMMA CountType ==
    ASSUME NEW c \in Counters, NEW where
    PROVE  Count(c, where) \in Counters
BY DEF Counters, Count

\* A counter of one path counts upwards.
LEMMA Bump ==
    ASSUME NEW c \in Counters, NEW path \in Paths
    PROVE  [c EXCEPT ![path] = @ + 1] \in Counters
BY DEF Counters

-----------------------------------------------------------------------------
(* Events, logging and release *)

\* releaseResources gives back exactly what the stream holds; the guard on
\* resources_released makes a second call harmless.
LEMMA ReleaseSound ==
    ASSUME NEW f, NEW held, Sound(f, held)
    PROVE  Sound(ReleaseResources(f), held)
<1>1. CASE f.resources_released
    BY <1>1 DEF ReleaseResources
<1>2. CASE ~ f.resources_released
    <2> DEFINE s == [f.stats EXCEPT !.active_transactions = 0,
                                    !.modsecurity_buffer_bytes = 0]
    <2>1. f \in FilterType /\ f.stats \in Stats /\ held \in Nat
        BY DEF Sound, FilterType
    <2>2. s \in Stats /\ s.active_transactions = 0 /\ s.modsecurity_buffer_bytes = 0
        BY <2>1 DEF Stats
    <2>3. f.used - f.charged = held /\ held <= BudgetLimit
        BY <2>1, BudgetLimitAssumption DEF Sound, Accounted, FilterType
    <2>4. /\ (IF f.transaction THEN f.stats.active_transactions - 1
                               ELSE f.stats.active_transactions) = 0
          /\ f.stats.modsecurity_buffer_bytes - f.charged = 0
        BY <2>1 DEF Sound, Accounted, FilterType
    <2>5. ReleaseResources(f) =
            [f EXCEPT !.resources_released = TRUE, !.transaction = FALSE,
                      !.used = held, !.charged = 0, !.stats = s]
        BY <1>2, <2>1, <2>3, <2>4 DEF ReleaseResources, FilterType
    <2> HIDE DEF s
    <2> DEFINE g == [f EXCEPT !.resources_released = TRUE, !.transaction = FALSE,
                              !.used = held, !.charged = 0, !.stats = s]
    <2>6. g \in FilterType
        BY <2>1, <2>2 DEF FilterType
    <2>7. Accounted(g, held)
        BY <2>1, <2>2, <2>3 DEF Accounted, FilterType
    <2>8. QED
        BY <2>1, <2>5, <2>6, <2>7 DEF Sound
<1>3. QED
    BY <1>1, <1>2 DEF Sound, FilterType

\* setSecurityOutcome
LEMMA SetSound ==
    ASSUME NEW f, NEW held, Sound(f, held),
           NEW outcome \in Outcomes, NEW reason \in Reasons, NEW path \in Paths
    PROVE  Sound(SetSecurityOutcome(f, outcome, reason, path), held)
BY DEF Sound, Accounted, FilterType, SetSecurityOutcome

\* A native phase.
LEMMA RunPhaseSound ==
    ASSUME NEW f, NEW held, Sound(f, held), NEW n \in 1..5
    PROVE  Sound(RunPhase(f, n), held)
<1>1. Append(f.phases, n) \in Seq(1..5)
    BY AppendProperties DEF Sound, FilterType
<1>2. QED
    BY <1>1 DEF Sound, Accounted, FilterType, RunPhase

\* publishSecurityEvent
LEMMA PublishSound ==
    ASSUME NEW f, NEW held, Sound(f, held), NEW log \in LoggingResult
    PROVE  Sound(PublishSecurityEvent(f, log), held)
<1> DEFINE n == IF log.truncated THEN f.stats.security_event_rule_truncations + 1
                                 ELSE f.stats.security_event_rule_truncations
           m == f.stats.security_events + 1
           s == [f.stats EXCEPT !.security_event_rule_truncations = n,
                                !.security_events = m]
           e == SecurityEvent(f, log)
<1>1. f \in FilterType /\ f.stats \in Stats
    BY DEF Sound, FilterType
<1>2. e \in Event
    BY DEF Sound, FilterType, LoggingResult, SecurityEvent, Event
<1>3. Append(f.events, e) \in Seq(Event)
    BY <1>1, <1>2, AppendProperties DEF FilterType
<1>0. n \in Nat /\ m \in Nat
    BY <1>1 DEF Stats
<1>5. \/ PublishSecurityEvent(f, log) = f
      \/ PublishSecurityEvent(f, log) =
            [f EXCEPT !.security_event_published = TRUE,
                      !.events = Append(f.events, e), !.stats = s]
    BY <1>1 DEF PublishSecurityEvent, FilterType
<1> HIDE DEF n, m
<1>4. s \in Stats /\ SameGauges(s, f.stats)
    BY <1>0, <1>1 DEF Stats, SameGauges
<1> HIDE DEF s, e
<1>6. Sound([f EXCEPT !.security_event_published = TRUE,
                      !.events = Append(f.events, e), !.stats = s], held)
    BY <1>1, <1>3, <1>4 DEF Sound, Accounted, FilterType, SameGauges
<1>7. QED
    BY <1>5, <1>6

\* recordCrsThresholdStats
LEMMA CrsSound ==
    ASSUME NEW f, NEW held, Sound(f, held), NEW log \in LoggingResult
    PROVE  Sound(RecordCrsThresholdStats(f, log), held)
<1> DEFINE c == Count(f.stats.threshold_exceeded, log.exceeded)
           d == Count(f.stats.detection_only_exceeded,
                      IF f.settings.rule_engine_mode = "DetectionOnly"
                      THEN log.exceeded ELSE {})
           s == [f.stats EXCEPT !.threshold_exceeded = c,
                                !.detection_only_exceeded = d]
<1>1. f \in FilterType /\ f.stats \in Stats
    BY DEF Sound, FilterType
<1>2. c \in Counters /\ d \in Counters
    BY <1>1, CountType DEF Stats
<1>3. RecordCrsThresholdStats(f, log) = [f EXCEPT !.stats = s]
    BY <1>1 DEF RecordCrsThresholdStats, FilterType
<1> HIDE DEF c, d
<1>4. s \in Stats /\ SameGauges(s, f.stats)
    BY <1>1, <1>2 DEF Stats, SameGauges
<1>5. QED
    BY <1>3, <1>4, Recounted

\* The results published when phase 5 did not run, or failed.
LEMMA NoResultType == NoResult \in LoggingResult /\ LoggingFailed \in LoggingResult
BY DEF NoResult, LoggingFailed, LoggingResult

\* finishLogging, whether phase 5 fails or not.
LEMMA FinishLoggingSound ==
    ASSUME NEW f, NEW held, Sound(f, held), NEW log \in LoggingResult
    PROVE  Sound(FinishLogging(f, log), held)
<1> DEFINE g == RunPhase(f, 5)
           ran == [g EXCEPT !.logging_finished = TRUE]
           s == [ran.stats EXCEPT !.logging_errors = @ + 1]
           counted == [ran EXCEPT !.stats = s]
<1>1. Sound(ran, held)
    <2>1. Sound(g, held)
        BY RunPhaseSound
    <2> HIDE DEF g
    <2>2. QED
        BY <2>1 DEF Sound, Accounted, FilterType
<1> HIDE DEF ran
<1>2. ran \in FilterType /\ ran.stats \in Stats
    BY <1>1 DEF Sound, FilterType
<1>3. s \in Stats /\ SameGauges(s, ran.stats)
    BY <1>2 DEF Stats, SameGauges
<1>4. [ran EXCEPT !.stats.logging_errors = @ + 1] = counted
    BY <1>2 DEF FilterType
<1>5. Sound(counted, held)
    BY <1>1, <1>3, Recounted
<1>6. FinishLogging(f, log) \in
        {f, PublishSecurityEvent(counted, LoggingFailed),
         PublishSecurityEvent(RecordCrsThresholdStats(ran, log), log)}
    BY <1>4 DEF FinishLogging, ran
<1> HIDE DEF counted
<1>7. QED
    BY <1>1, <1>5, <1>6, NoResultType, PublishSound, CrsSound

\* createTransaction: a gauge counts one transaction because the stream has none
\* and has not released.
LEMMA CreateSound ==
    ASSUME NEW f, NEW held, Sound(f, held), ~ f.transaction, ~ f.resources_released
    PROVE  Sound(CreateTransaction(f), held)
<1> DEFINE s == [f.stats EXCEPT !.active_transactions = 1]
<1>1. f \in FilterType /\ f.stats \in Stats
    BY DEF Sound, FilterType
<1>2. /\ s \in Stats /\ s.active_transactions = 1
      /\ s.modsecurity_buffer_bytes = f.stats.modsecurity_buffer_bytes
    BY <1>1 DEF Stats
<1>3. CreateTransaction(f) = [f EXCEPT !.transaction = TRUE, !.stats = s]
    BY <1>1 DEF CreateTransaction, Sound, Accounted, FilterType
<1> HIDE DEF s
<1>4. CreateTransaction(f) \in FilterType
    BY <1>1, <1>2, <1>3 DEF FilterType
<1>5. QED
    BY <1>1, <1>2, <1>3, <1>4 DEF Sound, Accounted, FilterType
-----------------------------------------------------------------------------
(* Verdicts *)

\* sendLocalReply itself changes nothing of ours.
LEMMA SendLocalReplySound ==
    ASSUME NEW f, NEW held, Sound(f, held)
    PROVE  Sound(SendLocalReply(f), held)
BY DEF Sound, Accounted, FilterType, SendLocalReply

\* local_reply_ = true
LEMMA RepliedSound ==
    ASSUME NEW f, NEW held, Sound(f, held)
    PROVE  Sound([f EXCEPT !.local_reply = TRUE], held)
BY DEF Sound, Accounted, FilterType

\* sendRuntimeError, up to the reply.
LEMMA SendRuntimeErrorSound ==
    ASSUME NEW f, NEW held, Sound(f, held)
    PROVE  Sound(SendRuntimeError(f), held)
BY NoResultType, RepliedSound, PublishSound, SendLocalReplySound DEF SendRuntimeError

\* evaluate, failing open: the release in the middle of the handler.
LEMMA FailOpenSound ==
    ASSUME NEW f, NEW held, Sound(f, held), NEW path \in Paths
    PROVE  Sound(FailOpen(f, path), held)
<1> DEFINE s == [f.stats EXCEPT !.failure_mode_allowed = @ + 1]
           counted == [f EXCEPT !.stats = s]
           bypassed == [counted EXCEPT !.engine_bypassed = TRUE]
           g == SetSecurityOutcome(bypassed, "Bypassed", "RuntimeError", path)
<1>1. f \in FilterType /\ f.stats \in Stats
    BY DEF Sound, FilterType
<1>2. s \in Stats /\ SameGauges(s, f.stats)
    BY <1>1 DEF Stats, SameGauges
<1>3. [f EXCEPT !.stats.failure_mode_allowed = @ + 1, !.engine_bypassed = TRUE] = bypassed
    BY <1>1 DEF FilterType
<1>4. Sound(counted, held)
    BY <1>2, Recounted
<1> HIDE DEF counted
<1>5. Sound(bypassed, held)
    BY <1>4 DEF Sound, Accounted, FilterType
<1> HIDE DEF bypassed
<1>6. Sound(g, held)
    BY <1>5, SetSound DEF Outcomes, Reasons
<1>7. FailOpen(f, path) = ReleaseResources(PublishSecurityEvent(g, NoResult))
    BY <1>3 DEF FailOpen
<1> HIDE DEF g
<1>8. QED
    BY <1>6, <1>7, NoResultType, PublishSound, ReleaseSound

\* evaluate, failing closed.
LEMMA FailClosedSound ==
    ASSUME NEW f, NEW held, Sound(f, held), NEW path \in Paths
    PROVE  Sound(FailClosed(f, path), held)
BY SetSound, SendRuntimeErrorSound DEF FailClosed, Outcomes, Reasons

\* evaluate, for any error status.
LEMMA EvaluateSound ==
    ASSUME NEW f, NEW held, Sound(f, held), NEW status, NEW path \in Paths
    PROVE  Sound(Evaluate(f, status, path), held)
<1> DEFINE s == [f.stats EXCEPT !.runtime_errors = @ + 1]
           counted == [f EXCEPT !.stats = s]
<1>1. f \in FilterType /\ f.stats \in Stats
    BY DEF Sound, FilterType
<1>2. s \in Stats /\ SameGauges(s, f.stats)
    BY <1>1 DEF Stats, SameGauges
<1>3. [f EXCEPT !.stats.runtime_errors = @ + 1] = counted
    BY <1>1 DEF FilterType
<1>4. Sound(counted, held)
    BY <1>2, Recounted
<1>5. Evaluate(f, status, path) \in {FailOpen(counted, path), FailClosed(counted, path)}
    BY <1>3 DEF Evaluate
<1> HIDE DEF counted
<1>6. QED
    BY <1>4, <1>5, FailOpenSound, FailClosedSound

\* sendIntervention, up to the reply.
LEMMA SendInterventionSound ==
    ASSUME NEW f, NEW held, Sound(f, held), NEW path \in Paths, NEW log \in LoggingResult
    PROVE  Sound(SendIntervention(f, path, log), held)
<1> DEFINE replied == [f EXCEPT !.local_reply = TRUE]
           blocked == SetSecurityOutcome(replied, "Blocked", "RuleIntervention", path)
           g == FinishLogging(blocked, log)
           c == [g.stats.interventions EXCEPT ![path] = @ + 1]
           s == [g.stats EXCEPT !.interventions = c]
           counted == [g EXCEPT !.stats = s]
<1>1. Sound(replied, held)
    BY RepliedSound
<1>2. SendIntervention(f, path, log) = SendLocalReply(counted)
    BY DEF SendIntervention
<1> HIDE DEF replied
<1>3. Sound(blocked, held)
    BY <1>1, SetSound DEF Outcomes, Reasons
<1> HIDE DEF blocked
<1>4. Sound(g, held)
    BY <1>3, FinishLoggingSound
<1> HIDE DEF g
<1>5. g.stats \in Stats /\ c \in Counters
    BY <1>4, Bump DEF Sound, FilterType, Stats
<1> HIDE DEF c
<1>6. s \in Stats /\ SameGauges(s, g.stats)
    BY <1>5 DEF Stats, SameGauges
<1>7. Sound(counted, held)
    BY <1>4, <1>6, Recounted
<1> HIDE DEF counted
<1>8. QED
    BY <1>2, <1>7, SendLocalReplySound

\* Any engine call that is not answered with success.
LEMMA StopSound ==
    ASSUME NEW f, NEW held, Sound(f, held), NEW path \in Paths,
           NEW g \in Stopped(f, path)
    PROVE  Sound(g, held)
BY LoggingAssumption, EvaluateSound, SendInterventionSound DEF Stopped, Stop

\* sendBodyOverflow
LEMMA SendBodyOverflowSound ==
    ASSUME NEW f, NEW held, Sound(f, held), NEW path \in Paths
    PROVE  Sound(SendBodyOverflow(f, path), held)
<1> DEFINE c == [f.stats.body_overflow EXCEPT ![path] = @ + 1]
           s == [f.stats EXCEPT !.body_overflow = c]
           counted == [f EXCEPT !.stats = s]
           over == [counted EXCEPT !.local_reply = TRUE]
           outcome == IF path = "Request" THEN "Blocked" ELSE "Error"
           g == SetSecurityOutcome(over, outcome, "BodyOverflow", path)
<1>1. f.stats \in Stats /\ c \in Counters
    BY Bump DEF Sound, FilterType, Stats
<1>2. [f EXCEPT !.local_reply = TRUE, !.stats.body_overflow[path] = @ + 1] = over
    BY DEF Sound, FilterType
<1> HIDE DEF c
<1>3. s \in Stats /\ SameGauges(s, f.stats)
    BY <1>1 DEF Stats, SameGauges
<1>4. Sound(counted, held)
    BY <1>3, Recounted
<1> HIDE DEF counted
<1>5. Sound(over, held)
    BY <1>4, RepliedSound
<1> HIDE DEF over
<1>6. Sound(g, held)
    BY <1>5, SetSound DEF Outcomes, Reasons
<1>7. SendBodyOverflow(f, path) = SendRuntimeError(g)
    BY <1>2 DEF SendBodyOverflow
<1> HIDE DEF g
<1>8. QED
    BY <1>6, <1>7, SendRuntimeErrorSound

\* sendBodyMemoryBudgetExceeded
LEMMA SendBodyMemoryBudgetExceededSound ==
    ASSUME NEW f, NEW held, Sound(f, held), NEW path \in Paths
    PROVE  Sound(SendBodyMemoryBudgetExceeded(f, path), held)
<1> DEFINE s == [f.stats EXCEPT !.body_memory_budget_exceeded = @ + 1]
           counted == [f EXCEPT !.stats = s]
           g == SetSecurityOutcome(counted, "Error", "BodyMemoryBudgetExceeded", path)
<1>1. f.stats \in Stats
    BY DEF Sound, FilterType
<1>2. s \in Stats /\ SameGauges(s, f.stats)
    BY <1>1 DEF Stats, SameGauges
<1>3. Sound(counted, held)
    BY <1>2, Recounted
<1>4. SendBodyMemoryBudgetExceeded(f, path) = SendRuntimeError(g)
    BY DEF SendBodyMemoryBudgetExceeded
<1> HIDE DEF counted
<1>5. Sound(g, held)
    BY <1>3, SetSound DEF Outcomes, Reasons
<1> HIDE DEF g
<1>6. QED
    BY <1>4, <1>5, SendRuntimeErrorSound

-----------------------------------------------------------------------------
(* Bodies *)

\* reserveBodyBytes: a transaction holds the bytes and the budget covers them.
LEMMA ChargeSound ==
    ASSUME NEW f, NEW held, Sound(f, held), NEW path \in Paths, NEW n \in Nat,
           f.transaction, n # 0 => FitsBudget(f, n)
    PROVE  Sound(Charge(f, path, n), held)
<1> DEFINE u == f.used + n
           c == f.charged + n
           b == [f.bytes EXCEPT ![path] = @ + n]
           s == [f.stats EXCEPT !.modsecurity_buffer_bytes = c]
           g == [f EXCEPT !.used = u, !.charged = c, !.stats = s, !.bytes = b]
<1>1. f \in FilterType /\ f.stats \in Stats /\ held \in Nat
    BY DEF Sound, FilterType
<1>2. u \in Nat /\ c \in Nat /\ b \in Counters
    BY <1>1 DEF FilterType, Counters
<1>3. u = c + held /\ u <= BudgetLimit
    BY <1>1, BudgetLimitAssumption DEF Sound, Accounted, FilterType, FitsBudget
<1>4. Charge(f, path, n) = g
    BY <1>1 DEF Charge, Sound, Accounted, FilterType
<1> HIDE DEF u, c, b
<1>5. /\ s \in Stats
      /\ s.active_transactions = f.stats.active_transactions
      /\ s.modsecurity_buffer_bytes = c
    BY <1>1, <1>2 DEF Stats
<1> HIDE DEF s
<1>6. g \in FilterType
    BY <1>1, <1>2, <1>5 DEF FilterType
<1>7. Accounted(g, held)
    BY <1>1, <1>2, <1>3, <1>5 DEF Sound, Accounted, FilterType
<1>8. QED
    BY <1>1, <1>4, <1>6, <1>7 DEF Sound

\* The history of appended bytes is no resource.
LEMMA AppendSound ==
    ASSUME NEW f, NEW held, Sound(f, held), NEW path \in Paths, NEW n \in Nat
    PROVE  Sound([f EXCEPT !.appended[path] = @ + n], held)
<1> DEFINE c == [f.appended EXCEPT ![path] = @ + n]
<1>1. c \in Counters
    BY DEF Sound, FilterType, Counters
<1> HIDE DEF c
<1>2. Sound([f EXCEPT !.appended = c], held)
    BY <1>1 DEF Sound, Accounted, FilterType
<1>3. QED
    BY <1>2 DEF c

\* The body phase of finishBody.
LEMMA RunBodyPhaseSound ==
    ASSUME NEW f, NEW held, Sound(f, held), NEW path \in Paths
    PROVE  Sound(RunBodyPhase(f, path), held)
<1> DEFINE g == RunPhase(f, BodyPhase(path))
           b == [g.finished EXCEPT ![path] = TRUE]
           c == [g.inspected EXCEPT ![path] = f.appended[path]]
<1>1. Sound(g, held)
    BY RunPhaseSound DEF BodyPhase
<1>2. RunBodyPhase(f, path) = [g EXCEPT !.finished = b, !.inspected = c]
    BY DEF RunBodyPhase
<1> HIDE DEF g
<1>3. b \in [Paths -> BOOLEAN] /\ c \in Counters
    BY <1>1 DEF Sound, FilterType, Counters
<1> HIDE DEF b, c
<1>4. [g EXCEPT !.finished = b, !.inspected = c] \in FilterType
    BY <1>1, <1>3 DEF Sound, FilterType
<1>5. Accounted([g EXCEPT !.finished = b, !.inspected = c], held)
    BY <1>1 DEF Sound, Accounted, FilterType
<1>6. QED
    BY <1>1, <1>2, <1>4, <1>5 DEF Sound

\* finishBody
LEMMA FinishBodySound ==
    ASSUME NEW f, NEW held, Sound(f, held), NEW path \in Paths,
           NEW g \in FinishBody(f, path)
    PROVE  Sound(g, held)
<1> DEFINE ran == RunBodyPhase(f, path)
<1>1. Sound(ran, held)
    BY RunBodyPhaseSound
<1>2. \/ g \in {f, ran}
      \/ g \in Stopped(ran, path)
      \/ \E log \in LoggingResults : g = ReleaseResources(FinishLogging(ran, log))
    BY DEF FinishBody
<1> HIDE DEF ran
<1>3. QED
    BY <1>1, <1>2, LoggingAssumption, StopSound, FinishLoggingSound, ReleaseSound

\* bypassBodyForStreaming
LEMMA BypassBodySound ==
    ASSUME NEW f, NEW held, Sound(f, held), NEW path \in Paths,
           NEW g \in BypassBodyForStreaming(f, path)
    PROVE  Sound(g, held)
<1> DEFINE b == [f.finished EXCEPT ![path] = TRUE]
           c == [f.stats.body_bypassed EXCEPT ![path] = @ + 1]
           s == [f.stats EXCEPT !.body_bypassed = c]
           counted == [f EXCEPT !.stats = s]
           bypassed == [counted EXCEPT !.finished = b]
<1>1. f.stats \in Stats /\ c \in Counters /\ b \in [Paths -> BOOLEAN]
    BY Bump DEF Sound, FilterType, Stats
<1>2. [f EXCEPT !.finished[path] = TRUE, !.stats.body_bypassed[path] = @ + 1] = bypassed
    BY DEF Sound, FilterType
<1>3. \/ g \in {f, bypassed}
      \/ \E log \in LoggingResults : g = ReleaseResources(FinishLogging(bypassed, log))
    BY <1>2 DEF BypassBodyForStreaming
<1> HIDE DEF b, c
<1>4. s \in Stats /\ SameGauges(s, f.stats)
    BY <1>1 DEF Stats, SameGauges
<1>5. Sound(counted, held)
    BY <1>4, Recounted
<1> HIDE DEF counted
<1>6. Sound(bypassed, held)
    BY <1>1, <1>5 DEF Sound, Accounted, FilterType
<1> HIDE DEF bypassed
<1>7. QED
    BY <1>3, <1>6, LoggingAssumption, FinishLoggingSound, ReleaseSound

\* initializeSettings
LEMMA InitializeSettingsSound ==
    ASSUME NEW f, NEW held, Sound(f, held), NEW route \in Routes
    PROVE  Sound(InitializeSettings(f, route), held)
<1>1. route \in RouteConfig
    BY RoutesAssumption
<1>2. Apply(route, f.settings) \in EffectiveSettings
    BY <1>1 DEF Sound, FilterType, EffectiveSettings, RouteConfig, Apply
<1>3. QED
    BY <1>1, <1>2 DEF Sound, Accounted, FilterType, RouteConfig, InitializeSettings

\* The verdict onDestroy gives.
LEMMA MarkIncompleteSound ==
    ASSUME NEW f, NEW held, Sound(f, held)
    PROVE  Sound(MarkIncomplete(f), held)
BY SetSound DEF MarkIncomplete, Outcomes, Reasons, Paths

-----------------------------------------------------------------------------
(* The inductive invariant *)

\* A stream whose request headers have not been decoded holds nothing, is in
\* no handler of its own, and has released only if it is gone.
Fresh ==
    message["Request"] = "idle" =>
        /\ ~ filter.transaction
        /\ ~ filter.replying
        /\ life = "open" => ~ filter.resources_released

IndInv ==
    /\ TypeOK
    /\ Sound(filter, others)
    /\ Fresh

Flows == [Paths -> {"none", "held", "forwarded", "replied"}]

Messages == [Paths -> {"idle", "open", "ended"}]

\* How a handler ends.
Ends(f, path) ==
    Continue(f, path) \/ StoppedOrContinue(f, path) \/ Hold(f, path)

\* However a handler ends, the filter becomes the record it computed.
LEMMA EndsTyped ==
    ASSUME TypeOK, NEW f, NEW path \in Paths, Ends(f, path)
    PROVE  filter' = f /\ flow' \in Flows
BY DEF TypeOK, Ends, Continue, StoppedOrContinue, Hold, Flows

\* A message only moves on.
LEMMA DeliverTyped ==
    ASSUME TypeOK, NEW path \in Paths, NEW from, NEW end \in BOOLEAN,
           Deliver(path, from, end)
    PROVE  /\ message' \in Messages
           /\ message'[path] # "idle"
           /\ \A p \in Paths \ {path} : message'[p] = message[p]
BY DEF TypeOK, Deliver, Messages

\* The invariant holds of a new filter.
LEMMA InitInv == Init => IndInv
<1> SUFFICES ASSUME Init PROVE IndInv
    OBVIOUS
<1>1. PICK settings \in SettingsSet : filter = NewFilter(settings)
    BY DEF Init
<1>2. settings \in EffectiveSettings
    BY SettingsAssumption
<1>3. ZeroStats \in Stats
    BY DEF ZeroStats, Stats, Counters, Nothing
<1>4. /\ <<>> \in Seq(Event) /\ <<>> \in Seq(1..5)
      /\ Allowed \in [outcome : Outcomes, reason : Reasons, phase : Paths \cup {"None"}]
      /\ Nothing \in Counters
    BY DEF Allowed, Outcomes, Reasons, Nothing, Counters
<1>5. filter \in FilterType
    BY <1>1, <1>2, <1>3, <1>4 DEF NewFilter, FilterType, StreamKinds
<1>6. Accounted(filter, 0)
    BY <1>1, BudgetLimitAssumption DEF NewFilter, Accounted, ZeroStats
<1>7. TypeOK
    BY <1>5, MaxArrivedAssumption DEF Init, TypeOK, Nothing
<1>8. Fresh
    BY <1>1 DEF Init, Fresh, NewFilter
<1>9. QED
    BY <1>5, <1>6, <1>7, <1>8 DEF IndInv, Sound, Init

-----------------------------------------------------------------------------
(* Handlers *)

\* The end of decodeHeaders.
LEMMA RequestHeadersSound ==
    ASSUME TypeOK, NEW f, Sound(f, others), NEW end, NEW declared,
           RequestHeadersInspected(f, end, declared)
    PROVE  Sound(filter', others) /\ flow' \in Flows
<1>1. PICK kind \in Kinds :
        LET g == [f EXCEPT !.stream_kind = kind] IN
        \/ \E h \in BypassBodyForStreaming(g, "Request") : StoppedOrContinue(h, "Request")
        \/ \E h \in FinishBody(g, "Request") : StoppedOrContinue(h, "Request")
        \/ Hold(SendBodyOverflow(g, "Request"), "Request")
        \/ Hold(g, "Request")
    BY DEF RequestHeadersInspected
<1> DEFINE g == [f EXCEPT !.stream_kind = kind]
<1>2. Sound(g, others)
    BY KindsAssumption DEF Sound, Accounted, FilterType
<1> HIDE DEF g
<1>3. \/ \E h \in BypassBodyForStreaming(g, "Request") : Ends(h, "Request")
      \/ \E h \in FinishBody(g, "Request") : Ends(h, "Request")
      \/ Ends(SendBodyOverflow(g, "Request"), "Request")
      \/ Ends(g, "Request")
    BY <1>1 DEF g, Ends
<1>4. "Request" \in Paths
    BY DEF Paths
<1>5. QED
    BY <1>2, <1>3, <1>4, EndsTyped, BypassBodySound, FinishBodySound, SendBodyOverflowSound

\* decodeHeaders; Fresh gives createTransaction its precondition.
LEMMA DecodeHeadersKeeps == ASSUME IndInv, DecodeHeaders PROVE IndInv'
<1>1. PICK end \in BOOLEAN, declared \in Declared, route \in Routes :
        LET ready == InitializeSettings(filter, route)
            created == CreateTransaction(ready)
            ran == RunPhase(created, 1)
        IN
        /\ Deliver("Request", "idle", end)
        /\ \/ Continue(ready, "Request")
           \/ \E error \in Errors :
                StoppedOrContinue(Evaluate(ready, error, "Request"), "Request")
           \/ \E f \in Stopped(created, "Request") : StoppedOrContinue(f, "Request")
           \/ \E f \in Stopped(ran, "Request") : StoppedOrContinue(f, "Request")
           \/ RequestHeadersInspected(ran, end, declared)
    BY DEF DecodeHeaders
<1> DEFINE ready == InitializeSettings(filter, route)
           created == CreateTransaction(ready)
           ran == RunPhase(created, 1)
<1>2. TypeOK /\ "Request" \in Paths
    BY DEF IndInv, Paths
<1>3. message' \in Messages /\ message'["Request"] # "idle"
    BY <1>1, <1>2, DeliverTyped
<1>4. Sound(ready, others)
    BY InitializeSettingsSound DEF IndInv
<1>5. ~ ready.transaction /\ ~ ready.resources_released
    BY <1>1, <1>2 DEF IndInv, Fresh, Sound, FilterType, TypeOK, Deliver, DecodeHeaders,
                      Decoding, InitializeSettings
<1>6. \/ Ends(ready, "Request")
      \/ \E error \in Errors : Ends(Evaluate(ready, error, "Request"), "Request")
      \/ \E f \in Stopped(created, "Request") : Ends(f, "Request")
      \/ \E f \in Stopped(ran, "Request") : Ends(f, "Request")
      \/ RequestHeadersInspected(ran, end, declared)
    BY <1>1 DEF Ends
<1> HIDE DEF ready
<1>7. Sound(created, others)
    BY <1>4, <1>5, CreateSound
<1> HIDE DEF created
<1>8. Sound(ran, others)
    BY <1>7, RunPhaseSound
<1> HIDE DEF ran
<1>9. Sound(filter', others) /\ flow' \in Flows
    BY <1>2, <1>4, <1>6, <1>7, <1>8, EndsTyped, EvaluateSound, StopSound, RequestHeadersSound
<1>10. QED
    BY <1>2, <1>3, <1>9 DEF DecodeHeaders, IndInv, Fresh, TypeOK, Sound, Flows, Messages

\* appendBody and the rest of processData.
LEMMA ProcessDataSound ==
    ASSUME TypeOK, Sound(filter, others), NEW path \in Paths, NEW n \in Nat,
           NEW end \in BOOLEAN, ProcessData(path, n, end)
    PROVE  /\ Sound(filter', others) /\ flow' \in Flows
           /\ ~ filter.transaction => filter' = filter
<1> DEFINE charged == Charge(filter, path, n)
           appended == [charged EXCEPT !.appended[path] = @ + n]
<1>1. \/ Ends(filter, path)
      \/ InspectionEnabled(filter, path) /\ Ends(SendBodyOverflow(filter, path), path)
      \/ InspectionEnabled(filter, path) /\ Ends(SendBodyMemoryBudgetExceeded(filter, path), path)
      \/ /\ InspectionEnabled(filter, path) /\ (n # 0 => FitsBudget(filter, n))
         /\ \/ \E f \in Stopped(charged, path) : Ends(f, path)
            \/ \E f \in FinishBody(appended, path) : Ends(f, path)
            \/ Ends(appended, path)
    BY DEF ProcessData, Ends
<1>2. InspectionEnabled(filter, path) => filter.transaction
    BY DEF InspectionEnabled
<1>3. ASSUME filter.transaction, n # 0 => FitsBudget(filter, n)
      PROVE  Sound(charged, others) /\ Sound(appended, others)
    <2>1. Sound(charged, others)
        BY <1>3, ChargeSound
    <2> HIDE DEF charged
    <2>2. QED
        BY <2>1, AppendSound
<1> HIDE DEF charged, appended
<1>4. CASE Ends(filter, path)
    BY <1>4, EndsTyped
<1>5. CASE InspectionEnabled(filter, path) /\ Ends(SendBodyOverflow(filter, path), path)
    BY <1>2, <1>5, EndsTyped, SendBodyOverflowSound
<1>6. CASE InspectionEnabled(filter, path) /\ Ends(SendBodyMemoryBudgetExceeded(filter, path), path)
    BY <1>2, <1>6, EndsTyped, SendBodyMemoryBudgetExceededSound
<1>7. CASE /\ InspectionEnabled(filter, path) /\ (n # 0 => FitsBudget(filter, n))
           /\ \/ \E f \in Stopped(charged, path) : Ends(f, path)
              \/ \E f \in FinishBody(appended, path) : Ends(f, path)
              \/ Ends(appended, path)
    BY <1>2, <1>3, <1>7, EndsTyped, StopSound, FinishBodySound
<1>8. QED
    BY <1>1, <1>4, <1>5, <1>6, <1>7

\* What becomes of Fresh when a message that is not the request's headers is
\* delivered: the handler does nothing to a filter without a transaction.
LEMMA FreshKept ==
    ASSUME IndInv, NEW path \in Paths, NEW from, NEW end \in BOOLEAN,
           Deliver(path, from, end), UNCHANGED life,
           \/ filter.transaction
           \/ SameResources(filter', filter)
    PROVE  Fresh'
<1>1. message["Request"] # "idle" => message'["Request"] # "idle"
    BY DeliverTyped DEF IndInv, Paths
<1>2. QED
    BY <1>1 DEF IndInv, Fresh, SameResources

\* decodeData and encodeData
LEMMA DataKeeps ==
    ASSUME IndInv, NEW path \in Paths, Data(path)
    PROVE  IndInv'
<1>1. PICK n \in Chunks, end \in BOOLEAN :
        /\ arrived[path] + n <= MaxArrived
        /\ Deliver(path, "open", end)
        /\ arrived' = [arrived EXCEPT ![path] = @ + n]
        /\ ProcessData(path, n, end)
    BY DEF Data
<1>2. n \in Nat /\ TypeOK /\ Sound(filter, others)
    BY ChunksAssumption DEF IndInv
<1>3. /\ Sound(filter', others) /\ flow' \in Flows
      /\ ~ filter.transaction => filter' = filter
    BY <1>1, <1>2, ProcessDataSound
<1>4. message' \in Messages
    BY <1>1, <1>2, DeliverTyped
<1>5. arrived' \in [Paths -> 0..MaxArrived]
    BY <1>1, <1>2, MaxArrivedAssumption DEF TypeOK
<1>6. UNCHANGED <<others, life>>
    BY DEF Data
<1>7. Fresh'
    BY <1>1, <1>3, <1>6, FreshKept DEF SameResources
<1>8. QED
    BY <1>2, <1>3, <1>4, <1>5, <1>6, <1>7 DEF IndInv, TypeOK, Sound, Flows, Messages

\* decodeTrailers and encodeTrailers
LEMMA TrailersKeep ==
    ASSUME IndInv, NEW path \in Paths, Trailers(path)
    PROVE  IndInv'
<1> DEFINE c == [filter.stats.trailers_uninspected EXCEPT ![path] = @ + 1]
           s == [filter.stats EXCEPT !.trailers_uninspected = c]
           counted == [filter EXCEPT !.stats = s]
<1>1. /\ Deliver(path, "open", TRUE)
      /\ UNCHANGED <<others, arrived, life>>
      /\ \/ Ends(counted, path)
         \/ filter.transaction /\ \E f \in FinishBody(counted, path) : Ends(f, path)
    BY DEF Trailers, Ends, InspectionEnabled
<1>2. TypeOK /\ Sound(filter, others) /\ filter \in FilterType
    BY DEF IndInv, Sound
<1>3. filter.stats \in Stats /\ c \in Counters
    BY <1>2, Bump DEF FilterType, Stats
<1> HIDE DEF c
<1>4. s \in Stats /\ SameGauges(s, filter.stats)
    BY <1>3 DEF Stats, SameGauges
<1>5. Sound(counted, others)
    BY <1>2, <1>4, Recounted
<1>6. SameResources(counted, filter)
    BY <1>2 DEF FilterType, SameResources
<1> HIDE DEF counted
<1>7. Sound(filter', others) /\ flow' \in Flows
    BY <1>1, <1>2, <1>5, EndsTyped, FinishBodySound
<1>8. filter.transaction \/ SameResources(filter', filter)
    BY <1>1, <1>2, <1>6, EndsTyped
<1>9. Fresh'
    BY <1>1, <1>8, FreshKept
<1>10. message' \in Messages
    BY <1>1, <1>2, DeliverTyped
<1>11. QED
    BY <1>1, <1>2, <1>7, <1>9, <1>10 DEF IndInv, TypeOK, Sound, Flows, Messages

\* The end of encodeHeaders.
LEMMA ResponseHeadersSound ==
    ASSUME TypeOK, NEW f, Sound(f, others), NEW end, NEW kind, NEW declared,
           ResponseHeadersInspected(f, end, kind, declared)
    PROVE  Sound(filter', others) /\ flow' \in Flows
<1>1. \/ \E h \in FinishBody(f, "Response") : Ends(h, "Response")
      \/ \E h \in BypassBodyForStreaming(f, "Response") : Ends(h, "Response")
      \/ Ends(SendBodyOverflow(f, "Response"), "Response")
      \/ Ends(f, "Response")
    BY DEF ResponseHeadersInspected, Ends
<1>2. "Response" \in Paths
    BY DEF Paths
<1>3. QED
    BY <1>1, <1>2, EndsTyped, BypassBodySound, FinishBodySound, SendBodyOverflowSound

\* encodeHeaders
LEMMA EncodeHeadersKeeps == ASSUME IndInv, EncodeHeaders PROVE IndInv'
<1>1. PICK end \in BOOLEAN, declared \in Declared, kind \in ResponseKinds :
        LET ran == RunPhase(filter, 3) IN
        /\ Deliver("Response", "idle", end)
        /\ \/ Continue(filter, "Response")
           \/ /\ filter.transaction
              /\ \/ \E error \in Errors :
                        StoppedOrContinue(Evaluate(filter, error, "Response"), "Response")
                 \/ \E f \in Stopped(ran, "Response") : StoppedOrContinue(f, "Response")
                 \/ ResponseHeadersInspected(
                        [ran EXCEPT !.response_headers_finished = TRUE],
                        end, kind, declared)
    BY DEF EncodeHeaders, ResponseInspected
<1> DEFINE ran == RunPhase(filter, 3)
           finished == [ran EXCEPT !.response_headers_finished = TRUE]
<1>2. TypeOK /\ Sound(filter, others) /\ "Response" \in Paths
    BY DEF IndInv, Paths
<1>3. \/ Ends(filter, "Response")
      \/ /\ filter.transaction
         /\ \/ \E error \in Errors : Ends(Evaluate(filter, error, "Response"), "Response")
            \/ \E f \in Stopped(ran, "Response") : Ends(f, "Response")
            \/ ResponseHeadersInspected(finished, end, kind, declared)
    BY <1>1 DEF Ends
<1>4. Sound(ran, others)
    BY <1>2, RunPhaseSound
<1> HIDE DEF ran
<1>5. Sound(finished, others)
    BY <1>4 DEF Sound, Accounted, FilterType
<1> HIDE DEF finished
<1>6. Sound(filter', others) /\ flow' \in Flows
    BY <1>2, <1>3, <1>4, <1>5, EndsTyped, EvaluateSound, StopSound, ResponseHeadersSound
<1>7. filter.transaction \/ SameResources(filter', filter)
    BY <1>2, <1>3, EndsTyped DEF SameResources
<1>8. UNCHANGED <<others, arrived, life>>
    BY DEF EncodeHeaders
<1>9. Fresh'
    BY <1>1, <1>2, <1>7, <1>8, FreshKept
<1>10. message' \in Messages
    BY <1>1, <1>2, DeliverTyped
<1>11. QED
    BY <1>2, <1>6, <1>8, <1>9, <1>10 DEF IndInv, TypeOK, Sound, Flows, Messages

-----------------------------------------------------------------------------
(* The end of a stream, and the other streams *)

\* onStreamComplete
LEMMA OnStreamCompleteKeeps == ASSUME IndInv, OnStreamComplete PROVE IndInv'
<1>1. PICK log \in LoggingResults : filter' = FinishLogging(filter, log)
    BY DEF OnStreamComplete
<1>2. Sound(filter', others)
    BY <1>1, LoggingAssumption, FinishLoggingSound DEF IndInv
<1>3. ~ filter.transaction => filter' = filter
    BY <1>1 DEF FinishLogging
<1>4. QED
    BY <1>2, <1>3 DEF OnStreamComplete, IndInv, TypeOK, Sound, Fresh

\* onDestroy, in any state of the stream.
LEMMA OnDestroyKeeps == ASSUME IndInv, OnDestroy PROVE IndInv'
<1>1. PICK log \in LoggingResults :
        filter' = ReleaseResources(FinishLogging(MarkIncomplete(filter), log))
    BY DEF OnDestroy
<1>2. Sound(filter', others)
    BY <1>1, LoggingAssumption, MarkIncompleteSound, FinishLoggingSound, ReleaseSound
    DEF IndInv
<1>3. ~ filter.transaction => filter' = ReleaseResources(filter)
    BY <1>1 DEF FinishLogging, MarkIncomplete
<1>4. filter \in FilterType
    BY DEF IndInv, Sound
<1>5. ~ filter.transaction =>
        ~ filter'.transaction /\ filter'.replying = filter.replying
    BY <1>3, <1>4 DEF ReleaseResources, FilterType
<1>6. QED
    BY <1>2, <1>5 DEF OnDestroy, IndInv, TypeOK, Sound, Fresh

\* The rest of a handler after its local reply, also when the stream was
\* completed and destroyed inside it.
LEMMA LocalReplyReturnsKeeps == ASSUME IndInv, LocalReplyReturns PROVE IndInv'
<1> DEFINE g == [filter EXCEPT !.replying = FALSE]
<1>1. Sound(g, others)
    BY DEF IndInv, Sound, Accounted, FilterType
<1>2. filter' = ReleaseResources(g)
    BY DEF LocalReplyReturns
<1> HIDE DEF g
<1>3. Sound(filter', others)
    BY <1>1, <1>2, ReleaseSound
<1>4. message["Request"] # "idle"
    BY DEF LocalReplyReturns, IndInv, Fresh
<1>5. QED
    BY <1>3, <1>4 DEF LocalReplyReturns, IndInv, TypeOK, Sound, Fresh

\* The other streams reserve within the limit and release what they hold.
LEMMA OthersKeep ==
    ASSUME IndInv, OthersReserve \/ OthersRelease
    PROVE  IndInv'
<1>1. filter \in FilterType /\ others \in Nat /\ Accounted(filter, others)
    BY DEF IndInv, Sound
<1>2. \/ \E n \in OtherChunks :
            /\ filter.used + n <= BudgetLimit /\ others' = others + n
            /\ filter' = [filter EXCEPT !.used = filter.used + n]
      \/ /\ others' = 0
         /\ filter' = [filter EXCEPT !.used = filter.used - others]
    BY DEF OthersReserve, OthersRelease, FitsBudget
<1>3. PICK u \in Nat :
        /\ filter' = [filter EXCEPT !.used = u]
        /\ u = filter.charged + others' /\ u <= BudgetLimit /\ others' \in Nat
    <2>1. filter.used \in Nat /\ filter.charged \in Nat
        BY <1>1 DEF FilterType
    <2>2. CASE \E n \in OtherChunks :
            /\ filter.used + n <= BudgetLimit /\ others' = others + n
            /\ filter' = [filter EXCEPT !.used = filter.used + n]
        BY <1>1, <2>1, <2>2, ChunksAssumption DEF Accounted
    <2>3. CASE /\ others' = 0
               /\ filter' = [filter EXCEPT !.used = filter.used - others]
        BY <1>1, <2>1, <2>3, BudgetLimitAssumption DEF Accounted
    <2>4. QED
        BY <1>2, <2>2, <2>3
<1>4. filter' \in FilterType
    BY <1>1, <1>3 DEF FilterType
<1>5. Accounted(filter', others')
    BY <1>1, <1>3 DEF Accounted, FilterType
<1>6. SameResources(filter', filter)
    BY <1>1, <1>3 DEF FilterType, SameResources
<1>7. QED
    BY <1>3, <1>4, <1>5, <1>6
    DEF OthersReserve, OthersRelease, IndInv, TypeOK, Sound, Fresh, SameResources

-----------------------------------------------------------------------------
(* The theorems *)

\* Every step keeps the invariant.
LEMMA NextInv == IndInv /\ [Next]_vars => IndInv'
<1> SUFFICES ASSUME IndInv, [Next]_vars PROVE IndInv'
    OBVIOUS
<1>1. "Request" \in Paths /\ "Response" \in Paths
    BY DEF Paths
<1>2. CASE DecodeHeaders
    BY <1>2, DecodeHeadersKeeps
<1>3. CASE DecodeData \/ EncodeData
    BY <1>1, <1>3, DataKeeps DEF DecodeData, EncodeData
<1>4. CASE DecodeTrailers \/ EncodeTrailers
    BY <1>1, <1>4, TrailersKeep DEF DecodeTrailers, EncodeTrailers
<1>5. CASE EncodeHeaders
    BY <1>5, EncodeHeadersKeeps
<1>6. CASE OnStreamComplete
    BY <1>6, OnStreamCompleteKeeps
<1>7. CASE OnDestroy
    BY <1>7, OnDestroyKeeps
<1>8. CASE LocalReplyReturns
    BY <1>8, LocalReplyReturnsKeeps
<1>9. CASE OthersReserve \/ OthersRelease
    BY <1>9, OthersKeep
<1>10. CASE UNCHANGED vars
    BY <1>10 DEF vars, IndInv, TypeOK, Sound, Fresh
<1>11. QED
    BY <1>2, <1>3, <1>4, <1>5, <1>6, <1>7, <1>8, <1>9, <1>10 DEF Next

\* The invariant holds throughout.
LEMMA Invariance == Spec => []IndInv
BY InitInv, NextInv, PTL DEF Spec

\* Every member of the filter keeps its type, whatever the settings, routes,
\* chunks and engine answers; no counter, gauge or charge drops below zero.
THEOREM TypeCorrect == Spec => []TypeOK
<1>1. IndInv => TypeOK
    BY DEF IndInv
<1>2. QED
    BY <1>1, Invariance, PTL

\* On every path through the filter the shared counter is what this stream and
\* the others hold, and stays within the limit.
THEOREM BudgetKept == Spec => []BudgetAccounted
<1>1. IndInv => BudgetAccounted
    BY DEF IndInv, Sound, Accounted, BudgetAccounted
<1>2. QED
    BY <1>1, Invariance, PTL

\* The gauges say what the stream holds, and a stream that has released its
\* resources holds neither a transaction nor bytes.
THEOREM NothingLeaks == Spec => []ReleasedHoldsNothing
<1>1. IndInv => ReleasedHoldsNothing
    BY DEF IndInv, Sound, Accounted, ReleasedHoldsNothing
<1>2. QED
    BY <1>1, Invariance, PTL

-----------------------------------------------------------------------------
(***************************************************************************)
(* The verdict.  A stream gets one, which is told once, counted once and   *)
(* kept.                                                                   *)
(*                                                                         *)
(* A filter is undecided until a helper of the class decides it.  What a   *)
(* decision leaves behind is a predicate of the record, proved once for    *)
(* each helper that decides; a callback then either decides an undecided   *)
(* filter or leaves the verdict of a decided one as it is.                 *)
(***************************************************************************)

RanBy(f, n) == \E i \in DOMAIN f.phases : f.phases[i] = n

\* No event has been written.
Untold(f) ==
    /\ ~ f.security_event_published /\ f.events = <<>>
    /\ f.stats.security_events = 0
    /\ f.stats.security_event_rule_truncations = 0

\* Event e tells the verdict v.
Tells(e, v) ==
    /\ e.outcome = v.outcome
    /\ v.reason # "None" => e.reason = v.reason /\ e.phase = v.phase
    /\ v.reason = "None" =>
        /\ e.phase = "complete"
        /\ e.reason = IF e.logging_error THEN "logging_error" ELSE "rule_match"
    /\ e.outcome = "Allowed" => e.rules \/ e.anomaly \/ e.logging_error

\* The event of the verdict has been written, and counted.
Told(f) ==
    /\ f.security_event_published /\ Len(f.events) = 1
    /\ f.stats.security_events = 1
    /\ f.stats.security_event_rule_truncations = Is(f.events[1].rules_truncated)
    /\ Tells(f.events[1], f.security)

\* What phase 5 lost is in the event, unless that had been written before.
LossKept(f) ==
    /\ f.events[1].logging_error => f.stats.logging_errors = 1
    /\ f.stats.logging_errors = 1 =>
            f.events[1].logging_error \/ f.security.reason \in ErrorReasons

Unpublished(f) == Untold(f) /\ f.stats.logging_errors = 0

Published(f) == Told(f) /\ LossKept(f)

\* Statistics s count the verdict v, and count it once.
VerdictCounted(s, v) ==
    /\ s.runtime_errors = Is(v.reason = "RuntimeError")
    /\ s.failure_mode_allowed = Is(v.outcome = "Bypassed")
    /\ s.body_memory_budget_exceeded = Is(v.reason = "BodyMemoryBudgetExceeded")
    /\ \A path \in Paths :
        /\ s.interventions[path] = Is(v.reason = "RuleIntervention" /\ v.phase = path)
        /\ s.body_overflow[path] = Is(v.reason = "BodyOverflow" /\ v.phase = path)

\* Thresholds are counted by phase 5 only, which has run if the flag says so.
ScoresCounted(f) ==
    /\ f.logging_finished <=> RanBy(f, 5)
    /\ \A path \in Paths :
        /\ f.stats.detection_only_exceeded[path] <= f.stats.threshold_exceeded[path]
        /\ f.stats.threshold_exceeded[path] + f.stats.logging_errors <= Is(RanBy(f, 5))

Undecided(f) ==
    /\ f.security = Allowed
    /\ Unpublished(f)
    /\ ~ f.local_reply /\ ~ f.engine_bypassed /\ ~ f.replying /\ ~ f.logging_finished
    /\ VerdictCounted(f.stats, f.security) /\ ScoresCounted(f)

Denied(f) == f.security.outcome \in {"Blocked", "Error"}

\* An allowed stream is decided by phase 5.
Decided(f) ==
    /\ Published(f) \/ (Unpublished(f) /\ f.security = Allowed)
    /\ f.security # Allowed =>
            f.security.outcome # "Allowed" /\ f.security.phase \in Paths
    /\ f.replying => f.security # Allowed
    /\ f.security.reason \in {"None", "RuleIntervention", "StreamDestroyed"} =>
            f.logging_finished
    /\ f.security.reason = "None" => f.security = Allowed
    /\ Denied(f) => f.local_reply
    /\ VerdictCounted(f.stats, f.security) /\ ScoresCounted(f)

-----------------------------------------------------------------------------
(* What the helpers leave alone *)

\* The state of inspection.
SameInspection(f, g) ==
    /\ g.settings = f.settings /\ g.disabled = f.disabled
    /\ g.stream_kind = f.stream_kind
    /\ g.bytes = f.bytes /\ g.finished = f.finished
    /\ g.response_headers_finished = f.response_headers_finished
    /\ g.appended = f.appended /\ g.inspected = f.inspected
    /\ g.stats.body_bypassed = f.stats.body_bypassed

SameEvents(f, g) ==
    /\ g.security_event_published = f.security_event_published
    /\ g.events = f.events
    /\ g.stats.security_events = f.stats.security_events
    /\ g.stats.security_event_rule_truncations = f.stats.security_event_rule_truncations

SameFlags(f, g) ==
    /\ g.local_reply = f.local_reply /\ g.engine_bypassed = f.engine_bypassed
    /\ g.replying = f.replying

SameVerdictCounts(s, t) ==
    /\ t.runtime_errors = s.runtime_errors
    /\ t.failure_mode_allowed = s.failure_mode_allowed
    /\ t.body_memory_budget_exceeded = s.body_memory_budget_exceeded
    /\ t.interventions = s.interventions /\ t.body_overflow = s.body_overflow

SameScores(f, g) ==
    /\ g.phases = f.phases /\ g.logging_finished = f.logging_finished
    /\ g.stats.logging_errors = f.stats.logging_errors
    /\ g.stats.threshold_exceeded = f.stats.threshold_exceeded
    /\ g.stats.detection_only_exceeded = f.stats.detection_only_exceeded

\* Two filters with the same verdict, reported in the same way.
SameVerdict(f, g) ==
    /\ g.security = f.security
    /\ SameEvents(f, g) /\ SameFlags(f, g) /\ SameScores(f, g)
    /\ SameVerdictCounts(f.stats, g.stats)

\* What leaves the verdict and its event alone leaves the stream decided or not.
LEMMA SameVerdictDecided ==
    ASSUME NEW f, NEW g, SameVerdict(f, g)
    PROVE  /\ Decided(f) => Decided(g)
           /\ Undecided(f) => Undecided(g)
<1>1. /\ Published(f) => Published(g)
      /\ Unpublished(f) => Unpublished(g)
    BY DEF SameVerdict, SameEvents, SameScores, Published, Unpublished, Told, Untold, LossKept
<1>2. ScoresCounted(f) => ScoresCounted(g)
    BY DEF SameVerdict, SameScores, ScoresCounted, RanBy
<1>3. VerdictCounted(f.stats, f.security) => VerdictCounted(g.stats, g.security)
    BY DEF SameVerdict, SameVerdictCounts, VerdictCounted
<1>4. QED
    BY <1>1, <1>2, <1>3
    DEF SameVerdict, SameFlags, SameScores, Decided, Undecided, Denied

-----------------------------------------------------------------------------
(* Events, logging and release *)

\* No reason was given for a verdict that nothing set.
Reasoned(v) == v.reason = "None" <=> v.phase = "None"

\* A notable event tells the verdict it is published for.
LEMMA EventTellsVerdict ==
    ASSUME NEW f, Reasoned(f.security), NEW log \in LoggingResult, Notable(f, log),
           NEW e, e = SecurityEvent(f, log)
    PROVE  /\ Tells(e, f.security)
           /\ e.logging_error = log.error /\ e.rules_truncated = log.truncated
<1>1. /\ e.outcome = f.security.outcome
      /\ f.security.reason # "None" => e.reason = f.security.reason
      /\ f.security.reason = "None" /\ log.error => e.reason = "logging_error"
      /\ f.security.reason = "None" /\ ~ log.error => e.reason = "rule_match"
      /\ e.phase = IF f.security.phase = "None" THEN "complete" ELSE f.security.phase
      /\ e.logging_error = log.error /\ e.rules = log.rules
      /\ e.rules_truncated = log.truncated /\ e.anomaly = log.anomaly
    BY DEF SecurityEvent, LoggingResult
<1>2. QED
    BY <1>1 DEF Tells, Reasoned, Notable

\* publishSecurityEvent tells a verdict that was not told, and no other.
LEMMA PublishTells ==
    ASSUME NEW f \in FilterType, NEW log \in LoggingResult,
           NEW g, g = PublishSecurityEvent(f, log), Reasoned(f.security)
    PROVE  /\ SameInspection(f, g) /\ SameFlags(f, g) /\ SameScores(f, g)
           /\ SameVerdictCounts(f.stats, g.stats)
           /\ g.security = f.security /\ g.transaction = f.transaction
           /\ f.security_event_published \/ ~ Notable(f, log) => g = f
           /\ Untold(f) /\ Notable(f, log) =>
                Told(g) /\ g.events[1].logging_error = log.error
<1> DEFINE n == IF log.truncated THEN f.stats.security_event_rule_truncations + 1
                                 ELSE f.stats.security_event_rule_truncations
           m == f.stats.security_events + 1
           s == [f.stats EXCEPT !.security_event_rule_truncations = n,
                                !.security_events = m]
           e == SecurityEvent(f, log)
           h == [f EXCEPT !.security_event_published = TRUE,
                          !.events = Append(f.events, e), !.stats = s]
<1>1. f.stats \in Stats
    BY DEF FilterType
<1>2. IF f.security_event_published \/ ~ Notable(f, log) THEN g = f ELSE g = h
    BY DEF PublishSecurityEvent, FilterType
<1>3. CASE f.security_event_published \/ ~ Notable(f, log)
    BY <1>2, <1>3 DEF SameInspection, SameFlags, SameScores, SameVerdictCounts, Untold
<1>4. CASE ~ f.security_event_published /\ Notable(f, log)
    <2>0. g = h
        BY <1>2, <1>4
    <2>1. Untold(f) => m = 1 /\ n = Is(log.truncated)
        BY DEF Untold, Is
    <2> HIDE DEF n, m
    <2>2. /\ SameVerdictCounts(f.stats, s) /\ s.security_events = m
          /\ s.security_event_rule_truncations = n
          /\ s.logging_errors = f.stats.logging_errors
          /\ s.threshold_exceeded = f.stats.threshold_exceeded
          /\ s.detection_only_exceeded = f.stats.detection_only_exceeded
          /\ s.body_bypassed = f.stats.body_bypassed
        BY <1>1 DEF Stats, SameVerdictCounts
    <2>3. f.events = <<>> => Len(Append(f.events, e)) = 1 /\ Append(f.events, e)[1] = e
        OBVIOUS
    <2>4. Tells(e, f.security) /\ e.logging_error = log.error /\ e.rules_truncated = log.truncated
        BY <1>4, EventTellsVerdict
    <2> HIDE DEF s, e
    <2>5. /\ SameInspection(f, g) /\ SameFlags(f, g) /\ SameScores(f, g)
          /\ g.stats = s /\ g.security = f.security /\ g.transaction = f.transaction
          /\ g.security_event_published /\ g.events = Append(f.events, e)
        BY <2>0, <2>2 DEF FilterType, SameInspection, SameFlags, SameScores
    <2>6. ASSUME Untold(f) PROVE Told(g) /\ g.events[1].logging_error = log.error
        BY <2>1, <2>2, <2>3, <2>4, <2>5, <2>6 DEF Told, Untold
    <2>7. QED
        BY <1>4, <2>2, <2>5, <2>6
<1>5. QED
    BY <1>2, <1>3, <1>4

\* An event that says nothing of phase 5 loses nothing of it.
LEMMA PublishKeepsLoss ==
    ASSUME NEW f \in FilterType, Unpublished(f), Reasoned(f.security), Notable(f, NoResult),
           NEW g, g = PublishSecurityEvent(f, NoResult)
    PROVE  /\ SameInspection(f, g) /\ SameFlags(f, g) /\ SameScores(f, g)
           /\ SameVerdictCounts(f.stats, g.stats)
           /\ g.security = f.security /\ g.transaction = f.transaction
           /\ Published(g)
<1>1. /\ SameInspection(f, g) /\ SameFlags(f, g) /\ SameScores(f, g)
      /\ SameVerdictCounts(f.stats, g.stats)
      /\ g.security = f.security /\ g.transaction = f.transaction
      /\ Told(g) /\ g.events[1].logging_error = NoResult.error
    BY NoResultType, PublishTells DEF Unpublished
<1>2. g.stats.logging_errors = 0 /\ ~ NoResult.error
    BY <1>1 DEF SameScores, Unpublished, NoResult
<1>3. QED
    BY <1>1, <1>2 DEF Published, LossKept

\* releaseResources changes no verdict.
LEMMA ReleaseTells ==
    ASSUME NEW f, NEW held, Sound(f, held), NEW g, g = ReleaseResources(f)
    PROVE  /\ SameInspection(f, g) /\ SameVerdict(f, g)
           /\ ~ g.transaction
<1>1. f \in FilterType /\ f.stats \in Stats
    BY DEF Sound, FilterType
<1>2. CASE f.resources_released
    BY <1>2 DEF ReleaseResources, Sound, Accounted, SameInspection, SameVerdict, SameEvents,
                SameFlags, SameScores, SameVerdictCounts
<1>3. CASE ~ f.resources_released
    <2> DEFINE a == IF f.transaction THEN f.stats.active_transactions - 1
                                     ELSE f.stats.active_transactions
               b == f.stats.modsecurity_buffer_bytes - f.charged
               u == f.used - f.charged
               s == [f.stats EXCEPT !.active_transactions = a,
                                    !.modsecurity_buffer_bytes = b]
    <2>1. g = [f EXCEPT !.resources_released = TRUE, !.transaction = FALSE,
                        !.stats = s, !.used = u, !.charged = 0]
        BY <1>1, <1>3 DEF ReleaseResources, FilterType, Stats
    <2> HIDE DEF a, b, u
    <2>2. /\ SameVerdictCounts(f.stats, s) /\ s.security_events = f.stats.security_events
          /\ s.security_event_rule_truncations = f.stats.security_event_rule_truncations
          /\ s.logging_errors = f.stats.logging_errors
          /\ s.threshold_exceeded = f.stats.threshold_exceeded
          /\ s.detection_only_exceeded = f.stats.detection_only_exceeded
          /\ s.body_bypassed = f.stats.body_bypassed
        BY <1>1 DEF Stats, SameVerdictCounts
    <2> HIDE DEF s
    <2>3. /\ SameInspection(f, g) /\ ~ g.transaction /\ g.stats = s
          /\ g.security = f.security /\ SameEvents(f, g) /\ SameFlags(f, g)
          /\ SameScores(f, g)
        BY <1>1, <2>1, <2>2 DEF FilterType, SameInspection, SameEvents, SameFlags, SameScores
    <2>4. QED
        BY <2>2, <2>3 DEF SameVerdict
<1>4. QED
    BY <1>2, <1>3

\* A native phase is added to those that have run.
LEMMA PhaseRan ==
    ASSUME NEW f, f.phases \in Seq(1..5), NEW n \in 1..5,
           NEW g, g.phases = Append(f.phases, n), NEW k
    PROVE  RanBy(g, k) <=> RanBy(f, k) \/ k = n
<1>1. /\ Len(g.phases) = Len(f.phases) + 1 /\ Len(f.phases) \in Nat
      /\ DOMAIN g.phases = 1..Len(g.phases) /\ DOMAIN f.phases = 1..Len(f.phases)
      /\ \A i \in DOMAIN f.phases : g.phases[i] = f.phases[i]
      /\ g.phases[Len(f.phases) + 1] = n
    OBVIOUS
<1>2. ASSUME RanBy(f, k) \/ k = n PROVE RanBy(g, k)
    BY <1>1, <1>2 DEF RanBy
<1>3. ASSUME RanBy(g, k), k # n PROVE RanBy(f, k)
    <2>1. PICK i \in DOMAIN g.phases : g.phases[i] = k
        BY <1>3 DEF RanBy
    <2>2. i \in DOMAIN f.phases
        BY <1>1, <1>3, <2>1
    <2>3. QED
        BY <1>1, <2>1, <2>2 DEF RanBy
<1>4. QED
    BY <1>2, <1>3

\* recordCrsThresholdStats counts a path at most once.
LEMMA CrsTells ==
    ASSUME NEW f \in FilterType, NEW log, NEW g, g = RecordCrsThresholdStats(f, log)
    PROVE  /\ SameInspection(f, g) /\ SameFlags(f, g) /\ SameEvents(f, g)
           /\ SameVerdictCounts(f.stats, g.stats)
           /\ g.security = f.security /\ g.transaction = f.transaction
           /\ g.phases = f.phases /\ g.logging_finished = f.logging_finished
           /\ g.stats.logging_errors = f.stats.logging_errors
           /\ \A path \in Paths :
                /\ f.stats.threshold_exceeded[path] = 0
                /\ f.stats.detection_only_exceeded[path] = 0
                => /\ g.stats.detection_only_exceeded[path] <= g.stats.threshold_exceeded[path]
                   /\ g.stats.threshold_exceeded[path] <= 1
<1> DEFINE c == Count(f.stats.threshold_exceeded, log.exceeded)
           d == Count(f.stats.detection_only_exceeded,
                      IF f.settings.rule_engine_mode = "DetectionOnly"
                      THEN log.exceeded ELSE {})
           s == [f.stats EXCEPT !.threshold_exceeded = c,
                                !.detection_only_exceeded = d]
<1>1. f.stats \in Stats
    BY DEF FilterType
<1>2. g = [f EXCEPT !.stats = s]
    BY DEF RecordCrsThresholdStats, FilterType
<1>3. \A path \in Paths :
        /\ f.stats.threshold_exceeded[path] = 0
        /\ f.stats.detection_only_exceeded[path] = 0
        => d[path] <= c[path] /\ c[path] <= 1
    BY DEF Count
<1> HIDE DEF c, d
<1>4. /\ SameVerdictCounts(f.stats, s) /\ s.security_events = f.stats.security_events
      /\ s.security_event_rule_truncations = f.stats.security_event_rule_truncations
      /\ s.logging_errors = f.stats.logging_errors
      /\ s.threshold_exceeded = c /\ s.detection_only_exceeded = d
      /\ s.body_bypassed = f.stats.body_bypassed
    BY <1>1 DEF Stats, SameVerdictCounts
<1> HIDE DEF s
<1>5. /\ g.stats = s /\ SameInspection(f, g) /\ SameFlags(f, g) /\ SameEvents(f, g)
      /\ g.security = f.security /\ g.transaction = f.transaction
      /\ g.phases = f.phases /\ g.logging_finished = f.logging_finished
    BY <1>2, <1>4 DEF FilterType, SameInspection, SameFlags, SameEvents
<1>6. QED
    BY <1>3, <1>4, <1>5

\* finishLogging runs phase 5 on a transaction it has not run on, and then
\* publishes what phase 5 says.
LEMMA FinishLoggingRuns ==
    ASSUME NEW f, NEW held, Sound(f, held), NEW log \in LoggingResult,
           NEW g, g = FinishLogging(f, log),
           f.transaction, ~ f.logging_finished, ScoresCounted(f), Reasoned(f.security)
    PROVE  /\ SameInspection(f, g) /\ SameFlags(f, g)
           /\ SameVerdictCounts(f.stats, g.stats)
           /\ g.security = f.security /\ g.transaction
           /\ g.phases = Append(f.phases, 5) /\ g.logging_finished /\ ScoresCounted(g)
           /\ \E h \in FilterType, said \in LoggingResult :
                /\ g = PublishSecurityEvent(h, said)
                /\ SameEvents(f, h) /\ h.security = f.security
                /\ said.error = log.error
                /\ h.stats.logging_errors = Is(log.error)
<1> DEFINE ran == [RunPhase(f, 5) EXCEPT !.logging_finished = TRUE]
           s == [ran.stats EXCEPT !.logging_errors = @ + 1]
           counted == [ran EXCEPT !.stats = s]
           h == IF log.error THEN counted ELSE RecordCrsThresholdStats(ran, log)
           said == IF log.error THEN LoggingFailed ELSE log
<1>1. f \in FilterType /\ f.phases \in Seq(1..5) /\ f.stats \in Stats
    BY DEF Sound, FilterType
<1>2. /\ ran \in FilterType /\ SameInspection(f, ran) /\ SameFlags(f, ran)
      /\ SameEvents(f, ran) /\ ran.security = f.security /\ ran.transaction
      /\ ran.stats = f.stats /\ ran.phases = Append(f.phases, 5) /\ ran.logging_finished
    <2>1. Append(f.phases, 5) \in Seq(1..5)
        BY <1>1, AppendProperties
    <2>2. QED
        BY <1>1, <2>1 DEF FilterType, RunPhase, SameInspection, SameFlags, SameEvents
<1>0. Sound(ran, held)
    <2>1. Sound(RunPhase(f, 5), held)
        BY RunPhaseSound
    <2>2. QED
        BY <2>1 DEF Sound, Accounted, FilterType
<1>3. g = PublishSecurityEvent(h, said)
    <2>1. [ran EXCEPT !.stats.logging_errors = @ + 1] = counted
        BY <1>2 DEF FilterType
    <2>2. QED
        BY <2>1 DEF FinishLogging
<1>4. said \in LoggingResult /\ said.error = log.error
    BY NoResultType DEF LoggingFailed, NoResult, LoggingResult
<1> HIDE DEF ran, said
<1>5. /\ f.stats.logging_errors = 0
      /\ \A path \in Paths : /\ f.stats.threshold_exceeded[path] = 0
                            /\ f.stats.detection_only_exceeded[path] = 0
    <2>1. Is(RanBy(f, 5)) = 0
        BY DEF ScoresCounted, Is
    <2>2. \A path \in Paths : /\ f.stats.threshold_exceeded[path] \in Nat
                            /\ f.stats.detection_only_exceeded[path] \in Nat
                            /\ f.stats.logging_errors \in Nat
        BY <1>1 DEF Stats, Counters
    <2>3. "Request" \in Paths
        BY DEF Paths
    <2>4. \A path \in Paths :
            /\ f.stats.detection_only_exceeded[path] <= f.stats.threshold_exceeded[path]
            /\ f.stats.threshold_exceeded[path] + f.stats.logging_errors <= 0
        BY <2>1 DEF ScoresCounted
    <2>5. \A x, y, z \in Nat : y <= x /\ x + z <= 0 => x = 0 /\ y = 0 /\ z = 0
        OBVIOUS
    <2>6. QED
        BY <2>2, <2>3, <2>4, <2>5, Zenon
<1>6. /\ s \in Stats /\ SameVerdictCounts(f.stats, s)
      /\ s.security_events = f.stats.security_events
      /\ s.security_event_rule_truncations = f.stats.security_event_rule_truncations
      /\ s.logging_errors = 1
      /\ s.threshold_exceeded = f.stats.threshold_exceeded
      /\ s.detection_only_exceeded = f.stats.detection_only_exceeded
      /\ s.body_bypassed = f.stats.body_bypassed
    <2>1. s = [f.stats EXCEPT !.logging_errors = 1]
        BY <1>1, <1>2, <1>5 DEF Stats
    <2> HIDE DEF s
    <2>2. QED
        BY <1>1, <2>1 DEF Stats, SameVerdictCounts
<1> HIDE DEF s
<1>7. /\ h \in FilterType /\ SameInspection(f, h) /\ SameFlags(f, h) /\ SameEvents(f, h)
      /\ SameVerdictCounts(f.stats, h.stats)
      /\ h.security = f.security /\ h.transaction
      /\ h.phases = Append(f.phases, 5) /\ h.logging_finished
      /\ h.stats.logging_errors = Is(log.error)
      /\ \A path \in Paths :
            /\ h.stats.detection_only_exceeded[path] <= h.stats.threshold_exceeded[path]
            /\ h.stats.threshold_exceeded[path] + h.stats.logging_errors <= 1
    <2>1. CASE log.error
        <3>1. /\ counted \in FilterType /\ counted.stats = s
              /\ SameInspection(f, counted) /\ SameFlags(f, counted) /\ SameEvents(f, counted)
              /\ counted.security = f.security /\ counted.transaction
              /\ counted.phases = Append(f.phases, 5) /\ counted.logging_finished
            BY <1>2, <1>6 DEF FilterType, SameInspection, SameFlags, SameEvents
        <3> HIDE DEF counted
        <3>2. QED
            BY <1>5, <1>6, <2>1, <3>1 DEF Is
    <2>2. CASE ~ log.error
        <3>2. h = RecordCrsThresholdStats(ran, log)
            BY <2>2
        <3> HIDE DEF h
        <3>3. h \in FilterType
            BY <1>0, <3>2, CrsSound DEF Sound
        <3>4. /\ SameInspection(ran, h) /\ SameFlags(ran, h) /\ SameEvents(ran, h)
              /\ SameVerdictCounts(ran.stats, h.stats)
              /\ h.security = ran.security /\ h.transaction = ran.transaction
              /\ h.phases = ran.phases /\ h.logging_finished = ran.logging_finished
              /\ h.stats.logging_errors = ran.stats.logging_errors
              /\ \A path \in Paths :
                    /\ h.stats.detection_only_exceeded[path] <= h.stats.threshold_exceeded[path]
                    /\ h.stats.threshold_exceeded[path] <= 1
            <4>1. /\ ran \in FilterType
                  /\ \A path \in Paths : /\ ran.stats.threshold_exceeded[path] = 0
                                         /\ ran.stats.detection_only_exceeded[path] = 0
                BY <1>2, <1>5
            <4>2. QED
                BY <3>2, <4>1, CrsTells
        <3>5. SameInspection(f, h) /\ SameFlags(f, h)
            BY <1>2, <3>4 DEF SameInspection, SameFlags
        <3>6. SameEvents(f, h)
            BY <1>2, <3>4 DEF SameEvents
        <3>7. h.stats.logging_errors = 0 /\ Is(log.error) = 0
            BY <1>2, <1>5, <2>2, <3>4 DEF Is
        <3>8. \A path \in Paths : h.stats.threshold_exceeded[path] \in Nat
            BY <3>3 DEF FilterType, Stats, Counters
        <3>9. QED
            BY <1>2, <3>3, <3>4, <3>5, <3>6, <3>7, <3>8
    <2>3. QED
        BY <2>1, <2>2
<1> HIDE DEF h
<1>8. /\ SameInspection(h, g) /\ SameFlags(h, g) /\ SameScores(h, g)
      /\ SameVerdictCounts(h.stats, g.stats)
      /\ g.security = h.security /\ g.transaction = h.transaction
    BY <1>3, <1>4, <1>7, PublishTells
<1>9. RanBy(g, 5)
    BY <1>1, <1>7, <1>8, PhaseRan, SMTT(20) DEF SameScores
<1>10. ScoresCounted(g)
    BY <1>7, <1>8, <1>9 DEF ScoresCounted, SameScores, Is
<1>11. /\ SameInspection(f, g) /\ SameFlags(f, g) /\ SameVerdictCounts(f.stats, g.stats)
       /\ g.phases = Append(f.phases, 5) /\ g.logging_finished
    BY <1>7, <1>8 DEF SameInspection, SameFlags, SameVerdictCounts, SameScores
<1>12. QED
    BY <1>3, <1>4, <1>7, <1>8, <1>10, <1>11

\* What phase 5 says is told once, with the verdict: by its own event, or not
\* at all when the event of an error came before it.
LEMMA FinishLoggingTells ==
    ASSUME NEW f, NEW held, Sound(f, held), NEW log \in LoggingResult,
           NEW g, g = FinishLogging(f, log),
           f.transaction, ~ f.logging_finished, ScoresCounted(f), Reasoned(f.security)
    PROVE  /\ Unpublished(f) => Published(g) \/ Unpublished(g)
           /\ Unpublished(f) /\ f.security.outcome # "Allowed" => Published(g)
           /\ Published(f) /\ f.security.reason \in ErrorReasons =>
                Published(g) /\ SameEvents(f, g)
<1>1. PICK h \in FilterType, said \in LoggingResult :
            /\ g = PublishSecurityEvent(h, said)
            /\ SameEvents(f, h) /\ h.security = f.security
            /\ said.error = log.error
            /\ h.stats.logging_errors = Is(log.error)
    BY FinishLoggingRuns
<1>2. /\ g.security = h.security /\ g.stats.logging_errors = Is(said.error)
      /\ h.security_event_published \/ ~ Notable(h, said) => g = h
      /\ Untold(h) /\ Notable(h, said) =>
            Told(g) /\ g.events[1].logging_error = said.error
    BY <1>1, PublishTells DEF SameScores
<1>3. ASSUME Unpublished(f)
      PROVE  /\ Published(g) \/ Unpublished(g)
             /\ f.security.outcome # "Allowed" => Published(g)
    <2>1. Untold(h)
        BY <1>1, <1>3 DEF Unpublished, Untold, SameEvents
    <2>2. CASE Notable(h, said)
        BY <1>2, <2>1, <2>2 DEF Published, LossKept, Is
    <2>3. CASE ~ Notable(h, said)
        BY <1>1, <1>2, <2>1, <2>3 DEF Unpublished, Notable, Is
    <2>4. QED
        BY <2>2, <2>3
<1>4. ASSUME Published(f), f.security.reason \in ErrorReasons
      PROVE  Published(g) /\ SameEvents(f, g)
    <2>1. g = h /\ Told(h)
        BY <1>1, <1>2, <1>4 DEF Published, Told, SameEvents
    <2>2. ~ f.events[1].logging_error
        <3>1. f.stats.logging_errors # 1
            <4>1. "Request" \in Paths /\ f.stats \in Stats /\ ~ RanBy(f, 5)
                BY DEF Paths, Sound, FilterType, ScoresCounted
            <4>2. /\ f.stats.threshold_exceeded["Request"] \in Nat
                  /\ f.stats.logging_errors \in Nat
                BY <4>1 DEF Stats, Counters
            <4>3. f.stats.threshold_exceeded["Request"] + f.stats.logging_errors <= 0
                BY <4>1 DEF ScoresCounted, Is
            <4>4. QED
                BY <4>2, <4>3
        <3>2. QED
            BY <1>4, <3>1 DEF Published, LossKept
    <2>3. QED
        BY <1>1, <1>4, <2>1, <2>2 DEF Published, LossKept, SameEvents
<1>5. QED
    BY <1>3, <1>4

-----------------------------------------------------------------------------
(* Verdicts *)

\* Filter g is f with a verdict on a path.  No callback inspects any more: the
\* stream is answered locally, or has failed open and holds no transaction.
Decides(f, g, path) ==
    /\ Decided(g) /\ SameInspection(f, g)
    /\ g.security # Allowed /\ g.security.phase = path
    /\ g.local_reply \/ (g.engine_bypassed /\ ~ g.transaction)
    /\ g.phases \in {f.phases, Append(f.phases, 5)}

\* A handler that decides after a step that ran no phase has decided from the
\* record before that step.
LEMMA DecidesFrom ==
    ASSUME NEW f, NEW h, NEW g, NEW path, Decides(h, g, path),
           SameInspection(f, h), h.phases = f.phases
    PROVE  Decides(f, g, path)
BY DEF Decides, SameInspection

\* A stream that is still allowed has counted no verdict.
LEMMA AllowedCounts ==
    ASSUME NEW s, VerdictCounted(s, Allowed)
    PROVE  /\ s.runtime_errors = 0 /\ s.failure_mode_allowed = 0
           /\ s.body_memory_budget_exceeded = 0
           /\ \A path \in Paths : s.interventions[path] = 0 /\ s.body_overflow[path] = 0
BY DEF VerdictCounted, Allowed, Is

\* Statistics that differ in the counters of verdicts only.
CountersOnly(s, t) ==
    /\ t.security_events = s.security_events
    /\ t.security_event_rule_truncations = s.security_event_rule_truncations
    /\ t.logging_errors = s.logging_errors
    /\ t.threshold_exceeded = s.threshold_exceeded
    /\ t.detection_only_exceeded = s.detection_only_exceeded
    /\ t.body_bypassed = s.body_bypassed

\* Counting a verdict and setting it.
LEMMA MarkedFields ==
    ASSUME NEW f \in FilterType, NEW s \in Stats, CountersOnly(f.stats, s),
           NEW outcome, NEW reason, NEW path,
           NEW h, h = SetSecurityOutcome([f EXCEPT !.stats = s], outcome, reason, path)
    PROVE  /\ h.stats = s
           /\ h.security = [outcome |-> outcome, reason |-> reason, phase |-> path]
           /\ SameInspection(f, h) /\ SameEvents(f, h) /\ SameFlags(f, h) /\ SameScores(f, h)
           /\ h.transaction = f.transaction
BY DEF FilterType, SetSecurityOutcome, CountersOnly, SameInspection, SameEvents, SameFlags,
       SameScores

\* sendRuntimeError tells the verdict before it replies.
LEMMA SendRuntimeErrorTells ==
    ASSUME NEW f, NEW held, Sound(f, held), Unpublished(f), f.security.outcome # "Allowed",
           Reasoned(f.security),
           NEW g, g = SendRuntimeError(f)
    PROVE  /\ g.local_reply /\ Published(g)
           /\ g.security = f.security
           /\ SameInspection(f, g) /\ SameScores(f, g) /\ SameVerdictCounts(f.stats, g.stats)
<1> DEFINE r == [f EXCEPT !.local_reply = TRUE]
           p == PublishSecurityEvent(r, NoResult)
<1>1. /\ r \in FilterType /\ r.local_reply /\ r.security = f.security /\ Unpublished(r)
      /\ SameInspection(f, r) /\ SameScores(f, r) /\ r.stats = f.stats
    BY ZenonT(30) DEF Sound, FilterType, Unpublished, Untold, SameInspection, SameScores
<1>2. Sound(r, held)
    BY RepliedSound
<1>3. g = [p EXCEPT !.replying = TRUE]
    BY DEF SendRuntimeError, SendLocalReply
<1>4. Notable(r, NoResult)
    BY <1>1 DEF Notable
<1> HIDE DEF r
<1>5. p \in FilterType
    BY <1>2, NoResultType, PublishSound DEF Sound
<1>6. /\ SameInspection(r, p) /\ SameFlags(r, p) /\ SameScores(r, p)
      /\ SameVerdictCounts(r.stats, p.stats) /\ p.security = r.security /\ Published(p)
    BY <1>1, <1>4, PublishKeepsLoss
<1> HIDE DEF p
<1>7. /\ SameInspection(p, g) /\ SameScores(p, g) /\ g.stats = p.stats
      /\ g.security = p.security /\ g.local_reply = p.local_reply
      /\ g.security_event_published = p.security_event_published /\ g.events = p.events
    BY <1>3, <1>5 DEF FilterType, SameInspection, SameScores
<1>8. SameInspection(f, g) /\ SameScores(f, g)
    BY <1>1, <1>6, <1>7 DEF SameInspection, SameScores
<1>9. QED
    BY <1>1, <1>6, <1>7, <1>8 DEF SameFlags, SameVerdictCounts, Published, Told, LossKept

\* What an error verdict leaves behind once it was counted and set.
LEMMA SendRuntimeErrorDecides ==
    ASSUME NEW f, NEW held, Sound(f, held), Unpublished(f), ScoresCounted(f),
           VerdictCounted(f.stats, f.security),
           f.security.outcome \in {"Blocked", "Error"},
           f.security.reason \in ErrorReasons,
           f.security.phase \in Paths,
           NEW g, g = SendRuntimeError(f)
    PROVE  Decides(f, g, f.security.phase)
<1>1. f.security # Allowed /\ f.security.outcome # "Allowed" /\ Reasoned(f.security)
    BY DEF Allowed, Paths, ErrorReasons, Reasoned
<1>2. /\ g.local_reply /\ Published(g)
      /\ g.security = f.security
      /\ SameInspection(f, g) /\ SameScores(f, g) /\ SameVerdictCounts(f.stats, g.stats)
    BY <1>1, SendRuntimeErrorTells
<1>3. VerdictCounted(g.stats, g.security)
    BY <1>2 DEF VerdictCounted, SameVerdictCounts
<1>4. ScoresCounted(g) /\ g.phases = f.phases
    BY <1>2 DEF ScoresCounted, SameScores, RanBy
<1>5. QED
    BY <1>1, <1>2, <1>3, <1>4 DEF Decides, Decided, ErrorReasons

\* A helper that counts a verdict of its own and leaves the rest to
\* sendRuntimeError.
LEMMA MarkedDecides ==
    ASSUME NEW f, NEW held, Sound(f, held), NEW s \in Stats, CountersOnly(f.stats, s),
           SameGauges(s, f.stats), Unpublished(f), ScoresCounted(f),
           NEW outcome \in {"Blocked", "Error"},
           NEW reason \in ErrorReasons,
           NEW path \in Paths,
           VerdictCounted(s, [outcome |-> outcome, reason |-> reason, phase |-> path])
    PROVE  Decides(f, SendRuntimeError(SetSecurityOutcome([f EXCEPT !.stats = s],
                                                          outcome, reason, path)), path)
<1> DEFINE counted == [f EXCEPT !.stats = s]
           h == SetSecurityOutcome(counted, outcome, reason, path)
<1>1. f \in FilterType
    BY DEF Sound
<1>2. /\ h.stats = s
      /\ h.security = [outcome |-> outcome, reason |-> reason, phase |-> path]
      /\ SameInspection(f, h) /\ SameEvents(f, h) /\ SameFlags(f, h) /\ SameScores(f, h)
    BY <1>1, MarkedFields
<1>3. Sound(counted, held)
    BY Recounted
<1> HIDE DEF counted
<1>4. Sound(h, held)
    BY <1>3, SetSound DEF Outcomes, Reasons, ErrorReasons
<1> HIDE DEF h
<1>5. Unpublished(h) /\ ScoresCounted(h) /\ h.phases = f.phases
    BY <1>2 DEF Unpublished, Untold, SameEvents, ScoresCounted, SameScores, RanBy
<1>6. Decides(h, SendRuntimeError(h), path)
    BY <1>2, <1>4, <1>5, SendRuntimeErrorDecides
<1>7. QED
    BY <1>2, <1>5, <1>6, DecidesFrom DEF h, counted

\* evaluate, failing closed.
LEMMA FailClosedDecides ==
    ASSUME NEW f, NEW held, Sound(f, held), Undecided(f), NEW path \in Paths
    PROVE  Decides(f, FailClosed([f EXCEPT !.stats.runtime_errors = @ + 1], path), path)
<1> DEFINE s == [f.stats EXCEPT !.runtime_errors = @ + 1]
           v == [outcome |-> "Error", reason |-> "RuntimeError", phase |-> path]
<1>1. f \in FilterType /\ f.stats \in Stats /\ VerdictCounted(f.stats, Allowed)
    BY DEF Sound, FilterType, Undecided
<1>2. [f EXCEPT !.stats.runtime_errors = @ + 1] = [f EXCEPT !.stats = s]
    BY <1>1 DEF FilterType
<1>3. s \in Stats /\ CountersOnly(f.stats, s) /\ SameGauges(s, f.stats)
    BY <1>1 DEF Stats, CountersOnly, SameGauges
<1>4. VerdictCounted(s, v)
    <2>1. /\ s.runtime_errors = 1 /\ s.failure_mode_allowed = 0
          /\ s.body_memory_budget_exceeded = 0
          /\ \A p \in Paths : s.interventions[p] = 0 /\ s.body_overflow[p] = 0
        BY <1>1, AllowedCounts DEF Stats
    <2> HIDE DEF s
    <2>2. QED
        BY <2>1 DEF VerdictCounted, Is
<1> HIDE DEF s
<1>5. QED
    BY <1>2, <1>3, <1>4, MarkedDecides DEF ErrorReasons, FailClosed, Undecided

\* sendBodyMemoryBudgetExceeded
LEMMA BudgetExceededDecides ==
    ASSUME NEW f, NEW held, Sound(f, held), Undecided(f), NEW path \in Paths
    PROVE  Decides(f, SendBodyMemoryBudgetExceeded(f, path), path)
<1> DEFINE s == [f.stats EXCEPT !.body_memory_budget_exceeded = @ + 1]
           v == [outcome |-> "Error", reason |-> "BodyMemoryBudgetExceeded", phase |-> path]
<1>1. f \in FilterType /\ f.stats \in Stats /\ VerdictCounted(f.stats, Allowed)
    BY DEF Sound, FilterType, Undecided
<1>2. [f EXCEPT !.stats.body_memory_budget_exceeded = @ + 1] = [f EXCEPT !.stats = s]
    BY <1>1 DEF FilterType
<1>3. s \in Stats /\ CountersOnly(f.stats, s) /\ SameGauges(s, f.stats)
    BY <1>1 DEF Stats, CountersOnly, SameGauges
<1>4. VerdictCounted(s, v)
    <2>1. /\ s.runtime_errors = 0 /\ s.failure_mode_allowed = 0
          /\ s.body_memory_budget_exceeded = 1
          /\ \A p \in Paths : s.interventions[p] = 0 /\ s.body_overflow[p] = 0
        BY <1>1, AllowedCounts DEF Stats
    <2> HIDE DEF s
    <2>2. QED
        BY <2>1 DEF VerdictCounted, Is
<1> HIDE DEF s
<1>5. QED
    BY <1>2, <1>3, <1>4, MarkedDecides DEF ErrorReasons, SendBodyMemoryBudgetExceeded, Undecided

\* sendBodyOverflow
LEMMA BodyOverflowDecides ==
    ASSUME NEW f, NEW held, Sound(f, held), Undecided(f), NEW path \in Paths
    PROVE  Decides(f, SendBodyOverflow(f, path), path)
<1> DEFINE c == [f.stats.body_overflow EXCEPT ![path] = @ + 1]
           s == [f.stats EXCEPT !.body_overflow = c]
           r == [f EXCEPT !.local_reply = TRUE]
           outcome == IF path = "Request" THEN "Blocked" ELSE "Error"
           v == [outcome |-> outcome, reason |-> "BodyOverflow", phase |-> path]
<1>1. f \in FilterType /\ f.stats \in Stats /\ VerdictCounted(f.stats, Allowed)
    BY DEF Sound, FilterType, Undecided
<1>2. [f EXCEPT !.local_reply = TRUE, !.stats.body_overflow[path] = @ + 1]
        = [r EXCEPT !.stats = s]
    BY <1>1 DEF FilterType
<1>3. /\ c \in Counters
      /\ \A p \in Paths : c[p] = Is(p = path)
    BY <1>1, AllowedCounts DEF Stats, Counters, Is
<1> HIDE DEF c
<1>4. s \in Stats /\ CountersOnly(f.stats, s) /\ SameGauges(s, f.stats)
    BY <1>1, <1>3 DEF Stats, CountersOnly, SameGauges
<1>5. VerdictCounted(s, v)
    <2>1. /\ s.runtime_errors = 0 /\ s.failure_mode_allowed = 0
          /\ s.body_memory_budget_exceeded = 0 /\ s.body_overflow = c
          /\ \A p \in Paths : s.interventions[p] = 0
        BY <1>1, AllowedCounts DEF Stats
    <2> HIDE DEF s
    <2>2. QED
        BY <1>3, <2>1 DEF VerdictCounted, Is
<1> HIDE DEF s
<1>6. /\ r.stats = f.stats /\ SameInspection(f, r) /\ r.phases = f.phases
      /\ Unpublished(r) /\ ScoresCounted(r)
    BY <1>1 DEF FilterType, SameInspection, Undecided, Unpublished, Untold, ScoresCounted, RanBy
<1>7. Sound(r, held)
    BY RepliedSound
<1>8. SendBodyOverflow(f, path)
        = SendRuntimeError(SetSecurityOutcome([r EXCEPT !.stats = s],
                                              outcome, "BodyOverflow", path))
    BY <1>2 DEF SendBodyOverflow
<1> HIDE DEF r
<1>9. outcome \in {"Blocked", "Error"}
    OBVIOUS
<1> HIDE DEF outcome
<1>10. Decides(r, SendBodyOverflow(f, path), path)
    BY <1>4, <1>5, <1>6, <1>7, <1>8, <1>9, MarkedDecides DEF ErrorReasons
<1>11. QED
    BY <1>6, <1>10, DecidesFrom

\* evaluate, failing open: the event is published before the release.
LEMMA FailOpenDecides ==
    ASSUME NEW f, NEW held, Sound(f, held), Undecided(f), NEW path \in Paths
    PROVE  Decides(f, FailOpen([f EXCEPT !.stats.runtime_errors = @ + 1], path), path)
<1> DEFINE s == [f.stats EXCEPT !.runtime_errors = @ + 1, !.failure_mode_allowed = @ + 1]
           b == [f EXCEPT !.engine_bypassed = TRUE]
           counted == [b EXCEPT !.stats = s]
           v == [outcome |-> "Bypassed", reason |-> "RuntimeError", phase |-> path]
           h == SetSecurityOutcome(counted, "Bypassed", "RuntimeError", path)
           p == PublishSecurityEvent(h, NoResult)
           g == ReleaseResources(p)
<1>1. f \in FilterType /\ f.stats \in Stats /\ VerdictCounted(f.stats, Allowed)
    BY DEF Sound, FilterType, Undecided
<1>2. FailOpen([f EXCEPT !.stats.runtime_errors = @ + 1], path) = g
    <2>1. [[f EXCEPT !.stats.runtime_errors = @ + 1]
                EXCEPT !.stats.failure_mode_allowed = @ + 1, !.engine_bypassed = TRUE] = counted
        BY <1>1 DEF FilterType, Stats
    <2>2. QED
        BY <2>1 DEF FailOpen
<1>3. s \in Stats /\ CountersOnly(f.stats, s) /\ SameGauges(s, f.stats)
    <2> DEFINE m == f.stats.runtime_errors + 1
               n == f.stats.failure_mode_allowed + 1
    <2>1. m \in Nat /\ n \in Nat
        BY <1>1 DEF Stats
    <2>2. s = [f.stats EXCEPT !.runtime_errors = m, !.failure_mode_allowed = n]
        OBVIOUS
    <2> HIDE DEF m, n, s
    <2>3. QED
        BY <1>1, <2>1, <2>2 DEF Stats, CountersOnly, SameGauges
<1>4. VerdictCounted(s, v)
    <2>1. /\ s.runtime_errors = 1 /\ s.failure_mode_allowed = 1
          /\ s.body_memory_budget_exceeded = 0
          /\ \A q \in Paths : s.interventions[q] = 0 /\ s.body_overflow[q] = 0
        BY <1>1, AllowedCounts DEF Stats
    <2> HIDE DEF s
    <2>2. QED
        BY <2>1 DEF VerdictCounted, Is
<1> HIDE DEF s
<1>5. Sound(b, held)
    BY DEF Sound, Accounted, FilterType
<1>6. /\ b \in FilterType /\ b.stats = f.stats /\ b.engine_bypassed
      /\ SameInspection(f, b) /\ SameEvents(f, b) /\ SameScores(f, b)
    BY <1>1 DEF FilterType, SameInspection, SameEvents, SameScores
<1> HIDE DEF b
<1>7. Sound(counted, held)
    BY <1>3, <1>5, <1>6, Recounted
<1>8. /\ h.stats = s /\ h.security = v
      /\ SameInspection(b, h) /\ SameEvents(b, h) /\ SameFlags(b, h) /\ SameScores(b, h)
    BY <1>3, <1>6, MarkedFields
<1> HIDE DEF counted
<1>9. Sound(h, held)
    BY <1>7, SetSound DEF Outcomes, Reasons
<1> HIDE DEF h
<1>10. Unpublished(h) /\ Notable(h, NoResult) /\ h \in FilterType
    BY <1>3, <1>6, <1>8, <1>9
    DEF Undecided, Unpublished, Untold, SameEvents, SameScores, CountersOnly, Notable, Sound
<1>11. /\ SameInspection(h, p) /\ SameFlags(h, p) /\ SameScores(h, p)
       /\ SameVerdictCounts(h.stats, p.stats) /\ p.security = h.security /\ Published(p)
    <2>1. Reasoned(h.security)
        BY <1>8 DEF Reasoned, Paths
    <2>2. QED
        BY <1>10, <2>1, PublishKeepsLoss
<1>12. Sound(p, held)
    BY <1>9, NoResultType, PublishSound
<1> HIDE DEF p
<1>13. SameInspection(p, g) /\ SameVerdict(p, g) /\ ~ g.transaction
    BY <1>12, ReleaseTells
<1> HIDE DEF g
<1>14. SameInspection(f, g)
    BY <1>6, <1>8, <1>11, <1>13 DEF SameInspection
<1>15. Published(g) /\ g.security = v /\ g.engine_bypassed
    BY <1>6, <1>8, <1>11, <1>13 DEF SameVerdict, SameEvents, SameFlags, SameScores, Published, Told, LossKept
<1>16. SameScores(f, g)
    BY <1>6, <1>8, <1>11, <1>13 DEF SameVerdict, SameScores
<1>17. VerdictCounted(g.stats, v)
    BY <1>4, <1>8, <1>11, <1>13 DEF SameVerdict, SameVerdictCounts, VerdictCounted
<1>18. ScoresCounted(g) /\ g.phases = f.phases
    BY <1>16 DEF SameScores, ScoresCounted, RanBy, Undecided
<1>19. QED
    BY <1>2, <1>13, <1>14, <1>15, <1>17, <1>18 DEF Decides, Decided, Denied, Allowed

\* evaluate, for any error status.
LEMMA EvaluateDecides ==
    ASSUME NEW f, NEW held, Sound(f, held), Undecided(f), NEW status, NEW path \in Paths
    PROVE  Decides(f, Evaluate(f, status, path), path)
<1> DEFINE counted == [f EXCEPT !.stats.runtime_errors = @ + 1]
<1>1. Evaluate(f, status, path) \in {FailOpen(counted, path), FailClosed(counted, path)}
    BY DEF Evaluate
<1>2. Decides(f, FailOpen(counted, path), path) /\ Decides(f, FailClosed(counted, path), path)
    BY FailOpenDecides, FailClosedDecides
<1> HIDE DEF counted
<1>3. QED
    BY <1>1, <1>2

\* sendIntervention runs phase 5 and tells the verdict before it replies.
LEMMA SendInterventionDecides ==
    ASSUME NEW f, NEW held, Sound(f, held), Undecided(f), f.transaction,
           NEW path \in Paths, NEW log \in LoggingResult
    PROVE  Decides(f, SendIntervention(f, path, log), path)
<1> DEFINE r == [f EXCEPT !.local_reply = TRUE]
           h == SetSecurityOutcome(r, "Blocked", "RuleIntervention", path)
           l == FinishLogging(h, log)
           c == [l.stats.interventions EXCEPT ![path] = @ + 1]
           s == [l.stats EXCEPT !.interventions = c]
           g == SendIntervention(f, path, log)
           v == [outcome |-> "Blocked", reason |-> "RuleIntervention", phase |-> path]
<1>1. f \in FilterType /\ f.stats \in Stats /\ VerdictCounted(f.stats, Allowed)
    BY DEF Sound, FilterType, Undecided
<1>2. g = [[l EXCEPT !.stats = s] EXCEPT !.replying = TRUE]
    BY DEF SendIntervention, SendLocalReply
<1>3. Sound(r, held)
    BY RepliedSound
<1>4. /\ SameInspection(f, h) /\ SameEvents(f, h) /\ SameScores(f, h)
      /\ h.stats = f.stats /\ h.security = v /\ h.local_reply /\ h.transaction
    BY <1>1 DEF FilterType, SetSecurityOutcome, SameInspection, SameEvents, SameScores
<1> HIDE DEF r
<1>5. Sound(h, held)
    BY <1>3, SetSound DEF Outcomes, Reasons
<1> HIDE DEF h
<1>6. Unpublished(h) /\ ScoresCounted(h) /\ ~ h.logging_finished /\ Reasoned(h.security)
    <2>1. Unpublished(h)
        BY <1>4 DEF Undecided, Unpublished, Untold, SameEvents
    <2>2. ScoresCounted(h) /\ ~ h.logging_finished
        BY <1>4 DEF Undecided, ScoresCounted, SameScores, RanBy
    <2>3. Reasoned(h.security)
        BY <1>4 DEF Reasoned, Paths
    <2>4. QED
        BY <2>1, <2>2, <2>3
<1>7. /\ SameInspection(h, l) /\ SameFlags(h, l)
      /\ SameVerdictCounts(h.stats, l.stats)
      /\ l.security = h.security
      /\ l.phases = Append(h.phases, 5) /\ l.logging_finished /\ ScoresCounted(l)
      /\ Published(l)
    BY <1>4, <1>5, <1>6, FinishLoggingRuns, FinishLoggingTells
<1>8. Sound(l, held)
    BY <1>5, FinishLoggingSound
<1> HIDE DEF l
<1>9. l \in FilterType /\ l.stats \in Stats
    BY <1>8 DEF Sound, FilterType
<1>10. \A p \in Paths : c[p] = Is(p = path)
    <2>1. /\ l.stats.interventions \in Counters
          /\ \A p \in Paths : l.stats.interventions[p] = 0
        BY <1>1, <1>4, <1>7, <1>9, AllowedCounts, SMTT(20) DEF SameVerdictCounts, Stats
    <2>2. QED
        BY <2>1 DEF Counters, Is
<1> HIDE DEF c
<1>11. CountersOnly(l.stats, s)
    BY <1>9 DEF Stats, CountersOnly
<1>12. VerdictCounted(s, v)
    <2>1. /\ s.runtime_errors = 0 /\ s.failure_mode_allowed = 0
          /\ s.body_memory_budget_exceeded = 0 /\ s.interventions = c
          /\ \A p \in Paths : s.body_overflow[p] = 0
        BY <1>1, <1>4, <1>7, <1>9, AllowedCounts, SMTT(20) DEF Stats, SameVerdictCounts
    <2> HIDE DEF s
    <2>2. QED
        BY <1>10, <2>1 DEF VerdictCounted, Is
<1> HIDE DEF s
<1>13. /\ g.stats = s /\ SameInspection(l, g) /\ g.security = l.security
       /\ g.local_reply = l.local_reply /\ g.phases = l.phases
       /\ g.logging_finished = l.logging_finished
       /\ g.security_event_published = l.security_event_published /\ g.events = l.events
    BY <1>2, <1>9, <1>11 DEF FilterType, SameInspection, CountersOnly
<1> HIDE DEF g
<1>14. SameInspection(f, g)
    BY <1>4, <1>7, <1>13 DEF SameInspection
<1>15. Published(g) /\ ScoresCounted(g)
    BY <1>7, <1>11, <1>13 DEF Published, Told, LossKept, ScoresCounted, RanBy, CountersOnly
<1>16. g.local_reply /\ g.security = v /\ g.phases = Append(f.phases, 5) /\ g.logging_finished
    BY <1>4, <1>7, <1>13 DEF SameFlags, SameScores
<1>17. QED
    BY <1>12, <1>13, <1>14, <1>15, <1>16 DEF Decides, Decided, Denied, Allowed, g

\* Any engine call that is not answered with success.
LEMMA StopDecides ==
    ASSUME NEW f, NEW held, Sound(f, held), Undecided(f), f.transaction,
           NEW path \in Paths, NEW g \in Stopped(f, path)
    PROVE  Decides(f, g, path)
BY LoggingAssumption, EvaluateDecides, SendInterventionDecides DEF Stopped, Stop

-----------------------------------------------------------------------------
(* Steps that decide nothing *)

\* A native phase other than the last.
LEMMA RunPhaseTells ==
    ASSUME NEW f, NEW held, Sound(f, held), NEW n \in 1..4, NEW g, g = RunPhase(f, n)
    PROVE  /\ SameInspection(f, g) /\ g.phases = Append(f.phases, n)
           /\ g.transaction = f.transaction
           /\ Undecided(f) => Undecided(g)
<1>1. f \in FilterType /\ f.phases \in Seq(1..5)
    BY DEF Sound, FilterType
<1>2. /\ SameInspection(f, g) /\ SameEvents(f, g) /\ SameFlags(f, g)
      /\ g.security = f.security /\ g.stats = f.stats
      /\ g.logging_finished = f.logging_finished
      /\ g.phases = Append(f.phases, n) /\ g.transaction = f.transaction
    BY <1>1 DEF FilterType, RunPhase, SameInspection, SameEvents, SameFlags
<1>3. RanBy(g, 5) <=> RanBy(f, 5)
    BY <1>1, <1>2, PhaseRan, SMTT(20)
<1>4. ScoresCounted(f) => ScoresCounted(g)
    <2>1. Is(RanBy(g, 5)) = Is(RanBy(f, 5))
        BY <1>3 DEF Is
    <2>2. QED
        BY <1>2, <1>3, <2>1 DEF ScoresCounted
<1>5. Undecided(f) => Undecided(g)
    BY <1>2, <1>4 DEF Undecided, Unpublished, Untold, SameEvents, SameFlags
<1>6. QED
    BY <1>2, <1>5

\* What RunBodyPhase does to the state of inspection.
BodyRan(f, g, path) ==
    /\ g.settings = f.settings /\ g.disabled = f.disabled
    /\ g.stream_kind = f.stream_kind /\ g.bytes = f.bytes
    /\ g.response_headers_finished = f.response_headers_finished
    /\ g.appended = f.appended /\ g.stats.body_bypassed = f.stats.body_bypassed
    /\ g.finished = [f.finished EXCEPT ![path] = TRUE]
    /\ g.inspected = [f.inspected EXCEPT ![path] = f.appended[path]]
    /\ g.phases = Append(f.phases, BodyPhase(path))

\* The body phase of finishBody.
LEMMA RunBodyPhaseTells ==
    ASSUME NEW f, NEW held, Sound(f, held), Undecided(f), NEW path \in Paths,
           NEW g, g = RunBodyPhase(f, path)
    PROVE  BodyRan(f, g, path) /\ Undecided(g) /\ g.transaction = f.transaction
<1> DEFINE r == RunPhase(f, BodyPhase(path))
           b == [r.finished EXCEPT ![path] = TRUE]
           c == [r.inspected EXCEPT ![path] = f.appended[path]]
<1>1. BodyPhase(path) \in 1..4
    BY DEF BodyPhase
<1>2. g = [r EXCEPT !.finished = b, !.inspected = c]
    BY DEF RunBodyPhase
<1>3. /\ SameInspection(f, r) /\ r.phases = Append(f.phases, BodyPhase(path))
      /\ r.transaction = f.transaction /\ Undecided(r)
    BY <1>1, RunPhaseTells
<1>4. r \in FilterType
    BY <1>1, RunPhaseSound DEF Sound
<1> HIDE DEF r
<1>5. b = [f.finished EXCEPT ![path] = TRUE]
      /\ c = [f.inspected EXCEPT ![path] = f.appended[path]]
    BY <1>3 DEF SameInspection
<1> HIDE DEF b, c
<1>6. /\ g.finished = b /\ g.inspected = c /\ SameVerdict(r, g) /\ g.transaction = r.transaction
      /\ g.settings = r.settings /\ g.disabled = r.disabled
      /\ g.stream_kind = r.stream_kind /\ g.bytes = r.bytes
      /\ g.response_headers_finished = r.response_headers_finished
      /\ g.appended = r.appended /\ g.stats = r.stats /\ g.phases = r.phases
    BY <1>2, <1>4 DEF FilterType, SameVerdict, SameEvents, SameFlags, SameScores,
                      SameVerdictCounts
<1>7. Undecided(g)
    BY <1>3, <1>6, SameVerdictDecided
<1>8. QED
    BY <1>3, <1>5, <1>6, <1>7 DEF BodyRan, SameInspection

\* Filter g is f after phase 5 and the release, with nothing against it.
Closes(f, g) ==
    /\ Decided(g) /\ SameInspection(f, g)
    /\ g.security = Allowed
    /\ ~ g.transaction /\ ~ g.local_reply /\ ~ g.engine_bypassed
    /\ g.phases = Append(f.phases, 5)

\* Phase 5 of a stream that passed decides that it did.
LEMMA LoggingDecides ==
    ASSUME NEW f, NEW held, Sound(f, held), Undecided(f), f.transaction,
           NEW log \in LoggingResult, NEW g, g = FinishLogging(f, log)
    PROVE  /\ Decided(g) /\ SameInspection(f, g) /\ SameFlags(f, g)
           /\ g.security = Allowed /\ g.phases = Append(f.phases, 5)
<1>1. ~ f.logging_finished /\ ScoresCounted(f) /\ Unpublished(f) /\ f.security = Allowed
      /\ Reasoned(f.security)
    BY DEF Undecided, Reasoned, Allowed
<1>2. /\ SameInspection(f, g) /\ SameFlags(f, g)
      /\ SameVerdictCounts(f.stats, g.stats)
      /\ g.security = f.security
      /\ g.phases = Append(f.phases, 5) /\ g.logging_finished /\ ScoresCounted(g)
      /\ Published(g) \/ Unpublished(g)
    BY <1>1, FinishLoggingRuns, FinishLoggingTells
<1>3. VerdictCounted(g.stats, g.security)
    BY <1>2 DEF Undecided, VerdictCounted, SameVerdictCounts
<1>4. ~ Denied(g)
    BY <1>1, <1>2 DEF Denied, Allowed
<1>5. QED
    BY <1>1, <1>2, <1>3, <1>4 DEF Decided, Undecided, SameFlags

\* Phase 5 after the last body, with no verdict reached, and then the release:
\* the stream is closed and its event, if there is one to tell, is out.
LEMMA ClosingDecides ==
    ASSUME NEW f, NEW held, Sound(f, held), Undecided(f), f.transaction,
           NEW log \in LoggingResult
    PROVE  Closes(f, ReleaseResources(FinishLogging(f, log)))
<1> DEFINE l == FinishLogging(f, log)
           g == ReleaseResources(l)
<1>1. /\ Decided(l) /\ SameInspection(f, l) /\ SameFlags(f, l)
      /\ l.security = Allowed /\ l.phases = Append(f.phases, 5)
    BY LoggingDecides
<1>2. Sound(l, held)
    BY FinishLoggingSound
<1> HIDE DEF l
<1>3. SameInspection(l, g) /\ SameVerdict(l, g) /\ ~ g.transaction
    BY <1>2, ReleaseTells
<1> HIDE DEF g
<1>4. Decided(g)
    BY <1>1, <1>3, SameVerdictDecided
<1>5. SameInspection(f, g)
    BY <1>1, <1>3 DEF SameInspection
<1>6. QED
    BY <1>1, <1>3, <1>4, <1>5
    DEF Closes, SameVerdict, SameFlags, SameScores, Undecided, g, l

\* finishBody
LEMMA FinishBodyDecides ==
    ASSUME NEW f, NEW held, Sound(f, held), Undecided(f), f.transaction,
           NEW path \in Paths, NEW g \in FinishBody(f, path)
    PROVE  \/ f.finished[path] /\ g = f
           \/ /\ ~ f.finished[path]
              /\ \E ran : /\ BodyRan(f, ran, path) /\ Undecided(ran) /\ Sound(ran, held)
                          /\ \/ Decides(ran, g, path)
                             \/ Closes(ran, g) /\ LastBody(f, path)
                             \/ g = ran /\ Undecided(g) /\ g.transaction /\ ~ LastBody(f, path)
<1> DEFINE ran == RunBodyPhase(f, path)
<1>1. BodyRan(f, ran, path) /\ Undecided(ran) /\ ran.transaction
    BY RunBodyPhaseTells
<1>2. Sound(ran, held)
    BY RunBodyPhaseSound
<1>3. \/ f.finished[path] /\ g = f
      \/ /\ ~ f.finished[path]
         /\ \/ g \in Stopped(ran, path)
            \/ LastBody(f, path) /\ \E log \in LoggingResults :
                                        g = ReleaseResources(FinishLogging(ran, log))
            \/ ~ LastBody(f, path) /\ g = ran
    BY DEF FinishBody
<1> HIDE DEF ran
<1>4. QED
    BY <1>1, <1>2, <1>3, LoggingAssumption, StopDecides, ClosingDecides

\* What bypassBodyForStreaming does to the state of inspection.
BodyPassed(f, g, path) ==
    /\ g.settings = f.settings /\ g.disabled = f.disabled
    /\ g.stream_kind = f.stream_kind /\ g.bytes = f.bytes
    /\ g.response_headers_finished = f.response_headers_finished
    /\ g.appended = f.appended /\ g.inspected = f.inspected
    /\ g.finished = [f.finished EXCEPT ![path] = TRUE]
    /\ g.stats.body_bypassed = [f.stats.body_bypassed EXCEPT ![path] = @ + 1]
    /\ g.phases = f.phases

\* bypassBodyForStreaming
LEMMA BypassBodyDecides ==
    ASSUME NEW f, NEW held, Sound(f, held), Undecided(f), f.transaction,
           NEW path \in Paths, NEW g \in BypassBodyForStreaming(f, path)
    PROVE  \/ f.finished[path] /\ g = f
           \/ /\ ~ f.finished[path]
              /\ \E passed : /\ BodyPassed(f, passed, path) /\ Undecided(passed)
                             /\ Sound(passed, held)
                             /\ \/ Closes(passed, g) /\ LastBody(f, path)
                                \/ g = passed /\ Undecided(g) /\ g.transaction /\ ~ LastBody(f, path)
<1> DEFINE b == [f.finished EXCEPT ![path] = TRUE]
           c == [f.stats.body_bypassed EXCEPT ![path] = @ + 1]
           s == [f.stats EXCEPT !.body_bypassed = c]
           counted == [f EXCEPT !.stats = s]
           passed == [counted EXCEPT !.finished = b]
<1>1. f \in FilterType /\ f.stats \in Stats /\ c \in Counters /\ b \in [Paths -> BOOLEAN]
    BY Bump DEF Sound, FilterType, Stats
<1>2. [f EXCEPT !.finished[path] = TRUE, !.stats.body_bypassed[path] = @ + 1] = passed
    BY <1>1 DEF FilterType
<1>3. \/ f.finished[path] /\ g = f
      \/ /\ ~ f.finished[path]
         /\ \/ LastBody(f, path) /\ \E log \in LoggingResults :
                                        g = ReleaseResources(FinishLogging(passed, log))
            \/ ~ LastBody(f, path) /\ g = passed
    BY <1>2 DEF BypassBodyForStreaming
<1> HIDE DEF c
<1>4. /\ s \in Stats /\ SameGauges(s, f.stats) /\ SameVerdictCounts(f.stats, s)
      /\ s.security_events = f.stats.security_events
      /\ s.security_event_rule_truncations = f.stats.security_event_rule_truncations
      /\ s.logging_errors = f.stats.logging_errors
      /\ s.threshold_exceeded = f.stats.threshold_exceeded
      /\ s.detection_only_exceeded = f.stats.detection_only_exceeded
      /\ s.body_bypassed = c
    BY <1>1 DEF Stats, SameGauges, SameVerdictCounts
<1> HIDE DEF s, b
<1>5. Sound(counted, held)
    BY <1>4, Recounted
<1>6. Sound(passed, held)
    BY <1>1, <1>5 DEF Sound, Accounted, FilterType
<1>7. BodyPassed(f, passed, path) /\ SameVerdict(f, passed) /\ passed.transaction
    BY <1>1, <1>4 DEF FilterType, BodyPassed, SameVerdict, SameEvents, SameFlags, SameScores, b, c
<1> HIDE DEF passed
<1>8. Undecided(passed)
    BY <1>7, SameVerdictDecided
<1>9. QED
    BY <1>3, <1>6, <1>7, <1>8, LoggingAssumption, ClosingDecides

\* What reserving n bytes of a body does to the state of inspection.
BodyCharged(f, g, path, n) ==
    /\ g.settings = f.settings /\ g.disabled = f.disabled
    /\ g.stream_kind = f.stream_kind
    /\ g.bytes = [f.bytes EXCEPT ![path] = f.bytes[path] + n]
    /\ g.finished = f.finished
    /\ g.response_headers_finished = f.response_headers_finished
    /\ g.appended = f.appended /\ g.inspected = f.inspected
    /\ g.stats.body_bypassed = f.stats.body_bypassed
    /\ g.phases = f.phases

\* reserveBodyBytes
LEMMA ChargeTells ==
    ASSUME NEW f, NEW held, Sound(f, held), NEW path \in Paths, NEW n \in Nat,
           NEW g, g = Charge(f, path, n)
    PROVE  BodyCharged(f, g, path, n) /\ SameVerdict(f, g) /\ g.transaction = f.transaction
<1> DEFINE u == f.used + n
           c == f.charged + n
           m == f.stats.modsecurity_buffer_bytes + n
           b == [f.bytes EXCEPT ![path] = f.bytes[path] + n]
           s == [f.stats EXCEPT !.modsecurity_buffer_bytes = m]
<1>1. f \in FilterType /\ f.stats \in Stats
    BY DEF Sound, FilterType
<1>2. g = [f EXCEPT !.used = u, !.charged = c, !.stats = s, !.bytes = b]
    BY <1>1 DEF Charge, FilterType
<1> HIDE DEF u, c, m, b
<1>3. /\ SameVerdictCounts(f.stats, s) /\ s.security_events = f.stats.security_events
      /\ s.security_event_rule_truncations = f.stats.security_event_rule_truncations
      /\ s.logging_errors = f.stats.logging_errors
      /\ s.threshold_exceeded = f.stats.threshold_exceeded
      /\ s.detection_only_exceeded = f.stats.detection_only_exceeded
      /\ s.body_bypassed = f.stats.body_bypassed
    BY <1>1 DEF Stats, SameVerdictCounts
<1> HIDE DEF s
<1>4. QED
    BY <1>1, <1>2, <1>3
    DEF FilterType, BodyCharged, SameVerdict, SameEvents, SameFlags, SameScores, b

\* What appending n bytes to the transaction does to it.
BodyAppended(f, g, path, n) ==
    /\ g.settings = f.settings /\ g.disabled = f.disabled
    /\ g.stream_kind = f.stream_kind
    /\ g.bytes = [f.bytes EXCEPT ![path] = f.bytes[path] + n]
    /\ g.finished = f.finished
    /\ g.response_headers_finished = f.response_headers_finished
    /\ g.appended = [f.appended EXCEPT ![path] = f.appended[path] + n]
    /\ g.inspected = f.inspected
    /\ g.stats.body_bypassed = f.stats.body_bypassed
    /\ g.phases = f.phases

\* appendBody
LEMMA AppendTells ==
    ASSUME NEW f, NEW held, Sound(f, held), NEW path \in Paths, NEW n \in Nat,
           NEW c, Sound(c, held), BodyCharged(f, c, path, n),
           SameVerdict(f, c), c.transaction = f.transaction,
           NEW g, g = [c EXCEPT !.appended[path] = @ + n]
    PROVE  BodyAppended(f, g, path, n) /\ SameVerdict(f, g) /\ g.transaction = f.transaction
<1> DEFINE a == [f.appended EXCEPT ![path] = f.appended[path] + n]
<1>1. c \in FilterType
    BY DEF Sound
<1>2. g = [c EXCEPT !.appended = a]
    BY <1>1 DEF BodyCharged, FilterType
<1> HIDE DEF a
<1>3. /\ BodyAppended(f, g, path, n) /\ g.transaction = c.transaction
      /\ SameVerdict(c, g)
    BY <1>1, <1>2
    DEF FilterType, BodyCharged, BodyAppended, SameVerdict, SameVerdictCounts, SameEvents,
        SameFlags, SameScores, a
<1>4. SameVerdict(f, g)
    BY <1>3 DEF SameVerdict, SameVerdictCounts, SameEvents, SameFlags, SameScores
<1>5. QED
    BY <1>3, <1>4

\* Trailers that were not inspected are counted.
LEMMA TrailersTell ==
    ASSUME NEW f \in FilterType, NEW path \in Paths,
           NEW g, g = [f EXCEPT !.stats.trailers_uninspected[path] = @ + 1]
    PROVE  /\ SameInspection(f, g) /\ SameVerdict(f, g) /\ g.transaction = f.transaction
<1> DEFINE c == [f.stats.trailers_uninspected EXCEPT ![path] = @ + 1]
           s == [f.stats EXCEPT !.trailers_uninspected = c]
<1>1. f.stats \in Stats /\ g = [f EXCEPT !.stats = s]
    BY DEF FilterType
<1> HIDE DEF c
<1>2. /\ SameVerdictCounts(f.stats, s) /\ s.security_events = f.stats.security_events
      /\ s.security_event_rule_truncations = f.stats.security_event_rule_truncations
      /\ s.logging_errors = f.stats.logging_errors
      /\ s.threshold_exceeded = f.stats.threshold_exceeded
      /\ s.detection_only_exceeded = f.stats.detection_only_exceeded
      /\ s.body_bypassed = f.stats.body_bypassed
    BY <1>1 DEF Stats, SameVerdictCounts
<1> HIDE DEF s
<1>3. QED
    BY <1>1, <1>2
    DEF FilterType, SameInspection, SameVerdict, SameEvents, SameFlags, SameScores

\* The counter of trailers that are not inspected moves alone.
LEMMA TrailersSound ==
    ASSUME NEW f, NEW held, Sound(f, held), NEW path \in Paths
    PROVE  Sound([f EXCEPT !.stats.trailers_uninspected[path] = @ + 1], held)
<1> DEFINE c == [f.stats.trailers_uninspected EXCEPT ![path] = @ + 1]
           s == [f.stats EXCEPT !.trailers_uninspected = c]
<1>1. f.stats \in Stats /\ c \in Counters
    BY Bump DEF Sound, FilterType, Stats
<1> HIDE DEF c
<1>2. s \in Stats /\ SameGauges(s, f.stats)
    BY <1>1 DEF Stats, SameGauges
<1>3. Sound([f EXCEPT !.stats = s], held)
    BY <1>2, Recounted
<1>4. QED
    BY <1>3 DEF s, c

\* createTransaction
LEMMA CreateTells ==
    ASSUME NEW f \in FilterType, NEW g, g = CreateTransaction(f)
    PROVE  SameInspection(f, g) /\ SameVerdict(f, g) /\ g.transaction
<1> DEFINE n == f.stats.active_transactions + 1
           s == [f.stats EXCEPT !.active_transactions = n]
<1>1. f.stats \in Stats /\ g = [f EXCEPT !.transaction = TRUE, !.stats = s]
    BY DEF FilterType, CreateTransaction
<1> HIDE DEF n
<1>2. /\ SameVerdictCounts(f.stats, s) /\ s.security_events = f.stats.security_events
      /\ s.security_event_rule_truncations = f.stats.security_event_rule_truncations
      /\ s.logging_errors = f.stats.logging_errors
      /\ s.threshold_exceeded = f.stats.threshold_exceeded
      /\ s.detection_only_exceeded = f.stats.detection_only_exceeded
      /\ s.body_bypassed = f.stats.body_bypassed
    BY <1>1 DEF Stats, SameVerdictCounts
<1> HIDE DEF s
<1>3. QED
    BY <1>1, <1>2
    DEF FilterType, SameInspection, SameVerdict, SameEvents, SameFlags, SameScores

\* Phase 5 of a stream that was decided without it, which has told its verdict.
LEMMA LateLoggingTells ==
    ASSUME NEW f, NEW held, Sound(f, held), Decided(f),
           NEW log \in LoggingResult, NEW g, g = FinishLogging(f, log)
    PROVE  /\ Decided(g) /\ g.security = f.security /\ g.events = f.events
           /\ SameFlags(f, g)
<1>1. CASE f.logging_finished \/ ~ f.transaction
    BY <1>1 DEF FinishLogging, SameFlags
<1>2. CASE ~ f.logging_finished /\ f.transaction
    <2>1. ScoresCounted(f) /\ Published(f) /\ f.security.reason \in ErrorReasons
          /\ Reasoned(f.security)
        BY <1>2 DEF Sound, FilterType, Decided, Allowed, Reasons, ErrorReasons, Reasoned, Paths
    <2>2. /\ SameFlags(f, g) /\ SameVerdictCounts(f.stats, g.stats)
          /\ g.security = f.security /\ g.logging_finished /\ ScoresCounted(g)
          /\ Published(g) /\ SameEvents(f, g)
        BY <1>2, <2>1, FinishLoggingRuns, FinishLoggingTells
    <2>3. VerdictCounted(g.stats, g.security)
        BY <2>2 DEF Decided, VerdictCounted, SameVerdictCounts
    <2>4. QED
        BY <2>2, <2>3 DEF Decided, Denied, SameFlags, SameEvents
<1>3. QED
    BY <1>1, <1>2

\* The verdict onDestroy gives is told by phase 5, which runs after it.
LEMMA IncompleteDecides ==
    ASSUME NEW f, NEW held, Sound(f, held), Undecided(f), f.transaction,
           NEW log \in LoggingResult,
           NEW g, g = FinishLogging(MarkIncomplete(f), log)
    PROVE  Decided(g) /\ ~ Denied(g)
<1> DEFINE where == IF f.response_headers_finished THEN "Response" ELSE "Request"
           h == SetSecurityOutcome(f, "Incomplete", "StreamDestroyed", where)
<1>1. where \in Paths
    BY DEF Paths
<1>2. MarkIncomplete(f) = h
    BY DEF MarkIncomplete, Undecided, Allowed
<1> HIDE DEF where
<1>3. Sound(h, held)
    BY <1>1, SetSound DEF Outcomes, Reasons
<1>4. /\ h.security = [outcome |-> "Incomplete", reason |-> "StreamDestroyed", phase |-> where]
      /\ SameEvents(f, h) /\ SameFlags(f, h) /\ SameScores(f, h) /\ h.stats = f.stats
      /\ h.transaction = f.transaction
    BY DEF Sound, FilterType, SetSecurityOutcome, SameEvents, SameFlags, SameScores
<1> HIDE DEF h
<1>5. Unpublished(h) /\ ScoresCounted(h) /\ ~ h.logging_finished /\ Reasoned(h.security)
    <2>1. Unpublished(h)
        BY <1>4 DEF Undecided, Unpublished, Untold, SameEvents
    <2>2. ScoresCounted(h) /\ ~ h.logging_finished
        BY <1>4 DEF Undecided, ScoresCounted, SameScores, RanBy
    <2>3. Reasoned(h.security)
        BY <1>1, <1>4 DEF Reasoned, Paths
    <2>4. QED
        BY <2>1, <2>2, <2>3
<1>6. /\ SameVerdictCounts(h.stats, g.stats) /\ g.security = h.security
      /\ g.logging_finished /\ ScoresCounted(g) /\ Published(g)
    <2>1. h.transaction /\ h.security.outcome # "Allowed" /\ g = FinishLogging(h, log)
        BY <1>2, <1>4
    <2>2. QED
        BY <1>3, <1>5, <2>1, FinishLoggingRuns, FinishLoggingTells
<1>7. VerdictCounted(g.stats, Allowed)
    BY <1>4, <1>6 DEF Undecided, VerdictCounted, SameVerdictCounts
<1>8. VerdictCounted(g.stats, g.security)
    BY <1>4, <1>6, <1>7 DEF VerdictCounted, Allowed, Is
<1>9. QED
    BY <1>1, <1>4, <1>6, <1>8 DEF Decided, Denied, Allowed

-----------------------------------------------------------------------------
(* The inductive invariant *)

Verdict ==
    /\ Undecided(filter) \/ Decided(filter)
    /\ filter.transaction /\ life = "open" /\ ~ filter.local_reply => Undecided(filter)
    /\ message["Request"] = "idle" => Undecided(filter)
    /\ Undecided(filter) /\ ~ filter.transaction => filter.phases = <<>>
    /\ DeniedNeverForwarded

\* A step either starts from an undecided filter or leaves the verdict alone.
VerdictStands ==
    Undecided(filter) \/ (filter'.events = filter.events /\ filter'.security = filter.security)

\* What a handler of a path may make of an undecided filter.
Ruled(g, path) ==
    \/ Undecided(g) /\ (g.transaction \/ g.phases = <<>>)
    \/ /\ Decided(g) /\ (g.transaction => g.local_reply)
       /\ g.security # Allowed => g.security.phase = path

\* However a handler ends, a message answered locally is not passed on.
LEMMA EndsFlow ==
    ASSUME TypeOK, NEW f, NEW path \in Paths, Ends(f, path)
    PROVE  /\ filter' = f
           /\ f.local_reply => flow'[path] # "forwarded"
           /\ \A p \in Paths : p # path => flow'[p] = flow[p]
BY DEF TypeOK, Ends, Continue, StoppedOrContinue, Hold

\* A handler that rules on an undecided filter.
LEMMA RuledKeeps ==
    ASSUME TypeOK, Undecided(filter), NEW g, NEW path \in Paths,
           Ends(g, path), Ruled(g, path), message'["Request"] # "idle"
    PROVE  Verdict' /\ VerdictStands
<1>1. /\ filter' = g
      /\ g.local_reply => flow'[path] # "forwarded"
    BY EndsFlow
<1>2. ASSUME Decided(g), g.security # Allowed => g.security.phase = path, Denied(g)
      PROVE  flow'[g.security.phase] # "forwarded"
    BY <1>1, <1>2 DEF Decided, Denied, Allowed
<1>3. Undecided(g) => ~ Denied(g)
    BY DEF Undecided, Denied, Allowed
<1>4. DeniedNeverForwarded'
    BY <1>1, <1>2, <1>3 DEF Ruled, Denied, DeniedNeverForwarded
<1>5. Decided(g) => ~ Undecided(g)
    BY DEF Decided, Undecided, Allowed
<1>6. QED
    BY <1>1, <1>4, <1>5 DEF Ruled, Verdict, VerdictStands

\* A handler that leaves the verdict as it was.
LEMMA SameVerdictKeeps ==
    ASSUME TypeOK, Verdict, NEW g, NEW path \in Paths, Ends(g, path),
           SameVerdict(filter, g), g.transaction = filter.transaction, UNCHANGED life,
           message["Request"] # "idle" => message'["Request"] # "idle"
    PROVE  Verdict' /\ VerdictStands
<1>1. /\ filter' = g
      /\ g.local_reply => flow'[path] # "forwarded"
      /\ \A p \in Paths : p # path => flow'[p] = flow[p]
    BY EndsFlow
<1>2. /\ Decided(filter) => Decided(g)
      /\ Undecided(filter) => Undecided(g)
    BY SameVerdictDecided
<1>3. /\ g.security = filter.security /\ g.local_reply = filter.local_reply
      /\ g.events = filter.events /\ g.phases = filter.phases
      /\ g.logging_finished = filter.logging_finished
      /\ g.engine_bypassed = filter.engine_bypassed
      /\ g.replying = filter.replying
    BY DEF SameVerdict, SameEvents, SameFlags, SameScores
<1>4. Undecided(g) => Undecided(filter)
    <2>1. SameVerdict(g, filter)
        BY DEF SameVerdict, SameEvents, SameFlags, SameScores, SameVerdictCounts
    <2>2. QED
        BY <2>1, SameVerdictDecided
<1>5. DeniedNeverForwarded'
    <2>1. ASSUME Denied(filter) PROVE flow'[filter.security.phase] # "forwarded"
        <3>1. Decided(filter) /\ filter.security.phase \in Paths
            BY <2>1 DEF Verdict, Undecided, Decided, Denied, Allowed
        <3>2. filter.local_reply /\ flow[filter.security.phase] # "forwarded"
            BY <2>1, <3>1 DEF Verdict, Decided, Denied, DeniedNeverForwarded
        <3>3. QED
            BY <1>1, <1>3, <3>1, <3>2
    <2>2. QED
        BY <1>1, <1>3, <2>1 DEF Denied, DeniedNeverForwarded
<1>6. QED
    BY <1>1, <1>2, <1>3, <1>4, <1>5 DEF Verdict, VerdictStands

\* A verdict rules; so does the release of a stream that passed.
LEMMA DecidesRules ==
    ASSUME NEW f, NEW g, NEW path
    PROVE  /\ Decides(f, g, path) => Ruled(g, path)
           /\ Closes(f, g) => Ruled(g, path)
BY DEF Decides, Closes, Ruled

\* finishBody and bypassBodyForStreaming rule.
LEMMA BodyRules ==
    ASSUME NEW f, NEW held, Sound(f, held), Undecided(f), f.transaction,
           NEW path \in Paths, NEW g \in FinishBody(f, path) \cup BypassBodyForStreaming(f, path)
    PROVE  Ruled(g, path)
<1>1. CASE g \in FinishBody(f, path)
    <2>1. \/ g = f
          \/ \E ran : \/ Decides(ran, g, path)
                      \/ Closes(ran, g)
                      \/ Undecided(g) /\ g.transaction
        BY <1>1, FinishBodyDecides, Zenon
    <2>2. QED
        BY <2>1, DecidesRules DEF Ruled
<1>2. CASE g \in BypassBodyForStreaming(f, path)
    <2>1. \/ g = f
          \/ \E passed : Closes(passed, g)
          \/ Undecided(g) /\ g.transaction
        BY <1>2, BypassBodyDecides, Zenon
    <2>2. QED
        BY <2>1, DecidesRules DEF Ruled
<1>3. QED
    BY <1>1, <1>2

\* The filter is undecided wherever inspection is enabled.
LEMMA InspectsUndecided ==
    ASSUME Verdict, life = "open", filter.transaction, ~ filter.local_reply
    PROVE  Undecided(filter)
BY DEF Verdict

-----------------------------------------------------------------------------
(* The callbacks *)

\* The end of decodeHeaders.
LEMMA RequestHeadersRule ==
    ASSUME TypeOK, Undecided(filter), message'["Request"] # "idle",
           NEW f, Sound(f, others), Undecided(f), f.transaction,
           NEW end, NEW declared, RequestHeadersInspected(f, end, declared)
    PROVE  Verdict' /\ VerdictStands
<1>1. PICK kind \in Kinds :
        LET g == [f EXCEPT !.stream_kind = kind] IN
        \/ \E h \in BypassBodyForStreaming(g, "Request") : StoppedOrContinue(h, "Request")
        \/ \E h \in FinishBody(g, "Request") : StoppedOrContinue(h, "Request")
        \/ Hold(SendBodyOverflow(g, "Request"), "Request")
        \/ Hold(g, "Request")
    BY DEF RequestHeadersInspected
<1> DEFINE g == [f EXCEPT !.stream_kind = kind]
<1>2. Sound(g, others) /\ SameVerdict(f, g) /\ g.transaction
    BY KindsAssumption DEF Sound, Accounted, FilterType, SameVerdict, SameEvents, SameFlags,
                           SameScores, SameVerdictCounts
<1> HIDE DEF g
<1>3. \/ \E h \in FinishBody(g, "Request") \cup BypassBodyForStreaming(g, "Request") :
            Ends(h, "Request")
      \/ Ends(SendBodyOverflow(g, "Request"), "Request")
      \/ Ends(g, "Request")
    BY <1>1 DEF g, Ends
<1>4. "Request" \in Paths /\ Undecided(g)
    BY <1>2, SameVerdictDecided DEF Paths
<1>5. Ruled(g, "Request") /\ Ruled(SendBodyOverflow(g, "Request"), "Request")
    BY <1>2, <1>4, BodyOverflowDecides, DecidesRules DEF Ruled
<1>6. QED
    BY <1>2, <1>3, <1>4, <1>5, BodyRules, RuledKeeps

\* decodeHeaders
LEMMA DecodeHeadersRule == ASSUME IndInv, Verdict, DecodeHeaders PROVE Verdict' /\ VerdictStands
<1>1. PICK end \in BOOLEAN, declared \in Declared, route \in Routes :
        LET ready == InitializeSettings(filter, route)
            created == CreateTransaction(ready)
            ran == RunPhase(created, 1)
        IN
        /\ Deliver("Request", "idle", end)
        /\ \/ Continue(ready, "Request")
           \/ \E error \in Errors :
                StoppedOrContinue(Evaluate(ready, error, "Request"), "Request")
           \/ \E f \in Stopped(created, "Request") : StoppedOrContinue(f, "Request")
           \/ \E f \in Stopped(ran, "Request") : StoppedOrContinue(f, "Request")
           \/ RequestHeadersInspected(ran, end, declared)
    BY DEF DecodeHeaders
<1> DEFINE ready == InitializeSettings(filter, route)
           created == CreateTransaction(ready)
           ran == RunPhase(created, 1)
<1>2. TypeOK /\ "Request" \in Paths /\ filter \in FilterType /\ message["Request"] = "idle"
    BY <1>1 DEF IndInv, Paths, Sound, Deliver
<1>3. message'["Request"] # "idle"
    BY <1>1, <1>2, DeliverTyped
<1>4. Undecided(filter) /\ ~ filter.transaction /\ life = "open" /\ ~ filter.resources_released
      /\ filter.phases = <<>>
    BY <1>2 DEF Verdict, IndInv, Fresh, DecodeHeaders, Decoding
<1>5. Sound(ready, others)
    BY InitializeSettingsSound DEF IndInv
<1>6. /\ SameVerdict(filter, ready) /\ ready.transaction = filter.transaction
      /\ ready.resources_released = filter.resources_released
    BY <1>2 DEF InitializeSettings, FilterType, SameVerdict, SameEvents, SameFlags, SameScores,
                SameVerdictCounts
<1>7. \/ Ends(ready, "Request")
      \/ \E error \in Errors : Ends(Evaluate(ready, error, "Request"), "Request")
      \/ \E f \in Stopped(created, "Request") : Ends(f, "Request")
      \/ \E f \in Stopped(ran, "Request") : Ends(f, "Request")
      \/ RequestHeadersInspected(ran, end, declared)
    BY <1>1 DEF Ends
<1> HIDE DEF ready
<1>8. Undecided(ready) /\ ready.phases = <<>>
    BY <1>4, <1>6, SameVerdictDecided DEF SameVerdict, SameScores
<1>9. Sound(created, others)
    BY <1>4, <1>5, <1>6, CreateSound
<1>10. Undecided(created) /\ created.transaction
    BY <1>5, <1>8, CreateTells, SameVerdictDecided DEF Sound
<1> HIDE DEF created
<1>11. Sound(ran, others) /\ Undecided(ran) /\ ran.transaction
    BY <1>9, <1>10, RunPhaseSound, RunPhaseTells
<1> HIDE DEF ran
<1>12. /\ Ruled(ready, "Request")
       /\ \A error \in Errors : Ruled(Evaluate(ready, error, "Request"), "Request")
    BY <1>2, <1>5, <1>8, EvaluateDecides, DecidesRules DEF Ruled
<1>13. /\ \A f \in Stopped(created, "Request") : Ruled(f, "Request")
       /\ \A f \in Stopped(ran, "Request") : Ruled(f, "Request")
    BY <1>2, <1>9, <1>10, <1>11, StopDecides, DecidesRules
<1>14. QED
    BY <1>2, <1>3, <1>4, <1>7, <1>11, <1>12, <1>13, RuledKeeps, RequestHeadersRule

\* decodeData and encodeData
LEMMA DataRules ==
    ASSUME IndInv, Verdict, NEW path \in Paths, Data(path), life = "open"
    PROVE  Verdict' /\ VerdictStands
<1>1. PICK n \in Chunks, end \in BOOLEAN :
        Deliver(path, "open", end) /\ ProcessData(path, n, end)
    BY DEF Data
<1>2. n \in Nat /\ TypeOK /\ Sound(filter, others) /\ UNCHANGED life
    BY ChunksAssumption DEF IndInv, Data
<1>3. message["Request"] # "idle" => message'["Request"] # "idle"
    BY <1>1, <1>2, DeliverTyped DEF Paths
<1> DEFINE charged == Charge(filter, path, n)
           appended == [charged EXCEPT !.appended[path] = @ + n]
<1>4. \/ Ends(filter, path)
      \/ /\ InspectionEnabled(filter, path)
         /\ \/ Ends(SendBodyOverflow(filter, path), path)
            \/ Ends(SendBodyMemoryBudgetExceeded(filter, path), path)
            \/ /\ n # 0 => FitsBudget(filter, n)
               /\ \/ \E f \in Stopped(charged, path) : Ends(f, path)
                  \/ \E f \in FinishBody(appended, path) : Ends(f, path)
                  \/ Ends(appended, path)
    BY <1>1 DEF ProcessData, Ends
<1>5. CASE Ends(filter, path)
    BY <1>2, <1>3, <1>5, SameVerdictKeeps
    DEF SameVerdict, SameEvents, SameFlags, SameScores, SameVerdictCounts
<1>6. CASE /\ InspectionEnabled(filter, path)
           /\ \/ Ends(SendBodyOverflow(filter, path), path)
              \/ Ends(SendBodyMemoryBudgetExceeded(filter, path), path)
              \/ /\ n # 0 => FitsBudget(filter, n)
                 /\ \/ \E f \in Stopped(charged, path) : Ends(f, path)
                    \/ \E f \in FinishBody(appended, path) : Ends(f, path)
                    \/ Ends(appended, path)
    <2>1. filter.transaction /\ Undecided(filter)
        BY <1>6, InspectsUndecided DEF InspectionEnabled
    <2>2. message'["Request"] # "idle"
        BY <1>3, <2>1 DEF IndInv, Fresh
    <2>3. /\ Ruled(SendBodyOverflow(filter, path), path)
          /\ Ruled(SendBodyMemoryBudgetExceeded(filter, path), path)
        BY <1>2, <2>1, BodyOverflowDecides, BudgetExceededDecides, DecidesRules
    <2>4. ASSUME n # 0 => FitsBudget(filter, n)
          PROVE  /\ \A f \in Stopped(charged, path) : Ruled(f, path)
                 /\ \A f \in FinishBody(appended, path) : Ruled(f, path)
                 /\ Ruled(appended, path)
        <3>1. Sound(charged, others) /\ BodyCharged(filter, charged, path, n)
              /\ SameVerdict(filter, charged) /\ charged.transaction
            BY <1>2, <2>1, <2>4, ChargeSound, ChargeTells
        <3> HIDE DEF charged
        <3>2. Sound(appended, others)
            BY <1>2, <3>1, AppendSound
        <3>3. SameVerdict(filter, appended) /\ appended.transaction
            <4>1. charged.transaction = filter.transaction
                BY <1>2, ChargeTells DEF charged
            <4>2. QED
                BY <1>2, <2>1, <3>1, <4>1, AppendTells
        <3> HIDE DEF appended
        <3>4. Undecided(charged) /\ Undecided(appended)
            BY <2>1, <3>1, <3>3, SameVerdictDecided
        <3>5. QED
            BY <3>1, <3>2, <3>3, <3>4, StopDecides, DecidesRules, BodyRules DEF Ruled
    <2> HIDE DEF charged, appended
    <2>5. QED
        BY <1>2, <1>6, <2>1, <2>2, <2>3, <2>4, RuledKeeps
<1>7. QED
    BY <1>4, <1>5, <1>6

\* decodeTrailers and encodeTrailers
LEMMA TrailersRule ==
    ASSUME IndInv, Verdict, NEW path \in Paths, Trailers(path), life = "open"
    PROVE  Verdict' /\ VerdictStands
<1> DEFINE counted == [filter EXCEPT !.stats.trailers_uninspected[path] = @ + 1]
<1>1. /\ Deliver(path, "open", TRUE) /\ UNCHANGED life
      /\ \/ Ends(counted, path)
         \/ /\ filter.transaction /\ ~ filter.local_reply
            /\ \E f \in FinishBody(counted, path) : Ends(f, path)
    BY DEF Trailers, Ends, InspectionEnabled
<1>2. TypeOK /\ Sound(filter, others) /\ filter \in FilterType
    BY DEF IndInv, Sound
<1>3. message["Request"] # "idle" => message'["Request"] # "idle"
    BY <1>1, <1>2, DeliverTyped DEF Paths
<1>4. SameVerdict(filter, counted) /\ counted.transaction = filter.transaction
    BY <1>2, TrailersTell
<1>5. Sound(counted, others)
    BY <1>2, TrailersSound
<1> HIDE DEF counted
<1>6. CASE Ends(counted, path)
    BY <1>1, <1>2, <1>3, <1>4, <1>6, SameVerdictKeeps
<1>7. CASE /\ filter.transaction /\ ~ filter.local_reply
           /\ \E f \in FinishBody(counted, path) : Ends(f, path)
    <2>1. Undecided(filter) /\ Undecided(counted)
        BY <1>4, <1>7, InspectsUndecided, SameVerdictDecided
    <2>2. message'["Request"] # "idle"
        BY <1>3, <1>7 DEF IndInv, Fresh
    <2>3. \A f \in FinishBody(counted, path) : Ruled(f, path)
        BY <1>4, <1>5, <1>7, <2>1, BodyRules
    <2>4. QED
        BY <1>2, <1>7, <2>1, <2>2, <2>3, RuledKeeps
<1>8. QED
    BY <1>1, <1>6, <1>7

\* The end of encodeHeaders.
LEMMA ResponseHeadersRule ==
    ASSUME TypeOK, Undecided(filter), message'["Request"] # "idle",
           NEW f, Sound(f, others), Undecided(f), f.transaction,
           NEW end, NEW kind, NEW declared, ResponseHeadersInspected(f, end, kind, declared)
    PROVE  Verdict' /\ VerdictStands
<1>1. \/ \E h \in FinishBody(f, "Response") \cup BypassBodyForStreaming(f, "Response") :
            Ends(h, "Response")
      \/ Ends(SendBodyOverflow(f, "Response"), "Response")
      \/ Ends(f, "Response")
    BY DEF ResponseHeadersInspected, Ends
<1>2. "Response" \in Paths
    BY DEF Paths
<1>3. Ruled(f, "Response") /\ Ruled(SendBodyOverflow(f, "Response"), "Response")
    BY <1>2, BodyOverflowDecides, DecidesRules DEF Ruled
<1>4. QED
    BY <1>1, <1>2, <1>3, BodyRules, RuledKeeps

\* encodeHeaders
LEMMA EncodeHeadersRule == ASSUME IndInv, Verdict, EncodeHeaders PROVE Verdict' /\ VerdictStands
<1>1. PICK end \in BOOLEAN, declared \in Declared, kind \in ResponseKinds :
        LET ran == RunPhase(filter, 3) IN
        /\ Deliver("Response", "idle", end)
        /\ \/ Continue(filter, "Response")
           \/ /\ filter.transaction /\ ~ filter.local_reply
              /\ \/ \E error \in Errors :
                        StoppedOrContinue(Evaluate(filter, error, "Response"), "Response")
                 \/ \E f \in Stopped(ran, "Response") : StoppedOrContinue(f, "Response")
                 \/ ResponseHeadersInspected(
                        [ran EXCEPT !.response_headers_finished = TRUE],
                        end, kind, declared)
    BY DEF EncodeHeaders, ResponseInspected
<1> DEFINE ran == RunPhase(filter, 3)
           finished == [ran EXCEPT !.response_headers_finished = TRUE]
<1>2. TypeOK /\ Sound(filter, others) /\ "Response" \in Paths
    BY DEF IndInv, Paths
<1>3. /\ message["Request"] # "idle" => message'["Request"] # "idle"
      /\ life = "open" /\ UNCHANGED life
    BY <1>1, <1>2, DeliverTyped DEF Paths, EncodeHeaders, Encoding
<1>4. CASE Continue(filter, "Response")
    BY <1>2, <1>3, <1>4, SameVerdictKeeps
    DEF Ends, SameVerdict, SameEvents, SameFlags, SameScores, SameVerdictCounts
<1>5. ASSUME filter.transaction, ~ filter.local_reply,
             \/ \E error \in Errors : Ends(Evaluate(filter, error, "Response"), "Response")
             \/ \E f \in Stopped(ran, "Response") : Ends(f, "Response")
             \/ ResponseHeadersInspected(finished, end, kind, declared)
      PROVE  Verdict' /\ VerdictStands
    <2>1. Undecided(filter)
        BY <1>3, <1>5, InspectsUndecided
    <2>2. message'["Request"] # "idle"
        BY <1>3, <1>5 DEF IndInv, Fresh
    <2>3. Sound(ran, others) /\ Undecided(ran) /\ ran.transaction
        BY <1>2, <1>5, <2>1, RunPhaseSound, RunPhaseTells
    <2> HIDE DEF ran
    <2>4. Sound(finished, others)
        BY <2>3 DEF Sound, Accounted, FilterType
    <2>5. SameVerdict(ran, finished) /\ finished.transaction
        BY <2>3 DEF Sound, FilterType, SameVerdict, SameEvents, SameFlags, SameScores,
                    SameVerdictCounts
    <2> HIDE DEF finished
    <2>6. Undecided(finished)
        BY <2>3, <2>5, SameVerdictDecided
    <2>7. /\ \A error \in Errors : Ruled(Evaluate(filter, error, "Response"), "Response")
          /\ \A f \in Stopped(ran, "Response") : Ruled(f, "Response")
        BY <1>2, <2>1, <2>3, EvaluateDecides, StopDecides, DecidesRules
    <2>8. QED
        BY <1>2, <1>5, <2>1, <2>2, <2>4, <2>5, <2>6, <2>7, RuledKeeps, ResponseHeadersRule
<1>6. QED
    BY <1>1, <1>4, <1>5 DEF Ends

\* What has become of the stream disturbs the verdict only if it was denied
\* after it was passed on.
LEMMA DecidedKeeps ==
    ASSUME UNCHANGED flow, Decided(filter'),
           filter'.transaction /\ life' = "open" => filter'.local_reply,
           message'["Request"] # "idle",
           Denied(filter') => Verdict /\ filter'.security = filter.security
    PROVE  Verdict'
<1>1. ~ Undecided(filter')
    BY DEF Decided, Undecided, Allowed
<1>2. DeniedNeverForwarded'
    BY DEF Verdict, Denied, DeniedNeverForwarded
<1>3. QED
    BY <1>1, <1>2 DEF Verdict

\* onStreamComplete
LEMMA OnStreamCompleteRules ==
    ASSUME IndInv, Verdict, OnStreamComplete
    PROVE  Verdict' /\ VerdictStands
<1>1. PICK log \in LoggingResults : filter' = FinishLogging(filter, log)
    BY DEF OnStreamComplete
<1>2. log \in LoggingResult /\ Sound(filter, others)
    BY LoggingAssumption DEF IndInv
<1>3. UNCHANGED <<message, flow>> /\ life' = "complete"
    BY DEF OnStreamComplete
<1>4. CASE Undecided(filter) /\ filter.transaction
    <2>1. Decided(filter') /\ filter'.security = Allowed
        BY <1>1, <1>2, <1>4, LoggingDecides
    <2>2. message["Request"] # "idle"
        BY <1>4 DEF IndInv, Fresh
    <2>3. QED
        BY <1>3, <1>4, <2>1, <2>2, DecidedKeeps DEF VerdictStands, Denied, Allowed
<1>5. CASE Undecided(filter) /\ ~ filter.transaction
    BY <1>1, <1>3, <1>5 DEF FinishLogging, Verdict, VerdictStands, DeniedNeverForwarded
<1>6. CASE Decided(filter)
    <2>1. /\ Decided(filter') /\ filter'.security = filter.security
          /\ filter'.events = filter.events
        BY <1>1, <1>2, <1>6, LateLoggingTells
    <2>2. message["Request"] # "idle"
        BY <1>6 DEF Verdict, Decided, Undecided, Allowed
    <2>3. QED
        BY <1>3, <2>1, <2>2, DecidedKeeps DEF VerdictStands
<1>7. QED
    BY <1>4, <1>5, <1>6 DEF Verdict

\* onDestroy
LEMMA OnDestroyRules ==
    ASSUME IndInv, Verdict, OnDestroy
    PROVE  Verdict' /\ VerdictStands
<1>1. PICK log \in LoggingResults :
        filter' = ReleaseResources(FinishLogging(MarkIncomplete(filter), log))
    BY DEF OnDestroy
<1> DEFINE marked == MarkIncomplete(filter)
           logged == FinishLogging(marked, log)
<1>2. log \in LoggingResult /\ Sound(filter, others)
    BY LoggingAssumption DEF IndInv
<1>3. UNCHANGED <<message, flow>> /\ life' = "destroyed"
    BY DEF OnDestroy
<1>4. Sound(logged, others)
    BY <1>2, MarkIncompleteSound, FinishLoggingSound
<1>5. /\ SameVerdict(logged, filter') /\ ~ filter'.transaction
      /\ Decided(logged) => Decided(filter')
      /\ Undecided(logged) => Undecided(filter')
      /\ filter'.security = logged.security /\ filter'.events = logged.events
      /\ filter'.phases = logged.phases
    <2> HIDE DEF logged
    <2>1. filter' = ReleaseResources(logged)
        BY <1>1 DEF logged
    <2>2. SameVerdict(logged, filter') /\ ~ filter'.transaction
        BY <1>4, <2>1, ReleaseTells
    <2>3. QED
        BY <2>2, SameVerdictDecided DEF SameVerdict, SameEvents, SameScores
<1>6. CASE Undecided(filter) /\ filter.transaction
    <2>1. Decided(logged) /\ ~ Denied(logged)
        BY <1>2, <1>6, IncompleteDecides
    <2> HIDE DEF logged
    <2>2. message["Request"] # "idle"
        BY <1>6 DEF IndInv, Fresh
    <2>3. ~ Denied(filter')
        BY <1>5, <2>1 DEF Denied
    <2>4. QED
        BY <1>3, <1>5, <1>6, <2>1, <2>2, <2>3, DecidedKeeps DEF VerdictStands
<1>7. CASE Undecided(filter) /\ ~ filter.transaction
    <2>1. logged = filter
        BY <1>7 DEF FinishLogging, MarkIncomplete
    <2> HIDE DEF logged
    <2>2. QED
        BY <1>3, <1>5, <1>7, <2>1 DEF Verdict, VerdictStands, DeniedNeverForwarded
<1>8. CASE Decided(filter)
    <2>1. marked = filter
        BY <1>8 DEF MarkIncomplete, Decided, Allowed
    <2>2. /\ Decided(logged) /\ logged.security = filter.security
          /\ logged.events = filter.events
        BY <1>2, <1>8, <2>1, LateLoggingTells
    <2> HIDE DEF logged
    <2>3. message["Request"] # "idle"
        BY <1>8 DEF Verdict, Decided, Undecided, Allowed
    <2>4. QED
        BY <1>3, <1>5, <2>2, <2>3, DecidedKeeps DEF VerdictStands
<1>9. QED
    BY <1>6, <1>7, <1>8 DEF Verdict

\* The rest of a handler after its local reply.
LEMMA LocalReplyReturnsRules ==
    ASSUME IndInv, Verdict, LocalReplyReturns
    PROVE  Verdict' /\ VerdictStands
<1> DEFINE g == [filter EXCEPT !.replying = FALSE]
<1>1. filter \in FilterType /\ filter' = ReleaseResources(g)
      /\ UNCHANGED <<message, flow, life>>
    BY DEF IndInv, Sound, LocalReplyReturns
<1>2. Sound(g, others)
    BY DEF IndInv, Sound, Accounted, FilterType
<1>3. Decided(filter)
    BY DEF LocalReplyReturns, Verdict, Undecided
<1>4. /\ g.security = filter.security /\ g.events = filter.events
      /\ g.security_event_published = filter.security_event_published
      /\ g.stats = filter.stats /\ g.phases = filter.phases
      /\ g.logging_finished = filter.logging_finished
      /\ g.local_reply = filter.local_reply /\ ~ g.replying
    BY <1>1 DEF FilterType
<1> HIDE DEF g
<1>5. Decided(g)
    <2>1. /\ Published(filter) => Published(g)
          /\ Unpublished(filter) => Unpublished(g)
        BY <1>4 DEF Published, Unpublished, Told, Untold, LossKept
    <2>2. ScoresCounted(filter) => ScoresCounted(g)
        BY <1>4 DEF ScoresCounted, RanBy
    <2>3. QED
        BY <1>3, <1>4, <2>1, <2>2 DEF Decided, Denied
<1>6. SameVerdict(g, filter') /\ ~ filter'.transaction
    BY <1>1, <1>2, ReleaseTells
<1>7. /\ Decided(filter') /\ filter'.security = filter.security
      /\ filter'.events = filter.events
    BY <1>4, <1>5, <1>6, SameVerdictDecided DEF SameVerdict, SameEvents
<1>8. message["Request"] # "idle"
    BY DEF LocalReplyReturns, IndInv, Fresh
<1>9. QED
    BY <1>1, <1>6, <1>7, <1>8, DecidedKeeps DEF VerdictStands

\* The other streams touch the shared counter only.
LEMMA OthersTell ==
    ASSUME IndInv, OthersReserve \/ OthersRelease
    PROVE  /\ SameInspection(filter, filter') /\ SameVerdict(filter, filter')
           /\ filter'.transaction = filter.transaction
<1>1. filter \in FilterType
    BY DEF IndInv, Sound
<1>2. \/ \E n \in OtherChunks : filter' = [filter EXCEPT !.used = @ + n]
      \/ filter' = [filter EXCEPT !.used = @ - others]
    BY DEF OthersReserve, OthersRelease
<1>3. QED
    BY <1>1, <1>2, ZenonT(30) DEF FilterType, SameInspection, SameVerdict, SameEvents, SameFlags,
                      SameScores, SameVerdictCounts

\* A step that changes neither the verdict nor what became of the stream.
LEMMA IdleKeeps ==
    ASSUME Verdict, SameVerdict(filter, filter'), filter'.transaction = filter.transaction,
           UNCHANGED <<message, flow, life>>
    PROVE  Verdict' /\ VerdictStands
<1>1. SameVerdict(filter', filter)
    BY DEF SameVerdict, SameEvents, SameFlags, SameScores, SameVerdictCounts
<1>2. /\ Decided(filter) => Decided(filter')
      /\ Undecided(filter) <=> Undecided(filter')
    BY <1>1, SameVerdictDecided
<1>3. /\ filter'.security = filter.security /\ filter'.local_reply = filter.local_reply
      /\ filter'.events = filter.events /\ filter'.phases = filter.phases
    BY DEF SameVerdict, SameEvents, SameFlags, SameScores
<1>4. QED
    BY <1>2, <1>3 DEF Verdict, VerdictStands, DeniedNeverForwarded

-----------------------------------------------------------------------------
(* The theorems *)

\* Nothing is decided about a new filter.
LEMMA InitVerdict == Init => Verdict
<1> SUFFICES ASSUME Init PROVE Verdict
    OBVIOUS
<1>1. PICK settings \in SettingsSet : filter = NewFilter(settings)
    BY DEF Init
<1>2. /\ filter.security = Allowed /\ filter.stats = ZeroStats /\ filter.phases = <<>>
      /\ filter.events = <<>> /\ ~ filter.security_event_published
      /\ ~ filter.local_reply /\ ~ filter.engine_bypassed /\ ~ filter.replying
      /\ ~ filter.logging_finished
    BY <1>1 DEF NewFilter
<1>3. ~ RanBy(filter, 5)
    BY <1>2 DEF RanBy
<1>4. ScoresCounted(filter)
    BY <1>2, <1>3 DEF ScoresCounted, ZeroStats, Nothing, Is
<1>5. VerdictCounted(filter.stats, filter.security)
    BY <1>2 DEF VerdictCounted, ZeroStats, Nothing, Is, Allowed
<1>6. Undecided(filter)
    BY <1>2, <1>4, <1>5 DEF Undecided, Unpublished, Untold, ZeroStats
<1>7. QED
    BY <1>2, <1>6 DEF Verdict, DeniedNeverForwarded, Allowed

\* Every step keeps the invariant, and no step changes what has been told.
LEMMA NextVerdict ==
    ASSUME IndInv, Verdict, [Next]_vars
    PROVE  Verdict' /\ VerdictStands
<1>1. "Request" \in Paths /\ "Response" \in Paths
    BY DEF Paths
<1>2. CASE DecodeHeaders
    BY <1>2, DecodeHeadersRule
<1>3. CASE DecodeData \/ EncodeData
    BY <1>1, <1>3, DataRules DEF DecodeData, EncodeData, Decoding, Encoding
<1>4. CASE DecodeTrailers \/ EncodeTrailers
    BY <1>1, <1>4, TrailersRule DEF DecodeTrailers, EncodeTrailers, Decoding, Encoding
<1>5. CASE EncodeHeaders
    BY <1>5, EncodeHeadersRule
<1>6. CASE OnStreamComplete
    BY <1>6, OnStreamCompleteRules
<1>7. CASE OnDestroy
    BY <1>7, OnDestroyRules
<1>8. CASE LocalReplyReturns
    BY <1>8, LocalReplyReturnsRules
<1>9. CASE OthersReserve \/ OthersRelease
    BY <1>9, OthersTell, IdleKeeps DEF OthersReserve, OthersRelease
<1>10. CASE UNCHANGED vars
    BY <1>10, IdleKeeps
    DEF vars, SameVerdict, SameEvents, SameFlags, SameScores, SameVerdictCounts
<1>11. QED
    BY <1>2, <1>3, <1>4, <1>5, <1>6, <1>7, <1>8, <1>9, <1>10 DEF Next

\* The invariant holds throughout.
LEMMA VerdictInvariance == Spec => []Verdict
<1>1. Verdict /\ IndInv /\ [Next]_vars => Verdict'
    BY NextVerdict
<1>2. QED
    BY <1>1, InitVerdict, Invariance, PTL DEF Spec

\* A message that a rule, a limit or an error denied is never passed on,
\* whatever Envoy calls after the verdict.
THEOREM DeniedStaysBack == Spec => []DeniedNeverForwarded
<1>1. Verdict => DeniedNeverForwarded
    BY DEF Verdict
<1>2. QED
    BY <1>1, VerdictInvariance, PTL

\* What becomes of a stream is told by one event, which says the verdict the
\* stream got and what phase 5 lost of it, and by each counter of verdicts; a
\* stream of which there is nothing to say has no event.
THEOREM VerdictIsTold == Spec => []VerdictTold
<1>1. ASSUME IndInv, Verdict PROVE VerdictTold
    <2>1. /\ \/ Published(filter)
             \/ Unpublished(filter) /\ filter.security.outcome = "Allowed"
          /\ VerdictCounted(filter.stats, filter.security) /\ ScoresCounted(filter)
          /\ filter.stats \in Stats
        BY <1>1 DEF Verdict, Undecided, Decided, Allowed, IndInv, Sound, FilterType
    <2>2. \/ Published(filter) /\ DOMAIN filter.events = {1}
          \/ Unpublished(filter) /\ DOMAIN filter.events = {} /\ Len(filter.events) = 0
        <3>1. filter.events \in Seq(Event)
            BY <1>1 DEF IndInv, Sound, FilterType
        <3>2. Published(filter) => DOMAIN filter.events = {1}
            BY <3>1 DEF Published, Told
        <3>3. Unpublished(filter) => DOMAIN filter.events = {} /\ Len(filter.events) = 0
            BY <3>1 DEF Unpublished, Untold
        <3>4. QED
            BY <2>1, <3>2, <3>3
    <2>3. VerdictReported
        <3>1. CASE Published(filter) /\ DOMAIN filter.events = {1}
            BY <3>1 DEF Published, Told, VerdictReported
        <3>2. CASE Unpublished(filter) /\ Len(filter.events) = 0
            BY <2>1, <3>2 DEF Published, Told, Unpublished, Untold, VerdictReported
        <3>3. QED
            BY <2>2, <3>1, <3>2
    <2>4. EventTells
        BY <2>2 DEF Published, Told, Tells, EventTells
    <2>5. LossTold
        <3>1. RanBy(filter, 5) <=> Ran(5)
            BY DEF Ran, RanBy
        <3>2. \A path \in Paths :
                filter.stats.threshold_exceeded[path] + filter.stats.logging_errors <= Is(Ran(5))
            BY <2>1, <3>1 DEF ScoresCounted, Is
        <3>3. CASE Published(filter) /\ DOMAIN filter.events = {1}
            BY <3>2, <3>3 DEF Published, Told, LossKept, LossTold, Is
        <3>4. CASE Unpublished(filter) /\ DOMAIN filter.events = {}
            BY <3>2, <3>4 DEF Unpublished, Untold, LossTold, Is
        <3>5. QED
            BY <2>2, <3>3, <3>4
    <2>6. CountersMatchVerdict
        BY <2>1 DEF VerdictCounted, ScoresCounted, CountersMatchVerdict
    <2>7. QED
        BY <2>3, <2>4, <2>5, <2>6 DEF VerdictTold
<1>2. QED
    BY <1>1, Invariance, VerdictInvariance, PTL

\* Phase 5 has run on every transaction that no error cut short by the time it
\* is released, and what a local reply makes the access loggers log has been
\* published by the time the reply is handed to Envoy.
THEOREM LoggingComesFirst == Spec => []LoggedInTime
<1>1. ASSUME IndInv, Verdict PROVE LoggedInTime
    <2>1. ASSUME filter.resources_released, Undecided(filter)
          PROVE  filter.security.reason = "None" /\ filter.phases = <<>>
        BY <1>1, <2>1 DEF IndInv, Sound, Accounted, Verdict, Undecided, Allowed
    <2>2. ASSUME Decided(filter),
                 filter.security.reason \in {"None", "RuleIntervention", "StreamDestroyed"}
          PROVE  Ran(5)
        BY <2>2 DEF Decided, ScoresCounted, RanBy, Ran
    <2>3. LoggedBeforeRelease
        BY <1>1, <2>1, <2>2 DEF Verdict, LoggedBeforeRelease
    <2>4. ASSUME filter.replying
          PROVE  filter.events # <<>> /\ (filter.security.reason = "RuleIntervention" => Ran(5))
        <3>1. Decided(filter)
            BY <1>1, <2>4 DEF Verdict, Undecided
        <3>2. Published(filter)
            BY <2>4, <3>1 DEF Decided
        <3>3. filter.events # <<>>
            BY <3>2 DEF Published, Told
        <3>4. QED
            BY <2>2, <3>1, <3>3
    <2>5. QED
        BY <2>3, <2>4 DEF LoggedInTime, LoggedBeforeReply
<1>2. QED
    BY <1>1, Invariance, VerdictInvariance, PTL

\* No later callback changes the verdict an event has reported, and none
\* publishes another event.
THEOREM EventsAreFinal == Spec => EventIsFinal
<1>1. ASSUME IndInv, Verdict, [Next]_vars
      PROVE  [filter.events # <<>> =>
                /\ filter'.events = filter.events
                /\ filter'.security = filter.security]_vars
    BY <1>1, NextVerdict DEF VerdictStands, Undecided, Unpublished, Untold
<1>2. QED
    BY <1>1, Invariance, VerdictInvariance, PTL DEF Spec, EventIsFinal

-----------------------------------------------------------------------------
(* Inspection.  The invariant relates the record of the filter to what     *)
(* Envoy has delivered.  A handler first moves the record along, by the    *)
(* bytes it appends and the phases it runs, and then settles it: it        *)
(* decides the stream, closes it after its last body, or leaves it         *)
(* undecided.  Ready says what must hold of the record before it is        *)
(* settled.                                                                *)

Increasing(s) == \A i, j \in DOMAIN s : i < j => s[i] < s[j]

\* The inspection of one path, of which Envoy has delivered a bytes and which
\* is in state m.
Traced(f, path, m, a) ==
    /\ RanBy(f, BodyPhase(path)) =>
            f.finished[path] /\ m = "ended" /\ f.inspected[path] = a
    /\ f.appended[path] <= f.bytes[path]
    /\ f.bytes[path] <= f.settings.limit[path]
    /\ f.stats.body_bypassed[path] =
            Is(f.finished[path] /\ ~ RanBy(f, BodyPhase(path)))
    /\ m = "idle" =>
            /\ a = 0 /\ f.bytes[path] = 0 /\ ~ f.finished[path]
            /\ path = "Response" => ~ f.response_headers_finished

\* The engine has been given all that has been delivered of a message that is
\* still held.
Fed(f, path, a, where) ==
    InspectionEnabled(f, path) => f.appended[path] = a /\ where # "forwarded"

\* Why a message of which a bytes have been delivered may be passed on.
PassedOn(f, path, m, a) ==
    \/ f.disabled \/ f.engine_bypassed
    \/ path = "Request" /\ f.stream_kind # "Regular"
    \/ path = "Response" /\ ~ f.settings.response_inspection
    \/ path = "Response" /\ m["Request"] = "idle"
    \/ path = "Response" /\ f.stats.body_bypassed["Response"] = 1 /\ RanBy(f, 3)
    \/ RanBy(f, BodyPhase(path)) /\ f.inspected[path] = a

\* What the rest of a stream finds that is to be inspected.
Awaiting(f, m) ==
    ~ f.local_reply /\ ~ f.disabled /\ ~ f.engine_bypassed /\ m["Request"] # "idle" =>
        /\ m["Request"] = "open" /\ m["Response"] = "idle" /\ f.stream_kind = "Regular" =>
                f.transaction /\ ~ f.finished["Request"]
        /\ m["Response"] = "idle" /\ f.settings.response_inspection => f.transaction
        /\ m["Response"] = "open" /\ f.settings.response_inspection =>
                \/ f.stats.body_bypassed["Response"] = 1 /\ RanBy(f, 3)
                \/ /\ f.transaction /\ ~ f.finished["Response"]
                   /\ f.response_headers_finished

\* A path that is not being handled: its message is in state m, a bytes of it
\* have been delivered, and it is where it is.
Rests(f, path, m, a, where) ==
    /\ m[path] = "idle" => where = "none"
    /\ m[path] # "idle" => Fed(f, path, a, where)
    /\ where = "forwarded" => PassedOn(f, path, m, a)

Inspect ==
    /\ Increasing(filter.phases)
    /\ message["Response"] = "idle" => ~ RanBy(filter, 3)
    /\ \A path \in Paths :
        /\ Traced(filter, path, message[path], arrived[path])
        /\ Rests(filter, path, message, arrived[path], flow[path])
    /\ life = "open" => Awaiting(filter, message)

\* The record a handler of a path is to settle.
Ready(f, path, m, a) ==
    /\ Increasing(f.phases)
    /\ m["Response"] = "idle" => ~ RanBy(f, 3)
    /\ m[path] # "idle"
    /\ \A p \in Paths : Traced(f, p, m[p], a[p])
    /\ \A p \in Paths \ {path} : Rests(f, p, m, a[p], flow[p])

-----------------------------------------------------------------------------
(* Phases *)

\* A phase is added behind smaller ones.
LEMMA IncreasingAppend ==
    ASSUME NEW f, f.phases \in Seq(1..5), Increasing(f.phases),
           NEW n \in 1..5, \A k \in n..5 : ~ RanBy(f, k)
    PROVE  Increasing(Append(f.phases, n))
<1> DEFINE s == f.phases
           t == Append(s, n)
<1>1. /\ Len(s) \in Nat /\ Len(t) = Len(s) + 1
      /\ DOMAIN s = 1..Len(s) /\ DOMAIN t = 1..Len(t)
      /\ \A i \in DOMAIN s : t[i] = s[i] /\ s[i] \in 1..5
      /\ t[Len(s) + 1] = n
    OBVIOUS
<1>2. \A i \in DOMAIN s : s[i] < n
    BY <1>1 DEF RanBy
<1> HIDE DEF s, t
<1>3. ASSUME NEW i \in DOMAIN t, NEW j \in DOMAIN t, i < j PROVE t[i] < t[j]
    <2>1. i \in DOMAIN s
        BY <1>1, <1>3
    <2>2. CASE j \in DOMAIN s
        BY <1>1, <1>3, <2>1, <2>2 DEF Increasing, s
    <2>3. CASE j \notin DOMAIN s
        <3>1. j = Len(s) + 1
            BY <1>1, <2>3
        <3>2. QED
            BY <1>1, <1>2, <2>1, <3>1
    <2>4. QED
        BY <2>2, <2>3
<1>4. QED
    BY <1>3 DEF Increasing, t, s

\* Settling a record adds phase 5 at most.
LEMMA SettledPhases ==
    ASSUME NEW f, f.phases \in Seq(1..5), Increasing(f.phases), ~ RanBy(f, 5),
           NEW g, g.phases \in {f.phases, Append(f.phases, 5)}
    PROVE  /\ Increasing(g.phases)
           /\ \A k \in 1..4 : RanBy(g, k) <=> RanBy(f, k)
<1>1. CASE g.phases = f.phases
    BY <1>1 DEF RanBy
<1>2. CASE g.phases = Append(f.phases, 5)
    <2>1. Increasing(Append(f.phases, 5))
        BY IncreasingAppend
    <2>2. \A k \in 1..4 : RanBy(g, k) <=> RanBy(f, k)
        BY <1>2, PhaseRan
    <2>3. QED
        BY <1>2, <2>1, <2>2
<1>3. QED
    BY <1>1, <1>2

-----------------------------------------------------------------------------
(* Settling a record *)

\* The paths of two records inspected alike, of which the second is open to
\* inspection only where the first is.
LEMMA SamePaths ==
    ASSUME NEW f, NEW g, SameInspection(f, g),
           RanBy(g, 2) <=> RanBy(f, 2), RanBy(g, 3) <=> RanBy(f, 3),
           RanBy(g, 4) <=> RanBy(f, 4),
           NEW path \in Paths, NEW m, NEW a, NEW where
    PROVE  /\ Traced(f, path, m[path], a) => Traced(g, path, m[path], a)
           /\ (f.engine_bypassed => g.engine_bypassed) =>
                (PassedOn(f, path, m, a) => PassedOn(g, path, m, a))
           /\ (InspectionEnabled(g, path) => InspectionEnabled(f, path)) =>
                (Fed(f, path, a, where) => Fed(g, path, a, where))
<1>1. RanBy(g, BodyPhase(path)) <=> RanBy(f, BodyPhase(path))
    BY DEF BodyPhase
<1>2. Is(g.finished[path] /\ ~ RanBy(g, BodyPhase(path)))
        = Is(f.finished[path] /\ ~ RanBy(f, BodyPhase(path)))
    BY <1>1 DEF Is, SameInspection
<1>3. Traced(f, path, m[path], a) => Traced(g, path, m[path], a)
    BY <1>1, <1>2 DEF Traced, SameInspection
<1>4. ASSUME f.engine_bypassed => g.engine_bypassed, PassedOn(f, path, m, a)
      PROVE  PassedOn(g, path, m, a)
    BY <1>1, <1>4 DEF PassedOn, SameInspection
<1>5. ASSUME InspectionEnabled(g, path) => InspectionEnabled(f, path),
             Fed(f, path, a, where)
      PROVE  Fed(g, path, a, where)
    BY <1>5 DEF Fed, SameInspection
<1>6. QED
    BY <1>3, <1>4, <1>5

\* A record that is ready before it is settled is ready after it.
LEMMA SettledReady ==
    ASSUME NEW f, f.phases \in Seq(1..5), Undecided(f),
           NEW path \in Paths, NEW m, NEW a, Ready(f, path, m, a),
           NEW g, SameInspection(f, g), g.phases \in {f.phases, Append(f.phases, 5)},
           \A p \in Paths : InspectionEnabled(g, p) => InspectionEnabled(f, p)
    PROVE  /\ Ready(g, path, m, a)
           /\ PassedOn(f, path, m, a[path]) => PassedOn(g, path, m, a[path])
           /\ RanBy(g, 3) <=> RanBy(f, 3)
<1>1. ~ RanBy(f, 5) /\ ~ f.engine_bypassed
    BY DEF Undecided, ScoresCounted
<1>2. Increasing(g.phases) /\ \A k \in 1..4 : RanBy(g, k) <=> RanBy(f, k)
    BY <1>1, SettledPhases DEF Ready
<1>3. /\ RanBy(g, 2) <=> RanBy(f, 2)
      /\ RanBy(g, 3) <=> RanBy(f, 3)
      /\ RanBy(g, 4) <=> RanBy(f, 4)
    BY <1>2
<1>4. \A p \in Paths :
        /\ Traced(f, p, m[p], a[p]) => Traced(g, p, m[p], a[p])
        /\ PassedOn(f, p, m, a[p]) => PassedOn(g, p, m, a[p])
        /\ Fed(f, p, a[p], flow[p]) => Fed(g, p, a[p], flow[p])
    BY <1>1, <1>3, SamePaths
<1>5. QED
    BY <1>2, <1>3, <1>4 DEF Ready, Rests

\* A handler that leaves a record that keeps the invariant.
LEMMA ReadyInspects ==
    ASSUME TypeOK, NEW g, NEW path \in Paths, Ends(g, path), Ready(g, path, message', arrived'),
           Fed(g, path, arrived'[path], flow'[path]),
           flow'[path] = "forwarded" => PassedOn(g, path, message', arrived'[path]),
           life' = "open" => Awaiting(g, message')
    PROVE  Inspect'
<1>1. /\ filter' = g
      /\ \A p \in Paths : p # path => flow'[p] = flow[p]
    BY EndsFlow
<1>2. ASSUME NEW p \in Paths
      PROVE  Rests(g, p, message', arrived'[p], flow'[p])
    BY <1>1 DEF Ready, Rests
<1>3. QED
    BY <1>1, <1>2 DEF Ready, Inspect

\* A verdict on the path of the handler.
LEMMA DecidesInspects ==
    ASSUME TypeOK, NEW f, f.phases \in Seq(1..5), Undecided(f), NEW path \in Paths,
           Ready(f, path, message', arrived'),
           NEW g, Decides(f, g, path), Ends(g, path)
    PROVE  Inspect'
<1>1. g.local_reply \/ (g.engine_bypassed /\ ~ g.transaction)
    BY DEF Decides
<1>2. \A p \in Paths : ~ InspectionEnabled(g, p)
    BY <1>1 DEF InspectionEnabled
<1>3. Ready(g, path, message', arrived')
    BY <1>2, SettledReady DEF Decides
<1>4. Fed(g, path, arrived'[path], flow'[path])
    BY <1>2 DEF Fed
<1>5. flow'[path] = "forwarded" => PassedOn(g, path, message', arrived'[path])
    BY <1>1, EndsFlow DEF PassedOn
<1>6. Awaiting(g, message')
    BY <1>1 DEF Awaiting
<1>7. QED
    BY <1>3, <1>4, <1>5, <1>6, ReadyInspects

\* The inspection of a path is over: its message has ended or is a stream.
Concluded(f, path, m) ==
    /\ path = "Request" => m["Request"] = "ended" \/ f.stream_kind # "Regular"
    /\ path = "Response" =>
            \/ m["Response"] = "ended"
            \/ f.stats.body_bypassed["Response"] = 1 /\ RanBy(f, 3)

\* The release after the last body.
LEMMA ClosesInspects ==
    ASSUME TypeOK, NEW f, f.phases \in Seq(1..5), Undecided(f), NEW path \in Paths,
           Ready(f, path, message', arrived'),
           PassedOn(f, path, message', arrived'[path]),
           Concluded(f, path, message'), LastBody(f, path),
           NEW g, Closes(f, g), Ends(g, path)
    PROVE  Inspect'
<1>1. /\ ~ g.transaction /\ SameInspection(f, g)
      /\ g.phases \in {f.phases, Append(f.phases, 5)}
    BY DEF Closes
<1>2. \A p \in Paths : ~ InspectionEnabled(g, p)
    BY <1>1 DEF InspectionEnabled
<1>3. /\ Ready(g, path, message', arrived')
      /\ PassedOn(g, path, message', arrived'[path])
      /\ RanBy(g, 3) <=> RanBy(f, 3)
    BY <1>1, <1>2, SettledReady
<1>4. Fed(g, path, arrived'[path], flow'[path])
    BY <1>2 DEF Fed
<1>5. Awaiting(g, message')
    <2>1. /\ g.stream_kind = f.stream_kind /\ g.settings = f.settings
          /\ g.stats.body_bypassed = f.stats.body_bypassed
          /\ message'[path] # "idle"
        BY <1>1 DEF SameInspection, Ready
    <2>2. CASE path = "Request"
        BY <2>1, <2>2 DEF Awaiting, Concluded, LastBody
    <2>3. CASE path = "Response"
        BY <1>3, <2>1, <2>3 DEF Awaiting, Concluded
    <2>4. QED
        BY <2>2, <2>3 DEF Paths
<1>6. QED
    BY <1>3, <1>4, <1>5, ReadyInspects

\* The first body is done with and the second is still to be inspected.
LEMMA StaysInspects ==
    ASSUME TypeOK, NEW g, Undecided(g), g.transaction, NEW path \in Paths,
           Ready(g, path, message', arrived'),
           PassedOn(g, path, message', arrived'[path]),
           Concluded(g, path, message'), ~ LastBody(g, path), g.finished[path],
           path = "Request" => message'["Response"] = "idle",
           Ends(g, path)
    PROVE  Inspect'
<1>1. path = "Request" /\ message'["Response"] = "idle"
    BY DEF LastBody, Paths
<1>2. Fed(g, path, arrived'[path], flow'[path])
    BY DEF Fed, InspectionEnabled
<1>3. Awaiting(g, message')
    BY <1>1 DEF Awaiting, Concluded
<1>4. QED
    BY <1>2, <1>3, ReadyInspects

-----------------------------------------------------------------------------
(* Bodies *)

\* Where the phase of a path's body stands in the order.
LEMMA BodyPhaseNext ==
    ASSUME NEW f, Undecided(f), NEW path \in Paths, NEW m, NEW a, Ready(f, path, m, a),
           ~ f.finished[path], path = "Request" => m["Response"] = "idle"
    PROVE  \A k \in BodyPhase(path)..5 : ~ RanBy(f, k)
<1>1. ~ RanBy(f, 5)
    BY DEF Undecided, ScoresCounted
<1>2. ~ RanBy(f, BodyPhase(path))
    BY DEF Ready, Traced
<1>3. CASE path = "Request"
    <2>1. ~ RanBy(f, 3) /\ ~ RanBy(f, 4)
        BY <1>3 DEF Ready, Traced, BodyPhase, Paths
    <2>2. QED
        BY <1>1, <1>2, <1>3, <2>1 DEF BodyPhase
<1>4. CASE path = "Response"
    BY <1>1, <1>2, <1>4 DEF BodyPhase
<1>5. QED
    BY <1>3, <1>4 DEF Paths

\* The body phase has run on the whole body.
LEMMA BodyRanReady ==
    ASSUME NEW f \in FilterType, Undecided(f), f.transaction,
           NEW path \in Paths, NEW m, NEW a, Ready(f, path, m, a),
           ~ f.finished[path], m[path] = "ended", f.appended[path] = a[path],
           path = "Request" => m["Response"] = "idle",
           NEW g, BodyRan(f, g, path)
    PROVE  /\ Ready(g, path, m, a) /\ PassedOn(g, path, m, a[path])
           /\ Concluded(g, path, m) /\ g.finished[path]
           /\ LastBody(g, path) <=> LastBody(f, path)
<1> DEFINE n == BodyPhase(path)
<1>1. n \in 1..5 /\ f.phases \in Seq(1..5)
    BY DEF BodyPhase, FilterType
<1>2. \A k \in n..5 : ~ RanBy(f, k)
    BY BodyPhaseNext
<1>3. g.phases = Append(f.phases, n)
    BY DEF BodyRan
<1>4. Increasing(g.phases)
    <2> HIDE DEF n
    <2>1. QED
        BY <1>1, <1>2, <1>3, IncreasingAppend DEF Ready
<1>5. \A k \in 1..5 : RanBy(g, k) <=> (RanBy(f, k) \/ k = n)
    BY <1>1, <1>3, PhaseRan
<1>6. /\ g.finished[path] /\ g.inspected[path] = a[path]
      /\ \A p \in Paths \ {path} : g.finished[p] = f.finished[p]
                                  /\ g.inspected[p] = f.inspected[p]
    BY DEF BodyRan, FilterType, Counters
<1>7. RanBy(g, n) /\ n # 3
    BY <1>1, <1>5 DEF BodyPhase
<1>8. RanBy(g, 3) <=> RanBy(f, 3)
    BY <1>5, <1>7
<1>9. Traced(g, path, m[path], a[path])
    <2>1. Traced(f, path, m[path], a[path]) /\ ~ RanBy(f, n)
        BY <1>1, <1>2 DEF Ready
    <2>2. f.stats.body_bypassed[path] = 0
        BY <2>1 DEF Traced, Is
    <2>3. g.stats.body_bypassed[path] = Is(g.finished[path] /\ ~ RanBy(g, n))
        BY <1>7, <2>2 DEF BodyRan, Is
    <2>4. QED
        BY <1>6, <2>1, <2>3 DEF Traced, BodyRan
<1>10. ASSUME NEW p \in Paths, p # path
       PROVE  Traced(g, p, m[p], a[p]) /\ Rests(g, p, m, a[p], flow[p])
    <2>1. Traced(f, p, m[p], a[p]) /\ Rests(f, p, m, a[p], flow[p])
        BY <1>10 DEF Ready
    <2>2. RanBy(g, BodyPhase(p)) <=> RanBy(f, BodyPhase(p))
        BY <1>5, <1>10 DEF BodyPhase, Paths
    <2>3. g.finished[p] = f.finished[p] /\ g.inspected[p] = f.inspected[p]
        BY <1>6, <1>10
    <2>4. Is(g.finished[p] /\ ~ RanBy(g, BodyPhase(p)))
            = Is(f.finished[p] /\ ~ RanBy(f, BodyPhase(p)))
        BY <2>2, <2>3 DEF Is
    <2>5. Traced(g, p, m[p], a[p])
        BY <2>1, <2>2, <2>3, <2>4 DEF Traced, BodyRan
    <2>6. InspectionEnabled(g, p) => InspectionEnabled(f, p)
        BY <2>3 DEF InspectionEnabled, BodyRan, Undecided
    <2>7. Fed(f, p, a[p], flow[p]) => Fed(g, p, a[p], flow[p])
        BY <2>6 DEF Fed, BodyRan
    <2>8. PassedOn(f, p, m, a[p]) => PassedOn(g, p, m, a[p])
        BY <1>8, <2>2, <2>3 DEF PassedOn, BodyRan, Undecided
    <2>9. QED
        BY <2>1, <2>5, <2>7, <2>8 DEF Rests
<1>11. Ready(g, path, m, a)
    BY <1>4, <1>8, <1>9, <1>10 DEF Ready
<1>12. PassedOn(g, path, m, a[path])
    BY <1>6, <1>7 DEF PassedOn
<1>13. Concluded(g, path, m)
    BY DEF Concluded
<1>14. QED
    BY <1>6, <1>11, <1>12, <1>13 DEF LastBody, BodyRan

\* The body was passed by as a stream.
LEMMA BodyPassedReady ==
    ASSUME NEW f \in FilterType, Undecided(f), f.transaction,
           NEW path \in Paths, NEW m, NEW a, Ready(f, path, m, a),
           ~ f.finished[path],
           path = "Request" => f.stream_kind # "Regular",
           path = "Response" => RanBy(f, 3),
           NEW g, BodyPassed(f, g, path)
    PROVE  /\ Ready(g, path, m, a) /\ PassedOn(g, path, m, a[path])
           /\ Concluded(g, path, m) /\ g.finished[path]
           /\ LastBody(g, path) <=> LastBody(f, path)
<1>1. \A k \in 1..5 : RanBy(g, k) <=> RanBy(f, k)
    BY DEF RanBy, BodyPassed
<1>2. f.finished \in [Paths -> BOOLEAN] /\ f.stats.body_bypassed \in Counters
    BY DEF FilterType, Stats
<1>3. /\ g.finished[path]
      /\ g.stats.body_bypassed[path] = f.stats.body_bypassed[path] + 1
      /\ \A p \in Paths \ {path} :
            /\ g.finished[p] = f.finished[p]
            /\ g.stats.body_bypassed[p] = f.stats.body_bypassed[p]
    BY <1>2 DEF BodyPassed, Counters
<1>4. Traced(f, path, m[path], a[path]) /\ ~ RanBy(f, BodyPhase(path))
    BY DEF Ready, Traced
<1>5. g.stats.body_bypassed[path] = 1
    BY <1>3, <1>4 DEF Traced, Is
<1>6. ~ RanBy(g, BodyPhase(path))
    BY <1>1, <1>4 DEF BodyPhase
<1>7. Traced(g, path, m[path], a[path])
    <2>1. g.stats.body_bypassed[path] = Is(g.finished[path] /\ ~ RanBy(g, BodyPhase(path)))
        BY <1>3, <1>5, <1>6 DEF Is
    <2>2. m[path] # "idle"
        BY DEF Ready
    <2>3. QED
        BY <1>4, <1>6, <2>1, <2>2 DEF Traced, BodyPassed
<1>8. ASSUME NEW p \in Paths, p # path
      PROVE  Traced(g, p, m[p], a[p]) /\ Rests(g, p, m, a[p], flow[p])
    <2>1. Traced(f, p, m[p], a[p]) /\ Rests(f, p, m, a[p], flow[p])
        BY <1>8 DEF Ready
    <2>2. (RanBy(g, BodyPhase(p)) <=> RanBy(f, BodyPhase(p))) /\ (RanBy(g, 3) <=> RanBy(f, 3))
        BY <1>1 DEF BodyPhase
    <2>3. /\ g.finished[p] = f.finished[p]
          /\ g.stats.body_bypassed[p] = f.stats.body_bypassed[p]
        BY <1>3, <1>8
    <2>4. Is(g.finished[p] /\ ~ RanBy(g, BodyPhase(p)))
            = Is(f.finished[p] /\ ~ RanBy(f, BodyPhase(p)))
        BY <2>2, <2>3 DEF Is
    <2>5. Traced(g, p, m[p], a[p])
        BY <2>1, <2>2, <2>3, <2>4 DEF Traced, BodyPassed
    <2>6. InspectionEnabled(g, p) => InspectionEnabled(f, p)
        BY <2>3 DEF InspectionEnabled, BodyPassed, Undecided
    <2>7. Fed(f, p, a[p], flow[p]) => Fed(g, p, a[p], flow[p])
        BY <2>6 DEF Fed, BodyPassed
    <2>8. PassedOn(f, p, m, a[p]) => PassedOn(g, p, m, a[p])
        BY <2>2, <2>3 DEF PassedOn, BodyPassed, Undecided
    <2>9. QED
        BY <2>1, <2>5, <2>7, <2>8 DEF Rests
<1>9. Increasing(g.phases) /\ (RanBy(g, 3) <=> RanBy(f, 3))
    BY <1>1 DEF BodyPassed, Ready
<1>10. Ready(g, path, m, a)
    BY <1>7, <1>8, <1>9 DEF Ready
<1>11. path = "Request" => g.stream_kind # "Regular"
    BY DEF BodyPassed
<1>12. PassedOn(g, path, m, a[path]) /\ Concluded(g, path, m)
    BY <1>5, <1>9, <1>11 DEF PassedOn, Concluded, Paths
<1>13. QED
    BY <1>3, <1>10, <1>12 DEF LastBody, BodyPassed

\* finishBody, for a body that is held and has been appended whole.
LEMMA FinishInspects ==
    ASSUME TypeOK, NEW f, Sound(f, others), Undecided(f), f.transaction,
           NEW path \in Paths, Ready(f, path, message', arrived'),
           ~ f.finished[path], message'[path] = "ended", f.appended[path] = arrived'[path],
           path = "Request" => message'["Response"] = "idle",
           NEW g \in FinishBody(f, path), Ends(g, path)
    PROVE  Inspect' /\ g.appended = f.appended
<1>1. PICK ran :
        /\ BodyRan(f, ran, path) /\ Undecided(ran) /\ Sound(ran, others)
        /\ \/ Decides(ran, g, path)
           \/ Closes(ran, g) /\ LastBody(f, path)
           \/ g = ran /\ Undecided(g) /\ g.transaction /\ ~ LastBody(f, path)
    BY FinishBodyDecides
<1>2. f \in FilterType /\ ran.phases \in Seq(1..5)
    BY <1>1 DEF Sound, FilterType
<1>3. /\ Ready(ran, path, message', arrived')
      /\ PassedOn(ran, path, message', arrived'[path])
      /\ Concluded(ran, path, message') /\ ran.finished[path]
      /\ LastBody(ran, path) <=> LastBody(f, path)
    BY <1>1, <1>2, BodyRanReady
<1>4. ASSUME Decides(ran, g, path) PROVE Inspect'
    BY <1>1, <1>2, <1>3, <1>4, DecidesInspects
<1>5. ASSUME Closes(ran, g), LastBody(f, path) PROVE Inspect'
    BY <1>1, <1>2, <1>3, <1>5, ClosesInspects
<1>6. ASSUME g = ran, g.transaction, ~ LastBody(f, path) PROVE Inspect'
    BY <1>1, <1>3, <1>6, StaysInspects
<1>7. g.appended = f.appended
    BY <1>1 DEF BodyRan, Decides, Closes, SameInspection
<1>8. QED
    BY <1>1, <1>4, <1>5, <1>6, <1>7

\* bypassBodyForStreaming
LEMMA BypassInspects ==
    ASSUME TypeOK, NEW f, Sound(f, others), Undecided(f), f.transaction,
           NEW path \in Paths, Ready(f, path, message', arrived'),
           ~ f.finished[path],
           path = "Request" => f.stream_kind # "Regular" /\ message'["Response"] = "idle",
           path = "Response" => RanBy(f, 3),
           NEW g \in BypassBodyForStreaming(f, path), Ends(g, path)
    PROVE  Inspect' /\ g.appended = f.appended
<1>1. PICK passed :
        /\ BodyPassed(f, passed, path) /\ Undecided(passed) /\ Sound(passed, others)
        /\ \/ Closes(passed, g) /\ LastBody(f, path)
           \/ g = passed /\ Undecided(g) /\ g.transaction /\ ~ LastBody(f, path)
    BY BypassBodyDecides
<1>2. f \in FilterType /\ passed.phases \in Seq(1..5)
    BY <1>1 DEF Sound, FilterType
<1>3. /\ Ready(passed, path, message', arrived')
      /\ PassedOn(passed, path, message', arrived'[path])
      /\ Concluded(passed, path, message') /\ passed.finished[path]
      /\ LastBody(passed, path) <=> LastBody(f, path)
    BY <1>1, <1>2, BodyPassedReady
<1>4. ASSUME Closes(passed, g), LastBody(f, path) PROVE Inspect'
    BY <1>1, <1>2, <1>3, <1>4, ClosesInspects
<1>5. ASSUME g = passed, g.transaction, ~ LastBody(f, path) PROVE Inspect'
    BY <1>1, <1>3, <1>5, StaysInspects
<1>6. g.appended = f.appended
    BY <1>1 DEF BodyPassed, Closes, SameInspection
<1>7. QED
    BY <1>1, <1>4, <1>5, <1>6

\* sendBodyOverflow
LEMMA OverflowInspects ==
    ASSUME TypeOK, NEW f, Sound(f, others), Undecided(f), NEW path \in Paths,
           Ready(f, path, message', arrived'),
           Ends(SendBodyOverflow(f, path), path)
    PROVE  Inspect'
<1>1. f.phases \in Seq(1..5)
    BY DEF Sound, FilterType
<1>2. QED
    BY <1>1, BodyOverflowDecides, DecidesInspects

\* A message whose handler holds it for more.
LEMMA HoldInspects ==
    ASSUME TypeOK, NEW g, NEW path \in Paths, Hold(g, path),
           Ready(g, path, message', arrived'), g.transaction, ~ g.finished[path],
           g.appended[path] = arrived'[path], message'[path] = "open",
           path = "Request" => message'["Response"] = "idle",
           path = "Response" => g.response_headers_finished
    PROVE  Inspect'
<1>1. Ends(g, path)
    BY DEF Ends
<1>2. flow'[path] = "held"
    BY DEF Hold, TypeOK
<1>3. Fed(g, path, arrived'[path], flow'[path])
    BY <1>2 DEF Fed
<1>4. Awaiting(g, message')
    BY DEF Awaiting, Paths
<1>5. QED
    BY <1>1, <1>2, <1>3, <1>4, ReadyInspects

-----------------------------------------------------------------------------
(* The callbacks of data and trailers *)

\* The filter manager calls a handler of a path.
Called(path) ==
    /\ life = "open"
    /\ path = "Request" => Decoding
    /\ path = "Response" => Encoding

\* What was passed on is not taken back and not given to the engine.
ForwardKept ==
    \A path \in Paths :
        flow[path] = "forwarded" =>
            flow'[path] = "forwarded" /\ filter'.appended[path] = filter.appended[path]

\* What delivering more of one message does to the states of both.
LEMMA DeliverSame ==
    ASSUME TypeOK, NEW path \in Paths, NEW from, NEW end \in BOOLEAN,
           Deliver(path, from, end)
    PROVE  /\ message[path] = from
           /\ message'[path] = IF end THEN "ended" ELSE "open"
           /\ \A p \in Paths \ {path} : message'[p] = message[p]
BY DEF TypeOK, Deliver

\* Two records with the same verdict that inspect alike.
LEMMA SameEnabled ==
    ASSUME NEW f, NEW g, SameInspection(f, g), SameVerdict(f, g),
           g.transaction = f.transaction
    PROVE  /\ \A k : RanBy(g, k) <=> RanBy(f, k)
           /\ g.phases = f.phases
           /\ g.local_reply = f.local_reply /\ g.engine_bypassed = f.engine_bypassed
           /\ \A p \in Paths : InspectionEnabled(g, p) <=> InspectionEnabled(f, p)
BY DEF SameInspection, SameVerdict, SameScores, SameFlags, RanBy, InspectionEnabled

\* A handler on a path that is being inspected no more, or never was.
LEMMA PassesInspect ==
    ASSUME IndInv, Inspect, NEW path \in Paths, Called(path),
           ~ InspectionEnabled(filter, path), NEW end \in BOOLEAN,
           Deliver(path, "open", end), UNCHANGED life,
           \A p \in Paths \ {path} : arrived'[p] = arrived[p],
           NEW g, SameInspection(filter, g), SameVerdict(filter, g),
           g.transaction = filter.transaction, Continue(g, path)
    PROVE  Inspect' /\ ForwardKept
<1>1. TypeOK /\ Ends(g, path)
    BY DEF IndInv, Ends
<1>2. /\ message[path] = "open" /\ message'[path] \in {"open", "ended"}
      /\ \A p \in Paths \ {path} : message'[p] = message[p]
    BY <1>1, DeliverSame
<1>3. /\ \A k : RanBy(g, k) <=> RanBy(filter, k)
      /\ g.phases = filter.phases
      /\ g.local_reply = filter.local_reply /\ g.engine_bypassed = filter.engine_bypassed
      /\ \A p \in Paths : InspectionEnabled(g, p) <=> InspectionEnabled(filter, p)
    BY SameEnabled
<1>4. filter' = g /\ \A p \in Paths : p # path => flow'[p] = flow[p]
    BY <1>1, EndsFlow
<1>5. flow'[path] = IF filter.local_reply THEN "replied" ELSE "forwarded"
    BY <1>1, <1>3 DEF Continue, TypeOK
<1>6. /\ message'["Request"] = "idle" <=> message["Request"] = "idle"
      /\ message'["Response"] = "idle" <=> message["Response"] = "idle"
      /\ message'["Request"] = "open" => message["Request"] = "open"
      /\ message'["Response"] = "open" => message["Response"] = "open"
    BY <1>2 DEF Paths
<1>7. Traced(g, path, message'[path], arrived'[path])
    <2>1. Traced(filter, path, message[path], arrived[path])
        BY DEF Inspect
    <2>2. ~ RanBy(filter, BodyPhase(path))
        BY <1>2, <2>1 DEF Traced
    <2>3. Traced(filter, path, message'[path], arrived'[path])
        BY <1>2, <2>1, <2>2 DEF Traced
    <2>4. QED
        BY <1>3, <2>3, SamePaths
<1>8. ASSUME NEW p \in Paths, p # path
      PROVE  /\ Traced(g, p, message'[p], arrived'[p])
             /\ Rests(g, p, message', arrived'[p], flow[p])
    <2>1. /\ Traced(filter, p, message[p], arrived[p])
          /\ Rests(filter, p, message, arrived[p], flow[p])
          /\ message'[p] = message[p] /\ arrived'[p] = arrived[p]
        BY <1>2, <1>8 DEF Inspect
    <2>2. PassedOn(filter, p, message, arrived[p]) => PassedOn(filter, p, message', arrived'[p])
        BY <1>6, <2>1 DEF PassedOn
    <2>3. Traced(filter, p, message'[p], arrived'[p])
          /\ Rests(filter, p, message', arrived'[p], flow[p])
        BY <2>1, <2>2 DEF Rests
    <2>4. /\ Traced(filter, p, message'[p], arrived'[p]) =>
                Traced(g, p, message'[p], arrived'[p])
          /\ PassedOn(filter, p, message', arrived'[p]) => PassedOn(g, p, message', arrived'[p])
          /\ Fed(filter, p, arrived'[p], flow[p]) => Fed(g, p, arrived'[p], flow[p])
        BY <1>3, SamePaths
    <2>5. QED
        BY <2>3, <2>4 DEF Rests
<1>9. Ready(g, path, message', arrived')
    BY <1>2, <1>3, <1>6, <1>7, <1>8 DEF Ready, Inspect
<1>10. Fed(g, path, arrived'[path], flow'[path])
    BY <1>3 DEF Fed
<1>11. Awaiting(filter, message)
    BY DEF Inspect, Called
<1>12. Awaiting(g, message')
    BY <1>3, <1>6, <1>11 DEF Awaiting, SameInspection
<1>13. ASSUME ~ filter.local_reply
       PROVE  PassedOn(g, path, message', arrived'[path])
    <2>1. SUFFICES ASSUME ~ filter.disabled, ~ filter.engine_bypassed
                   PROVE  PassedOn(g, path, message', arrived'[path])
        BY <1>3 DEF PassedOn, SameInspection
    <2>2. CASE path = "Request"
        <3>1. CASE filter.stream_kind # "Regular"
            BY <2>2, <3>1 DEF PassedOn, SameInspection
        <3>2. CASE filter.stream_kind = "Regular"
            <4>1. message["Response"] # "idle"
                BY <1>2, <1>11, <1>13, <2>1, <2>2, <3>2 DEF Awaiting, InspectionEnabled
            <4>2. flow["Request"] = "forwarded"
                BY <2>2, <4>1 DEF Called, Decoding
            <4>3. /\ PassedOn(filter, "Request", message, arrived["Request"])
                  /\ Traced(filter, "Request", message["Request"], arrived["Request"])
                BY <2>2, <4>2 DEF Inspect, Rests
            <4>4. QED
                BY <1>2, <2>1, <2>2, <3>2, <4>3 DEF PassedOn, Traced
        <3>3. QED
            BY <3>1, <3>2
    <2>3. CASE path = "Response"
        <3>1. CASE \/ ~ filter.settings.response_inspection
                   \/ message["Request"] = "idle"
                   \/ filter.stats.body_bypassed["Response"] = 1 /\ RanBy(filter, 3)
            BY <1>3, <1>6, <2>3, <3>1 DEF PassedOn, SameInspection
        <3>2. CASE ~ \/ ~ filter.settings.response_inspection
                     \/ message["Request"] = "idle"
                     \/ filter.stats.body_bypassed["Response"] = 1 /\ RanBy(filter, 3)
            BY <1>2, <1>11, <1>13, <2>1, <2>3, <3>2 DEF Awaiting, InspectionEnabled
        <3>3. QED
            BY <3>1, <3>2
    <2>4. QED
        BY <2>2, <2>3 DEF Paths
<1>14. Inspect'
    BY <1>1, <1>5, <1>9, <1>10, <1>12, <1>13, ReadyInspects
<1>15. ForwardKept
    <2>1. flow[path] = "forwarded" => ~ filter.local_reply
        BY DEF Called, Decoding, Encoding, Paths
    <2>2. g.appended = filter.appended
        BY DEF SameInspection
    <2>3. QED
        BY <1>4, <1>5, <2>1, <2>2 DEF ForwardKept
<1>16. QED
    BY <1>14, <1>15

\* Record g is f, with more bytes of a path in it and no more than its limit.
Moved(f, g, path) ==
    /\ g.settings = f.settings /\ g.disabled = f.disabled
    /\ g.stream_kind = f.stream_kind /\ g.finished = f.finished
    /\ g.response_headers_finished = f.response_headers_finished
    /\ g.inspected = f.inspected
    /\ g.stats.body_bypassed = f.stats.body_bypassed
    /\ g.appended[path] <= g.bytes[path] /\ g.bytes[path] <= g.settings.limit[path]
    /\ \A p \in Paths \ {path} :
            g.bytes[p] = f.bytes[p] /\ g.appended[p] = f.appended[p]

\* A message that is inspected is held, and a request that is inspected has
\* had no response.
LEMMA EnabledHeld ==
    ASSUME Inspect, NEW path \in Paths, Called(path), InspectionEnabled(filter, path),
           message[path] = "open"
    PROVE  /\ filter.appended[path] = arrived[path] /\ flow[path] # "forwarded"
           /\ path = "Request" => message["Response"] = "idle"
BY DEF Inspect, Rests, Fed, Called, Decoding

\* The record of a handler that inspects, before it is settled.
LEMMA EnabledReady ==
    ASSUME IndInv, Inspect, NEW path \in Paths, InspectionEnabled(filter, path),
           NEW end \in BOOLEAN, Deliver(path, "open", end),
           \A p \in Paths \ {path} : arrived'[p] = arrived[p],
           NEW g, Moved(filter, g, path), SameVerdict(filter, g),
           g.transaction = filter.transaction
    PROVE  Ready(g, path, message', arrived')
<1>1. TypeOK
    BY DEF IndInv
<1>2. /\ message[path] = "open" /\ message'[path] \in {"open", "ended"}
      /\ \A p \in Paths \ {path} : message'[p] = message[p]
    BY <1>1, DeliverSame
<1>3. /\ \A k : RanBy(g, k) <=> RanBy(filter, k)
      /\ g.phases = filter.phases
      /\ g.local_reply = filter.local_reply /\ g.engine_bypassed = filter.engine_bypassed
    BY DEF SameVerdict, SameScores, SameFlags, RanBy
<1>4. /\ message'["Request"] = "idle" <=> message["Request"] = "idle"
      /\ message'["Response"] = "idle" <=> message["Response"] = "idle"
    BY <1>2 DEF Paths
<1>5. \A p \in Paths : Is(g.finished[p] /\ ~ RanBy(g, BodyPhase(p)))
                        = Is(filter.finished[p] /\ ~ RanBy(filter, BodyPhase(p)))
    BY <1>3 DEF Moved, Is
<1>6. Traced(g, path, message'[path], arrived'[path])
    <2>1. Traced(filter, path, message[path], arrived[path])
        BY DEF Inspect
    <2>2. ~ RanBy(filter, BodyPhase(path))
        BY <1>2, <2>1 DEF Traced
    <2>3. QED
        BY <1>2, <1>3, <1>5, <2>1, <2>2 DEF Traced, Moved
<1>7. ASSUME NEW p \in Paths, p # path
      PROVE  /\ Traced(g, p, message'[p], arrived'[p])
             /\ Rests(g, p, message', arrived'[p], flow[p])
    <2>1. /\ Traced(filter, p, message[p], arrived[p])
          /\ Rests(filter, p, message, arrived[p], flow[p])
          /\ message'[p] = message[p] /\ arrived'[p] = arrived[p]
          /\ g.bytes[p] = filter.bytes[p] /\ g.appended[p] = filter.appended[p]
        BY <1>2, <1>7 DEF Inspect, Moved
    <2>2. Traced(g, p, message'[p], arrived'[p])
        BY <1>3, <1>5, <2>1 DEF Traced, Moved
    <2>3. InspectionEnabled(g, p) => InspectionEnabled(filter, p)
        BY <1>3 DEF InspectionEnabled, Moved
    <2>4. Fed(filter, p, arrived[p], flow[p]) => Fed(g, p, arrived'[p], flow[p])
        BY <2>1, <2>3 DEF Fed
    <2>5. PassedOn(filter, p, message, arrived[p]) => PassedOn(g, p, message', arrived'[p])
        BY <1>3, <1>4, <2>1 DEF PassedOn, Moved
    <2>6. QED
        BY <2>1, <2>2, <2>4, <2>5 DEF Rests
<1>8. QED
    BY <1>2, <1>3, <1>4, <1>6, <1>7 DEF Ready, Inspect

\* decodeData and encodeData
LEMMA DataInspects ==
    ASSUME IndInv, Verdict, Inspect, NEW path \in Paths, Called(path), Data(path)
    PROVE  Inspect' /\ ForwardKept
<1>1. PICK n \in Chunks, end \in BOOLEAN :
        /\ Deliver(path, "open", end)
        /\ arrived' = [arrived EXCEPT ![path] = @ + n]
        /\ ProcessData(path, n, end)
    BY DEF Data
<1>2. n \in Nat /\ TypeOK /\ Sound(filter, others) /\ UNCHANGED life
    BY ChunksAssumption DEF IndInv, Data
<1>3. /\ arrived'[path] = arrived[path] + n
      /\ \A p \in Paths \ {path} : arrived'[p] = arrived[p]
    BY <1>1, <1>2 DEF TypeOK
<1>4. /\ message[path] = "open"
      /\ message'[path] = IF end THEN "ended" ELSE "open"
      /\ \A p \in Paths \ {path} : message'[p] = message[p]
    BY <1>1, <1>2, DeliverSame
<1>5. SameInspection(filter, filter) /\ SameVerdict(filter, filter)
    BY DEF SameInspection, SameVerdict, SameEvents, SameFlags, SameScores, SameVerdictCounts
<1>6. CASE ~ InspectionEnabled(filter, path)
    <2>1. Continue(filter, path)
        BY <1>1, <1>6 DEF ProcessData
    <2>2. QED
        BY <1>1, <1>2, <1>3, <1>5, <1>6, <2>1, PassesInspect
<1>7. CASE InspectionEnabled(filter, path)
    <2> DEFINE charged == Charge(filter, path, n)
               appended == [charged EXCEPT !.appended[path] = @ + n]
    <2>1. /\ filter.transaction /\ ~ filter.local_reply /\ ~ filter.finished[path]
          /\ path = "Response" => filter.response_headers_finished
          /\ Undecided(filter)
        BY <1>7, InspectsUndecided DEF InspectionEnabled, Called
    <2>2. /\ filter.appended[path] = arrived[path] /\ flow[path] # "forwarded"
          /\ path = "Request" => message'["Response"] = "idle"
        BY <1>4, <1>7, EnabledHeld DEF Paths
    <2>3. \/ Ends(SendBodyOverflow(filter, path), path)
          \/ Ends(SendBodyMemoryBudgetExceeded(filter, path), path)
          \/ /\ n # 0 => FitsBudget(filter, n)
             /\ FitsLimit(filter, path, n)
             /\ \/ \E f \in Stopped(charged, path) : Ends(f, path)
                \/ end /\ \E f \in FinishBody(appended, path) : Ends(f, path)
                \/ ~ end /\ Hold(appended, path)
        BY <1>1, <1>7 DEF ProcessData, Ends
    <2>4. Ready(filter, path, message', arrived')
        <3>1. Moved(filter, filter, path)
            BY DEF Moved, Inspect, Traced
        <3>2. QED
            BY <1>1, <1>3, <1>5, <1>7, <3>1, EnabledReady
    <2>5. ASSUME n # 0 => FitsBudget(filter, n), FitsLimit(filter, path, n)
          PROVE  /\ Sound(charged, others) /\ Undecided(charged) /\ charged.transaction
                 /\ Ready(charged, path, message', arrived')
                 /\ \A p \in Paths \ {path} : charged.appended[p] = filter.appended[p]
                 /\ Sound(appended, others) /\ Undecided(appended) /\ appended.transaction
                 /\ Ready(appended, path, message', arrived')
                 /\ \A p \in Paths \ {path} : appended.appended[p] = filter.appended[p]
                 /\ appended.appended[path] = arrived'[path]
                 /\ ~ appended.finished[path]
                 /\ path = "Response" => appended.response_headers_finished
        <3>1. Sound(charged, others) /\ BodyCharged(filter, charged, path, n)
              /\ SameVerdict(filter, charged) /\ charged.transaction = filter.transaction
            BY <1>2, <2>1, <2>5, ChargeSound, ChargeTells
        <3> HIDE DEF charged
        <3>2. Sound(appended, others)
            BY <1>2, <3>1, AppendSound
        <3>3. BodyAppended(filter, appended, path, n)
              /\ SameVerdict(filter, appended) /\ appended.transaction = filter.transaction
            BY <1>2, <3>1, AppendTells
        <3> HIDE DEF appended
        <3>4. Undecided(charged) /\ Undecided(appended)
            BY <2>1, <3>1, <3>3, SameVerdictDecided
        <3>5. /\ filter.bytes \in Counters /\ filter.appended \in Counters
              /\ filter.bytes[path] + n <= filter.settings.limit[path]
              /\ filter.appended[path] <= filter.bytes[path]
              /\ filter.settings.limit[path] \in Nat
            BY <1>2, <2>5
            DEF Sound, FilterType, EffectiveSettings, FitsLimit, Inspect, Traced
        <3>6. Moved(filter, charged, path)
            BY <1>2, <3>1, <3>5 DEF Moved, BodyCharged, Counters
        <3>7. Moved(filter, appended, path)
            BY <1>2, <3>3, <3>5 DEF Moved, BodyAppended, Counters
        <3>8. Ready(charged, path, message', arrived') /\ Ready(appended, path, message', arrived')
            BY <1>1, <1>3, <1>7, <3>1, <3>3, <3>6, <3>7, EnabledReady
        <3>9. appended.appended[path] = arrived'[path]
            BY <1>3, <2>2, <3>3, <3>5 DEF BodyAppended, Counters
        <3>10. /\ ~ appended.finished[path]
               /\ path = "Response" => appended.response_headers_finished
            BY <2>1, <3>3 DEF BodyAppended
        <3>11. QED
            BY <2>1, <3>1, <3>2, <3>3, <3>4, <3>6, <3>7, <3>8, <3>9, <3>10 DEF Moved
    <2> HIDE DEF charged, appended
    <2>6. ASSUME NEW f, Sound(f, others), Undecided(f), Ready(f, path, message', arrived'),
                 NEW g, Decides(f, g, path), Ends(g, path)
          PROVE  Inspect' /\ g.appended = f.appended
        <3>1. f.phases \in Seq(1..5)
            BY <2>6 DEF Sound, FilterType
        <3>2. QED
            BY <1>2, <2>6, <3>1, DecidesInspects DEF Decides, SameInspection
    <2>7. Inspect' /\ \A p \in Paths \ {path} : filter'.appended[p] = filter.appended[p]
        <3>1. CASE Ends(SendBodyOverflow(filter, path), path)
            BY <1>2, <2>1, <2>4, <2>6, <3>1, BodyOverflowDecides, EndsFlow
        <3>2. CASE Ends(SendBodyMemoryBudgetExceeded(filter, path), path)
            BY <1>2, <2>1, <2>4, <2>6, <3>2, BudgetExceededDecides, EndsFlow
        <3>3. CASE /\ n # 0 => FitsBudget(filter, n)
                   /\ FitsLimit(filter, path, n)
                   /\ \E f \in Stopped(charged, path) : Ends(f, path)
            BY <1>2, <2>5, <2>6, <3>3, StopDecides, EndsFlow
        <3>4. CASE /\ n # 0 => FitsBudget(filter, n)
                   /\ FitsLimit(filter, path, n)
                   /\ end /\ \E f \in FinishBody(appended, path) : Ends(f, path)
            BY <1>2, <1>4, <2>2, <2>5, <3>4, FinishInspects, EndsFlow
        <3>5. CASE /\ n # 0 => FitsBudget(filter, n)
                   /\ FitsLimit(filter, path, n)
                   /\ ~ end /\ Hold(appended, path)
            BY <1>2, <1>4, <2>2, <2>5, <3>5, HoldInspects, EndsFlow DEF Ends
        <3>6. QED
            BY <2>3, <3>1, <3>2, <3>3, <3>4, <3>5
    <2>8. \A p \in Paths \ {path} : flow'[p] = flow[p]
        BY <1>2, <2>3, EndsFlow DEF Ends
    <2>9. QED
        BY <2>2, <2>7, <2>8 DEF ForwardKept
<1>8. QED
    BY <1>6, <1>7

\* decodeTrailers and encodeTrailers
LEMMA TrailersInspect ==
    ASSUME IndInv, Verdict, Inspect, NEW path \in Paths, Called(path), Trailers(path)
    PROVE  Inspect' /\ ForwardKept
<1> DEFINE counted == [filter EXCEPT !.stats.trailers_uninspected[path] = @ + 1]
<1>1. /\ Deliver(path, "open", TRUE) /\ UNCHANGED <<arrived, life>>
      /\ \/ ~ InspectionEnabled(filter, path) /\ Continue(counted, path)
         \/ /\ InspectionEnabled(filter, path)
            /\ \E f \in FinishBody(counted, path) : Ends(f, path)
    BY DEF Trailers, Ends
<1>2. TypeOK /\ Sound(filter, others) /\ filter \in FilterType
    BY DEF IndInv, Sound
<1>3. /\ SameInspection(filter, counted) /\ SameVerdict(filter, counted)
      /\ counted.transaction = filter.transaction
    BY <1>2, TrailersTell
<1>4. Sound(counted, others)
    BY <1>2, TrailersSound
<1> HIDE DEF counted
<1>5. CASE ~ InspectionEnabled(filter, path) /\ Continue(counted, path)
    BY <1>1, <1>3, <1>5, PassesInspect
<1>6. CASE /\ InspectionEnabled(filter, path)
           /\ \E f \in FinishBody(counted, path) : Ends(f, path)
    <2>1. /\ message[path] = "open" /\ message'[path] = "ended"
          /\ \A p \in Paths \ {path} : message'[p] = message[p]
        BY <1>1, <1>2, DeliverSame
    <2>2. filter.transaction /\ Undecided(filter) /\ ~ filter.finished[path]
        BY <1>6, InspectsUndecided DEF InspectionEnabled, Called
    <2>3. /\ filter.appended[path] = arrived[path] /\ flow[path] # "forwarded"
          /\ path = "Request" => message'["Response"] = "idle"
        BY <1>6, <2>1, EnabledHeld DEF Paths
    <2>4. Moved(filter, counted, path)
        BY <1>3 DEF SameInspection, Moved, Inspect, Traced
    <2>5. Ready(counted, path, message', arrived')
        BY <1>1, <1>3, <1>6, <2>4, EnabledReady
    <2>6. /\ Undecided(counted) /\ counted.transaction /\ ~ counted.finished[path]
          /\ counted.appended[path] = arrived'[path] /\ counted.appended = filter.appended
        BY <1>1, <1>3, <2>2, <2>3, SameVerdictDecided DEF SameInspection
    <2>7. PICK f \in FinishBody(counted, path) : Ends(f, path)
        BY <1>6
    <2>8. Inspect' /\ f.appended = counted.appended
        BY <1>2, <1>4, <2>1, <2>3, <2>5, <2>6, <2>7, FinishInspects
    <2>9. filter' = f /\ \A p \in Paths : p # path => flow'[p] = flow[p]
        BY <1>2, <2>7, EndsFlow
    <2>10. QED
        BY <2>3, <2>6, <2>8, <2>9 DEF ForwardKept
<1>7. QED
    BY <1>1, <1>5, <1>6

-----------------------------------------------------------------------------
(* The callbacks of headers *)

\* A stream of which nothing has been inspected but its connection and headers.
Blank(f) ==
    /\ f.phases \in {<<>>, <<1>>}
    /\ ~ f.response_headers_finished
    /\ \A path \in Paths :
        /\ f.appended[path] = 0 /\ f.bytes[path] = 0 /\ ~ f.finished[path]
        /\ f.stats.body_bypassed[path] = 0

\* The record createTransaction leaves is ready for the request's headers.
LEMMA BlankReady ==
    ASSUME NEW f \in FilterType, Blank(f), NEW m, NEW a,
           m["Request"] # "idle", m["Response"] = "idle",
           \A path \in Paths : a[path] = 0, flow["Response"] = "none"
    PROVE  Ready(f, "Request", m, a)
<1>1. DOMAIN <<>> = {} /\ DOMAIN <<1>> = {1} /\ <<1>>[1] = 1
    OBVIOUS
<1>2. \A k \in 2..4 : ~ RanBy(f, k)
    BY <1>1 DEF Blank, RanBy
<1>3. Increasing(f.phases)
    BY <1>1 DEF Blank, Increasing
<1>4. ASSUME NEW path \in Paths PROVE Traced(f, path, m[path], a[path])
    <2>1. ~ RanBy(f, BodyPhase(path))
        BY <1>2 DEF BodyPhase
    <2>2. 0 <= f.settings.limit[path]
        BY DEF FilterType, EffectiveSettings
    <2>3. QED
        BY <2>1, <2>2 DEF Traced, Blank, Is
<1>5. Rests(f, "Response", m, a["Response"], flow["Response"])
    BY DEF Rests
<1>6. QED
    BY <1>2, <1>3, <1>4, <1>5 DEF Ready, Paths

\* The end of decodeHeaders.
LEMMA RequestHeadersInspect ==
    ASSUME TypeOK, NEW f, Sound(f, others), Undecided(f), f.transaction, Blank(f),
           NEW end \in BOOLEAN, NEW declared,
           message'["Request"] = IF end THEN "ended" ELSE "open",
           message'["Response"] = "idle",
           \A path \in Paths : arrived'[path] = 0, flow["Response"] = "none",
           RequestHeadersInspected(f, end, declared)
    PROVE  Inspect'
<1>1. PICK kind \in Kinds :
        LET g == [f EXCEPT !.stream_kind = kind] IN
        \/ /\ kind # "Regular"
           /\ \E h \in BypassBodyForStreaming(g, "Request") : StoppedOrContinue(h, "Request")
        \/ end /\ \E h \in FinishBody(g, "Request") : StoppedOrContinue(h, "Request")
        \/ Hold(SendBodyOverflow(g, "Request"), "Request")
        \/ ~ end /\ Hold(g, "Request")
    BY DEF RequestHeadersInspected
<1> DEFINE g == [f EXCEPT !.stream_kind = kind]
<1>2. /\ Sound(g, others) /\ SameVerdict(f, g) /\ g.transaction /\ Blank(g)
      /\ g.stream_kind = kind
    BY KindsAssumption DEF Sound, Accounted, FilterType, SameVerdict, SameEvents, SameFlags,
                           SameScores, SameVerdictCounts, Blank
<1> HIDE DEF g
<1>3. \/ kind # "Regular" /\ \E h \in BypassBodyForStreaming(g, "Request") : Ends(h, "Request")
      \/ end /\ \E h \in FinishBody(g, "Request") : Ends(h, "Request")
      \/ Ends(SendBodyOverflow(g, "Request"), "Request")
      \/ ~ end /\ Hold(g, "Request")
    BY <1>1 DEF g, Ends
<1>4. /\ "Request" \in Paths /\ Undecided(g) /\ g \in FilterType
      /\ g.appended["Request"] = arrived'["Request"] /\ ~ g.finished["Request"]
    BY <1>2, SameVerdictDecided DEF Paths, Sound, Blank
<1>5. Ready(g, "Request", message', arrived')
    BY <1>2, <1>4, BlankReady
<1>6. CASE kind # "Regular" /\ \E h \in BypassBodyForStreaming(g, "Request") : Ends(h, "Request")
    BY <1>2, <1>4, <1>5, <1>6, BypassInspects
<1>7. CASE end /\ \E h \in FinishBody(g, "Request") : Ends(h, "Request")
    BY <1>2, <1>4, <1>5, <1>7, FinishInspects
<1>8. CASE Ends(SendBodyOverflow(g, "Request"), "Request")
    BY <1>2, <1>4, <1>5, <1>8, OverflowInspects
<1>9. CASE ~ end /\ Hold(g, "Request")
    BY <1>2, <1>4, <1>5, <1>9, HoldInspects
<1>10. QED
    BY <1>3, <1>6, <1>7, <1>8, <1>9

\* decodeHeaders
LEMMA DecodeHeadersInspect ==
    ASSUME IndInv, Verdict, Inspect, DecodeHeaders
    PROVE  Inspect' /\ ForwardKept
<1>1. PICK end \in BOOLEAN, declared \in Declared, route \in Routes :
        LET ready == InitializeSettings(filter, route)
            created == CreateTransaction(ready)
            ran == RunPhase(created, 1)
        IN
        /\ Deliver("Request", "idle", end)
        /\ \/ ready.disabled /\ Continue(ready, "Request")
           \/ \E error \in Errors :
                StoppedOrContinue(Evaluate(ready, error, "Request"), "Request")
           \/ \E f \in Stopped(created, "Request") : StoppedOrContinue(f, "Request")
           \/ \E f \in Stopped(ran, "Request") : StoppedOrContinue(f, "Request")
           \/ RequestHeadersInspected(ran, end, declared)
    BY DEF DecodeHeaders
<1> DEFINE ready == InitializeSettings(filter, route)
           created == CreateTransaction(ready)
           ran == RunPhase(created, 1)
<1>2. /\ TypeOK /\ "Request" \in Paths /\ "Response" \in Paths
      /\ filter \in FilterType /\ Sound(filter, others)
    BY DEF IndInv, Paths, Sound
<1>3. /\ message["Request"] = "idle"
      /\ message'["Request"] = IF end THEN "ended" ELSE "open"
      /\ message'["Response"] = message["Response"]
    BY <1>1, <1>2, DeliverSame
<1>4. /\ flow["Request"] = "none" /\ flow["Response"] = "none"
      /\ message["Response"] = "idle" /\ arrived' = arrived /\ life = "open"
    BY <1>2, <1>3 DEF Inspect, Rests, DecodeHeaders, Decoding
<1>5. /\ Undecided(filter) /\ ~ filter.transaction /\ ~ filter.resources_released
      /\ filter.phases = <<>>
    BY <1>3, <1>4 DEF Verdict, IndInv, Fresh
<1>6. Blank(filter) /\ \A path \in Paths : arrived'[path] = 0
    <2>1. ASSUME NEW path \in Paths
          PROVE  /\ arrived[path] = 0 /\ filter.appended[path] = 0
                 /\ filter.bytes[path] = 0 /\ ~ filter.finished[path]
                 /\ filter.stats.body_bypassed[path] = 0
        <3>1. Traced(filter, path, message[path], arrived[path]) /\ message[path] = "idle"
            BY <1>3, <1>4 DEF Inspect, Paths
        <3>2. filter.appended[path] \in Nat
            BY <1>2 DEF FilterType, Counters
        <3>3. QED
            BY <3>1, <3>2 DEF Traced, Is
    <2>2. ~ filter.response_headers_finished
        BY <1>2, <1>4 DEF Inspect, Traced
    <2>3. QED
        BY <1>4, <1>5, <2>1, <2>2 DEF Blank
<1>7. Sound(ready, others)
    BY <1>2, InitializeSettingsSound
<1>8. /\ SameVerdict(filter, ready) /\ ready.transaction = filter.transaction
      /\ ready.resources_released = filter.resources_released /\ Blank(ready)
    BY <1>2, <1>6 DEF InitializeSettings, FilterType, SameVerdict, SameEvents, SameFlags,
                      SameScores, SameVerdictCounts, Blank
<1>9. \/ ready.disabled /\ Ends(ready, "Request")
      \/ \E error \in Errors : Ends(Evaluate(ready, error, "Request"), "Request")
      \/ \E f \in Stopped(created, "Request") : Ends(f, "Request")
      \/ \E f \in Stopped(ran, "Request") : Ends(f, "Request")
      \/ RequestHeadersInspected(ran, end, declared)
    BY <1>1 DEF Ends
<1> HIDE DEF ready
<1>10. Undecided(ready) /\ ready.phases = <<>> /\ ready \in FilterType
    BY <1>5, <1>7, <1>8, SameVerdictDecided DEF SameVerdict, SameScores, Sound
<1>11. Sound(created, others) /\ SameInspection(ready, created) /\ SameVerdict(ready, created)
       /\ created.transaction
    BY <1>5, <1>7, <1>8, <1>10, CreateSound, CreateTells
<1>12. Undecided(created) /\ Blank(created) /\ created.phases = <<>>
    BY <1>8, <1>10, <1>11, SameVerdictDecided
    DEF SameInspection, SameVerdict, SameScores, Blank
<1> HIDE DEF created
<1>13. /\ Sound(ran, others) /\ Undecided(ran) /\ ran.transaction /\ SameInspection(created, ran)
       /\ ran.phases = Append(created.phases, 1)
    BY <1>11, <1>12, RunPhaseSound, RunPhaseTells
<1> HIDE DEF ran
<1>14. Blank(ran)
    <2>1. ran.phases = <<1>>
        BY <1>12, <1>13
    <2>2. QED
        BY <1>12, <1>13, <2>1 DEF Blank, SameInspection
<1>15. /\ message'["Request"] # "idle" /\ message'["Response"] = "idle"
    BY <1>3, <1>4
<1>16. /\ Ready(ready, "Request", message', arrived')
       /\ Ready(created, "Request", message', arrived')
       /\ Ready(ran, "Request", message', arrived')
    BY <1>4, <1>6, <1>8, <1>10, <1>11, <1>12, <1>13, <1>14, <1>15, BlankReady DEF Sound
<1>17. /\ ready.phases \in Seq(1..5) /\ created.phases \in Seq(1..5) /\ ran.phases \in Seq(1..5)
    BY <1>7, <1>11, <1>13 DEF Sound, FilterType
<1>18. ASSUME ready.disabled, Ends(ready, "Request") PROVE Inspect'
    <2>1. /\ Fed(ready, "Request", arrived'["Request"], flow'["Request"])
          /\ PassedOn(ready, "Request", message', arrived'["Request"])
          /\ Awaiting(ready, message')
        BY <1>18 DEF Fed, InspectionEnabled, PassedOn, Awaiting
    <2>2. QED
        BY <1>2, <1>16, <1>18, <2>1, ReadyInspects
<1>19. ASSUME NEW error, Ends(Evaluate(ready, error, "Request"), "Request") PROVE Inspect'
    BY <1>2, <1>7, <1>10, <1>16, <1>17, <1>19, EvaluateDecides, DecidesInspects
<1>20. ASSUME NEW f \in Stopped(created, "Request"), Ends(f, "Request") PROVE Inspect'
    BY <1>2, <1>11, <1>12, <1>16, <1>17, <1>20, StopDecides, DecidesInspects
<1>21. ASSUME NEW f \in Stopped(ran, "Request"), Ends(f, "Request") PROVE Inspect'
    BY <1>2, <1>13, <1>16, <1>17, <1>21, StopDecides, DecidesInspects
<1>22. ASSUME RequestHeadersInspected(ran, end, declared) PROVE Inspect'
    BY <1>2, <1>3, <1>4, <1>6, <1>13, <1>14, <1>22, RequestHeadersInspect
<1>23. ForwardKept
    BY <1>4 DEF ForwardKept, Paths
<1>24. QED
    BY <1>9, <1>18, <1>19, <1>20, <1>21, <1>22, <1>23

\* The native phase of the response headers.
LEMMA ResponsePhaseReady ==
    ASSUME NEW f \in FilterType, Undecided(f), f.transaction, NEW m, NEW a,
           Ready(f, "Response", m, a), ~ RanBy(f, 3), ~ RanBy(f, 4),
           NEW g, g.phases = Append(f.phases, 3), SameInspection(f, g)
    PROVE  Ready(g, "Response", m, a) /\ RanBy(g, 3)
<1>1. f.phases \in Seq(1..5) /\ ~ RanBy(f, 5)
    BY DEF FilterType, Undecided, ScoresCounted
<1>2. Increasing(g.phases)
    <2>1. \A k \in 3..5 : ~ RanBy(f, k)
        BY <1>1
    <2>2. QED
        BY <1>1, <2>1, IncreasingAppend DEF Ready
<1>3. /\ RanBy(g, 2) <=> RanBy(f, 2)
      /\ RanBy(g, 4) <=> RanBy(f, 4)
      /\ RanBy(g, 3)
    BY <1>1, PhaseRan
<1>4. ASSUME NEW path \in Paths
      PROVE  Traced(f, path, m[path], a[path]) => Traced(g, path, m[path], a[path])
    <2>1. RanBy(g, BodyPhase(path)) <=> RanBy(f, BodyPhase(path))
        BY <1>3 DEF BodyPhase
    <2>2. Is(g.finished[path] /\ ~ RanBy(g, BodyPhase(path)))
            = Is(f.finished[path] /\ ~ RanBy(f, BodyPhase(path)))
        BY <2>1 DEF Is, SameInspection
    <2>3. QED
        BY <2>1, <2>2 DEF Traced, SameInspection
<1>5. ASSUME Rests(f, "Request", m, a["Request"], flow["Request"])
      PROVE  Rests(g, "Request", m, a["Request"], flow["Request"])
    <2>1. InspectionEnabled(g, "Request") => InspectionEnabled(f, "Request")
        BY DEF InspectionEnabled, SameInspection, Undecided
    <2>2. Fed(f, "Request", a["Request"], flow["Request"]) =>
            Fed(g, "Request", a["Request"], flow["Request"])
        BY <2>1 DEF Fed, SameInspection
    <2>3. PassedOn(f, "Request", m, a["Request"]) => PassedOn(g, "Request", m, a["Request"])
        BY <1>3 DEF PassedOn, BodyPhase, SameInspection, Undecided
    <2>4. QED
        BY <1>5, <2>2, <2>3 DEF Rests
<1>6. QED
    BY <1>2, <1>3, <1>4, <1>5 DEF Ready, Paths

\* The end of encodeHeaders.
LEMMA ResponseHeadersInspect ==
    ASSUME TypeOK, NEW f, Sound(f, others), Undecided(f), f.transaction,
           NEW end \in BOOLEAN, NEW kind, NEW declared,
           message'["Response"] = IF end THEN "ended" ELSE "open",
           Ready(f, "Response", message', arrived'), RanBy(f, 3),
           f.response_headers_finished, ~ f.finished["Response"],
           f.appended["Response"] = arrived'["Response"],
           ResponseHeadersInspected(f, end, kind, declared)
    PROVE  Inspect' /\ filter'.appended = f.appended
<1>1. \/ end /\ \E h \in FinishBody(f, "Response") : Ends(h, "Response")
      \/ \E h \in BypassBodyForStreaming(f, "Response") : Ends(h, "Response")
      \/ Ends(SendBodyOverflow(f, "Response"), "Response")
      \/ ~ end /\ Hold(f, "Response")
    BY DEF ResponseHeadersInspected, Ends
<1>2. "Response" \in Paths
    BY DEF Paths
<1>3. ASSUME end, NEW h \in FinishBody(f, "Response"), Ends(h, "Response")
      PROVE  Inspect' /\ filter'.appended = f.appended
    <2>1. Inspect' /\ h.appended = f.appended
        BY <1>2, <1>3, FinishInspects
    <2>2. QED
        BY <1>2, <1>3, <2>1, EndsFlow
<1>4. ASSUME NEW h \in BypassBodyForStreaming(f, "Response"), Ends(h, "Response")
      PROVE  Inspect' /\ filter'.appended = f.appended
    <2>1. Inspect' /\ h.appended = f.appended
        BY <1>2, <1>4, BypassInspects
    <2>2. QED
        BY <1>2, <1>4, <2>1, EndsFlow
<1>5. ASSUME Ends(SendBodyOverflow(f, "Response"), "Response")
      PROVE  Inspect' /\ filter'.appended = f.appended
    <2>1. Inspect'
        BY <1>2, <1>5, OverflowInspects
    <2>2. SendBodyOverflow(f, "Response").appended = f.appended
        BY <1>2, BodyOverflowDecides DEF Decides, SameInspection
    <2>3. QED
        BY <1>2, <1>5, <2>1, <2>2, EndsFlow
<1>6. ASSUME ~ end, Hold(f, "Response")
      PROVE  Inspect' /\ filter'.appended = f.appended
    <2>1. Inspect'
        BY <1>2, <1>6, HoldInspects
    <2>2. QED
        BY <1>6, <2>1 DEF Hold
<1>7. QED
    BY <1>1, <1>3, <1>4, <1>5, <1>6

\* encodeHeaders
LEMMA EncodeHeadersInspect ==
    ASSUME IndInv, Verdict, Inspect, EncodeHeaders
    PROVE  Inspect' /\ ForwardKept
<1>1. PICK end \in BOOLEAN, declared \in Declared, kind \in ResponseKinds :
        LET ran == RunPhase(filter, 3) IN
        /\ Deliver("Response", "idle", end)
        /\ \/ ~ ResponseInspected(filter) /\ Continue(filter, "Response")
           \/ /\ ResponseInspected(filter)
              /\ \/ \E error \in Errors :
                        StoppedOrContinue(Evaluate(filter, error, "Response"), "Response")
                 \/ \E f \in Stopped(ran, "Response") : StoppedOrContinue(f, "Response")
                 \/ ResponseHeadersInspected(
                        [ran EXCEPT !.response_headers_finished = TRUE],
                        end, kind, declared)
    BY DEF EncodeHeaders
<1> DEFINE ran == RunPhase(filter, 3)
           finished == [ran EXCEPT !.response_headers_finished = TRUE]
<1>2. /\ TypeOK /\ "Request" \in Paths /\ "Response" \in Paths
      /\ filter \in FilterType /\ Sound(filter, others)
    BY DEF IndInv, Paths, Sound
<1>3. /\ message["Response"] = "idle"
      /\ message'["Response"] = IF end THEN "ended" ELSE "open"
      /\ message'["Request"] = message["Request"]
    BY <1>1, <1>2, DeliverSame
<1>4. /\ arrived' = arrived /\ life = "open" /\ UNCHANGED life
      /\ flow["Response"] = "none"
    BY <1>2, <1>3 DEF EncodeHeaders, Encoding, Inspect, Rests
<1>5. /\ Traced(filter, "Response", "idle", arrived["Response"])
      /\ Traced(filter, "Request", message["Request"], arrived["Request"])
      /\ Rests(filter, "Request", message, arrived["Request"], flow["Request"])
    BY <1>2, <1>3 DEF Inspect
<1>6. ~ RanBy(filter, 3) /\ ~ RanBy(filter, 4)
    BY <1>3, <1>5 DEF Inspect, Traced, BodyPhase
<1>7. Ready(filter, "Response", message', arrived')
    <2>1. Traced(filter, "Response", message'["Response"], arrived'["Response"])
        BY <1>3, <1>4, <1>5, <1>6 DEF Traced, BodyPhase
    <2>2. Rests(filter, "Request", message', arrived'["Request"], flow["Request"])
        BY <1>3, <1>4, <1>5 DEF Rests, PassedOn
    <2>3. QED
        BY <1>3, <1>4, <1>5, <1>6, <2>1, <2>2 DEF Ready, Inspect, Paths
<1>8. ~ filter.finished["Response"] /\ filter.appended["Response"] = arrived'["Response"]
      /\ ~ filter.response_headers_finished
    <2>1. filter.appended["Response"] \in Nat
        BY <1>2 DEF FilterType, Counters
    <2>2. QED
        BY <1>4, <1>5, <2>1 DEF Traced
<1>9. Awaiting(filter, message)
    BY <1>4 DEF Inspect
<1>10. ASSUME NEW g, Ends(g, "Response"), g.appended = filter.appended
       PROVE  ForwardKept
    BY <1>2, <1>4, <1>10, EndsFlow DEF ForwardKept, Paths
<1>11. CASE ~ ResponseInspected(filter) /\ Continue(filter, "Response")
    <2>1. Ends(filter, "Response")
        BY <1>11 DEF Ends
    <2>2. Fed(filter, "Response", arrived'["Response"], flow'["Response"])
        BY <1>8 DEF Fed, InspectionEnabled
    <2>3. ASSUME ~ filter.local_reply
          PROVE  PassedOn(filter, "Response", message', arrived'["Response"])
        BY <1>3, <1>9, <1>11, <2>3 DEF PassedOn, Awaiting, ResponseInspected
    <2>4. flow'["Response"] = "forwarded" => ~ filter.local_reply
        BY <1>2, <2>1, EndsFlow
    <2>5. Awaiting(filter, message')
        BY <1>3, <1>9, <1>11 DEF Awaiting, ResponseInspected
    <2>6. QED
        BY <1>2, <1>7, <1>10, <2>1, <2>2, <2>3, <2>4, <2>5, ReadyInspects
<1>12. CASE /\ ResponseInspected(filter)
            /\ \/ \E error \in Errors : Ends(Evaluate(filter, error, "Response"), "Response")
               \/ \E f \in Stopped(ran, "Response") : Ends(f, "Response")
               \/ ResponseHeadersInspected(finished, end, kind, declared)
    <2>1. Undecided(filter) /\ filter.transaction
        BY <1>4, <1>12, InspectsUndecided DEF ResponseInspected
    <2>2. /\ Sound(ran, others) /\ Undecided(ran) /\ ran.transaction
          /\ SameInspection(filter, ran) /\ ran.phases = Append(filter.phases, 3)
        BY <1>2, <2>1, RunPhaseSound, RunPhaseTells
    <2> HIDE DEF ran
    <2>3. Ready(ran, "Response", message', arrived') /\ RanBy(ran, 3)
        BY <1>2, <1>6, <1>7, <2>1, <2>2, ResponsePhaseReady
    <2>4. filter.phases \in Seq(1..5) /\ ran.phases \in Seq(1..5) /\ ran \in FilterType
        BY <1>2, <2>2 DEF Sound, FilterType
    <2>5. ASSUME NEW error, Ends(Evaluate(filter, error, "Response"), "Response")
          PROVE  Inspect' /\ ForwardKept
        <3>1. Decides(filter, Evaluate(filter, error, "Response"), "Response")
            BY <1>2, <2>1, EvaluateDecides
        <3>2. Inspect'
            BY <1>2, <1>7, <2>1, <2>4, <2>5, <3>1, DecidesInspects
        <3>3. QED
            BY <1>10, <2>5, <3>1, <3>2 DEF Decides, SameInspection
    <2>6. ASSUME NEW f \in Stopped(ran, "Response"), Ends(f, "Response")
          PROVE  Inspect' /\ ForwardKept
        <3>1. Decides(ran, f, "Response")
            BY <1>2, <2>2, <2>6, StopDecides
        <3>2. Inspect'
            BY <1>2, <2>2, <2>3, <2>4, <2>6, <3>1, DecidesInspects
        <3>3. QED
            BY <1>10, <2>2, <2>6, <3>1, <3>2 DEF Decides, SameInspection
    <2>7. ASSUME ResponseHeadersInspected(finished, end, kind, declared)
          PROVE  Inspect' /\ ForwardKept
        <3>1. /\ Sound(finished, others) /\ SameVerdict(ran, finished) /\ finished.transaction
            BY <2>2, <2>4 DEF Sound, Accounted, FilterType, SameVerdict, SameEvents, SameFlags,
                              SameScores, SameVerdictCounts
        <3>2. /\ finished.phases = ran.phases /\ finished.response_headers_finished
              /\ finished.settings = ran.settings /\ finished.disabled = ran.disabled
              /\ finished.stream_kind = ran.stream_kind /\ finished.bytes = ran.bytes
              /\ finished.finished = ran.finished /\ finished.appended = ran.appended
              /\ finished.inspected = ran.inspected /\ finished.stats = ran.stats
              /\ finished.local_reply = ran.local_reply
              /\ finished.engine_bypassed = ran.engine_bypassed
              /\ finished.transaction = ran.transaction
            BY <2>4 DEF FilterType
        <3> HIDE DEF finished
        <3>3. Undecided(finished)
            BY <2>2, <3>1, SameVerdictDecided
        <3>4. \A k : RanBy(finished, k) <=> RanBy(ran, k)
            BY <3>2 DEF RanBy
        <3>5. Ready(finished, "Response", message', arrived')
            <4>1. ASSUME NEW path \in Paths
                  PROVE  Traced(finished, path, message'[path], arrived'[path])
                <5>1. Traced(ran, path, message'[path], arrived'[path])
                    BY <2>3 DEF Ready
                <5>2. Is(finished.finished[path] /\ ~ RanBy(finished, BodyPhase(path)))
                        = Is(ran.finished[path] /\ ~ RanBy(ran, BodyPhase(path)))
                    BY <3>2, <3>4 DEF Is
                <5>3. path = "Response" => message'[path] # "idle"
                    BY <1>3
                <5>4. QED
                    BY <3>2, <3>4, <5>1, <5>2, <5>3 DEF Traced
            <4>2. Rests(finished, "Request", message', arrived'["Request"], flow["Request"])
                <5>1. Rests(ran, "Request", message', arrived'["Request"], flow["Request"])
                    BY <1>2, <2>3 DEF Ready
                <5>2. QED
                    BY <3>2, <3>4, <5>1 DEF Rests, Fed, InspectionEnabled, PassedOn
            <4>3. QED
                BY <2>3, <3>2, <3>4, <4>1, <4>2 DEF Ready, Paths
        <3>6. /\ finished.finished = filter.finished /\ finished.appended = filter.appended
            BY <2>2, <3>2 DEF SameInspection
        <3>7. Inspect' /\ filter'.appended = finished.appended
            BY <1>2, <1>3, <1>8, <2>3, <2>7, <3>1, <3>2, <3>3, <3>4, <3>5, <3>6,
               ResponseHeadersInspect
        <3>8. flow'["Request"] = flow["Request"]
            <4>1. \E h : Ends(h, "Response")
                BY <2>7 DEF ResponseHeadersInspected, Ends
            <4>2. QED
                BY <1>2, <4>1, EndsFlow
        <3>9. ForwardKept
            BY <1>4, <3>6, <3>7, <3>8 DEF ForwardKept, Paths
        <3>10. QED
            BY <3>7, <3>9
    <2>8. QED
        BY <1>12, <2>5, <2>6, <2>7
<1>13. QED
    BY <1>1, <1>11, <1>12 DEF Ends

-----------------------------------------------------------------------------
(* The end of a stream, and the other streams *)

\* A step that inspects nothing: phase 5 and the release at most.
LEMMA QuietInspects ==
    ASSUME TypeOK, Inspect, UNCHANGED <<message, flow, arrived>>,
           SameInspection(filter, filter'),
           \/ filter'.phases = filter.phases
           \/ ~ RanBy(filter, 5) /\ filter'.phases = Append(filter.phases, 5),
           filter'.engine_bypassed = filter.engine_bypassed,
           filter'.local_reply = filter.local_reply,
           filter'.transaction => filter.transaction,
           life' = "open" =>
                life = "open" /\ (filter.local_reply \/ filter'.transaction = filter.transaction)
    PROVE  Inspect' /\ ForwardKept
<1>1. filter.phases \in Seq(1..5)
    BY DEF TypeOK, FilterType
<1>2. Increasing(filter'.phases) /\ \A k \in 1..4 : RanBy(filter', k) <=> RanBy(filter, k)
    <2>1. CASE filter'.phases = filter.phases
        BY <2>1 DEF RanBy, Inspect
    <2>2. CASE ~ RanBy(filter, 5) /\ filter'.phases = Append(filter.phases, 5)
        <3>1. Increasing(Append(filter.phases, 5))
            BY <1>1, <2>2, IncreasingAppend DEF Inspect
        <3>2. \A k \in 1..4 : RanBy(filter', k) <=> RanBy(filter, k)
            BY <1>1, <2>2, PhaseRan
        <3>3. QED
            BY <2>2, <3>1, <3>2
    <2>3. QED
        BY <2>1, <2>2
<1>3. /\ RanBy(filter', 2) <=> RanBy(filter, 2)
      /\ RanBy(filter', 3) <=> RanBy(filter, 3)
      /\ RanBy(filter', 4) <=> RanBy(filter, 4)
    BY <1>2
<1>4. \A path \in Paths :
        InspectionEnabled(filter', path) => InspectionEnabled(filter, path)
    BY DEF InspectionEnabled, SameInspection
<1>5. ASSUME NEW path \in Paths
      PROVE  /\ Traced(filter', path, message[path], arrived[path])
             /\ Rests(filter', path, message, arrived[path], flow[path])
    <2>1. /\ Traced(filter, path, message[path], arrived[path])
          /\ Rests(filter, path, message, arrived[path], flow[path])
        BY DEF Inspect
    <2>2. /\ Traced(filter, path, message[path], arrived[path])
                => Traced(filter', path, message[path], arrived[path])
          /\ PassedOn(filter, path, message, arrived[path])
                => PassedOn(filter', path, message, arrived[path])
          /\ Fed(filter, path, arrived[path], flow[path])
                => Fed(filter', path, arrived[path], flow[path])
        BY <1>3, <1>4, SamePaths
    <2>3. QED
        BY <2>1, <2>2 DEF Rests
<1>6. life' = "open" => Awaiting(filter', message)
    BY <1>3 DEF Inspect, Awaiting, SameInspection
<1>7. Inspect'
    BY <1>2, <1>3, <1>5, <1>6 DEF Inspect
<1>8. ForwardKept
    BY DEF ForwardKept, SameInspection
<1>9. QED
    BY <1>7, <1>8

\* Phase 5 runs once and inspects nothing.
LEMMA LoggingQuiet ==
    ASSUME NEW f, NEW held, Sound(f, held), ScoresCounted(f), Reasoned(f.security),
           NEW log \in LoggingResult, NEW g, g = FinishLogging(f, log)
    PROVE  /\ SameInspection(f, g) /\ SameFlags(f, g) /\ g.transaction = f.transaction
           /\ \/ g.phases = f.phases
              \/ ~ RanBy(f, 5) /\ g.phases = Append(f.phases, 5)
<1>1. CASE f.logging_finished \/ ~ f.transaction
    BY <1>1 DEF FinishLogging, SameInspection, SameFlags
<1>2. CASE ~ f.logging_finished /\ f.transaction
    <2>1. /\ SameInspection(f, g) /\ SameFlags(f, g) /\ g.transaction
          /\ g.phases = Append(f.phases, 5)
        BY <1>2, FinishLoggingRuns
    <2>2. ~ RanBy(f, 5)
        BY <1>2 DEF ScoresCounted
    <2>3. g.transaction = f.transaction
        <3>1. g \in FilterType /\ f \in FilterType
            BY FinishLoggingSound DEF Sound
        <3>2. QED
            BY <1>2, <2>1, <3>1 DEF FilterType
    <2>4. QED
        BY <2>1, <2>2, <2>3
<1>3. QED
    BY <1>1, <1>2

\* onStreamComplete
LEMMA OnStreamCompleteInspects ==
    ASSUME IndInv, Verdict, Inspect, OnStreamComplete
    PROVE  Inspect' /\ ForwardKept
<1>1. PICK log \in LoggingResults : filter' = FinishLogging(filter, log)
    BY DEF OnStreamComplete
<1>2. log \in LoggingResult /\ Sound(filter, others) /\ TypeOK
    BY LoggingAssumption DEF IndInv
<1>3. ScoresCounted(filter) /\ Reasoned(filter.security)
    BY DEF Verdict, Undecided, Decided, Reasoned, Allowed, Paths
<1>4. /\ SameInspection(filter, filter') /\ SameFlags(filter, filter')
      /\ filter'.transaction = filter.transaction
      /\ \/ filter'.phases = filter.phases
         \/ ~ RanBy(filter, 5) /\ filter'.phases = Append(filter.phases, 5)
    BY <1>1, <1>2, <1>3, LoggingQuiet
<1>5. UNCHANGED <<message, flow, arrived>> /\ life' # "open"
    BY DEF OnStreamComplete
<1>6. QED
    BY <1>2, <1>4, <1>5, QuietInspects DEF SameFlags

\* onDestroy
LEMMA OnDestroyInspects ==
    ASSUME IndInv, Verdict, Inspect, OnDestroy
    PROVE  Inspect' /\ ForwardKept
<1>1. PICK log \in LoggingResults :
        filter' = ReleaseResources(FinishLogging(MarkIncomplete(filter), log))
    BY DEF OnDestroy
<1> DEFINE marked == MarkIncomplete(filter)
           logged == FinishLogging(marked, log)
<1>2. log \in LoggingResult /\ Sound(filter, others) /\ TypeOK
    BY LoggingAssumption DEF IndInv
<1>3. ScoresCounted(filter) /\ Reasoned(filter.security)
    BY DEF Verdict, Undecided, Decided, Reasoned, Allowed, Paths
<1>4. /\ Sound(marked, others) /\ SameInspection(filter, marked) /\ SameFlags(filter, marked)
      /\ SameScores(filter, marked) /\ SameEvents(filter, marked)
      /\ marked.transaction = filter.transaction
    BY <1>2, MarkIncompleteSound, ZenonT(30)
    DEF Sound, FilterType, MarkIncomplete, SetSecurityOutcome, SameInspection, SameFlags,
        SameScores, SameEvents
<1> HIDE DEF marked
<1>5. ScoresCounted(marked) /\ Reasoned(marked.security)
    <2>1. ScoresCounted(marked)
        BY <1>3, <1>4 DEF ScoresCounted, SameScores, RanBy
    <2>2. Reasoned(marked.security)
        BY <1>2, <1>3 DEF marked, MarkIncomplete, SetSecurityOutcome, Sound, FilterType, Reasoned
    <2>3. QED
        BY <2>1, <2>2
<1>6. /\ SameInspection(marked, logged) /\ SameFlags(marked, logged)
      /\ logged.transaction = marked.transaction
      /\ \/ logged.phases = marked.phases
         \/ ~ RanBy(marked, 5) /\ logged.phases = Append(marked.phases, 5)
    BY <1>2, <1>4, <1>5, LoggingQuiet
<1>7. Sound(logged, others)
    BY <1>2, <1>4, FinishLoggingSound
<1> HIDE DEF logged
<1>8. SameInspection(logged, filter') /\ SameVerdict(logged, filter') /\ ~ filter'.transaction
    BY <1>1, <1>7, ReleaseTells DEF logged, marked
<1>9. SameInspection(filter, filter')
    BY <1>4, <1>6, <1>8 DEF SameInspection
<1>10. /\ filter'.local_reply = filter.local_reply
       /\ filter'.engine_bypassed = filter.engine_bypassed
       /\ \/ filter'.phases = filter.phases
          \/ ~ RanBy(filter, 5) /\ filter'.phases = Append(filter.phases, 5)
    BY <1>4, <1>6, <1>8 DEF SameFlags, SameVerdict, SameScores, RanBy
<1>11. UNCHANGED <<message, flow, arrived>> /\ life' # "open"
    BY DEF OnDestroy
<1>12. QED
    BY <1>2, <1>8, <1>9, <1>10, <1>11, QuietInspects

\* The rest of a handler after its local reply.
LEMMA LocalReplyReturnsInspects ==
    ASSUME IndInv, Verdict, Inspect, LocalReplyReturns
    PROVE  Inspect' /\ ForwardKept
<1> DEFINE g == [filter EXCEPT !.replying = FALSE]
<1>1. /\ filter \in FilterType /\ TypeOK /\ filter.replying
      /\ filter' = ReleaseResources(g) /\ UNCHANGED <<message, flow, arrived, life>>
    BY DEF IndInv, Sound, LocalReplyReturns
<1>2. Sound(g, others)
    BY DEF IndInv, Sound, Accounted, FilterType
<1>3. /\ SameInspection(filter, g) /\ g.phases = filter.phases
      /\ g.local_reply = filter.local_reply /\ g.engine_bypassed = filter.engine_bypassed
    BY <1>1 DEF FilterType, SameInspection
<1> HIDE DEF g
<1>4. SameInspection(g, filter') /\ SameVerdict(g, filter') /\ ~ filter'.transaction
    BY <1>1, <1>2, ReleaseTells
<1>5. SameInspection(filter, filter')
    BY <1>3, <1>4 DEF SameInspection
<1>6. /\ filter'.phases = filter.phases /\ filter'.local_reply = filter.local_reply
      /\ filter'.engine_bypassed = filter.engine_bypassed
    BY <1>3, <1>4 DEF SameVerdict, SameScores, SameFlags
<1>7. life = "open" => filter.local_reply \/ ~ filter.transaction
    BY <1>1 DEF Verdict, Undecided
<1>8. life' = "open" =>
        life = "open" /\ (filter.local_reply \/ filter'.transaction = filter.transaction)
    <2>1. filter.transaction \in BOOLEAN /\ filter'.transaction \in BOOLEAN
        BY <1>1, <1>2, ReleaseSound DEF Sound, FilterType
    <2>2. QED
        BY <1>1, <1>4, <1>7, <2>1
<1>9. QED
    BY <1>1, <1>4, <1>5, <1>6, <1>8, QuietInspects

\* A step that changes nothing of the stream.
LEMMA IdleInspects ==
    ASSUME TypeOK, Inspect, UNCHANGED <<message, flow, arrived, life>>,
           SameInspection(filter, filter'), SameVerdict(filter, filter'),
           filter'.transaction = filter.transaction
    PROVE  Inspect' /\ ForwardKept
BY QuietInspects DEF SameVerdict, SameScores, SameFlags

-----------------------------------------------------------------------------
(* The theorems *)

\* Nothing has been inspected of a new stream.
LEMMA InitInspect == Init => Inspect
<1> SUFFICES ASSUME Init PROVE Inspect
    OBVIOUS
<1>1. PICK settings \in SettingsSet : filter = NewFilter(settings)
    BY DEF Init
<1>2. settings \in EffectiveSettings /\ filter.settings = settings
    BY <1>1, SettingsAssumption DEF NewFilter
<1>3. /\ filter.phases = <<>> /\ ~ filter.transaction
      /\ ~ filter.response_headers_finished /\ filter.stats = ZeroStats
      /\ filter.bytes = Nothing /\ filter.appended = Nothing
      /\ filter.finished = [p \in Paths |-> FALSE]
    BY <1>1 DEF NewFilter
<1>4. Increasing(filter.phases) /\ \A k : ~ RanBy(filter, k)
    BY <1>3 DEF Increasing, RanBy
<1>5. ASSUME NEW path \in Paths
      PROVE  /\ Traced(filter, path, message[path], arrived[path])
             /\ Rests(filter, path, message, arrived[path], flow[path])
    <2>1. /\ message[path] = "idle" /\ flow[path] = "none" /\ arrived[path] = 0
          /\ filter.appended[path] = 0 /\ filter.bytes[path] = 0 /\ ~ filter.finished[path]
          /\ filter.stats.body_bypassed[path] = 0 /\ 0 <= filter.settings.limit[path]
        BY <1>2, <1>3 DEF Init, Nothing, ZeroStats, EffectiveSettings
    <2>2. QED
        BY <1>3, <1>4, <2>1 DEF Traced, Rests, Is
<1>6. Awaiting(filter, message)
    BY DEF Init, Awaiting, Paths
<1>7. QED
    BY <1>4, <1>5, <1>6 DEF Inspect

\* Every step keeps the invariant, and takes back nothing that was passed on.
LEMMA NextInspect ==
    ASSUME IndInv, Verdict, Inspect, [Next]_vars
    PROVE  Inspect' /\ ForwardKept
<1>1. "Request" \in Paths /\ "Response" \in Paths /\ TypeOK
    BY DEF Paths, IndInv
<1>2. CASE DecodeHeaders
    BY <1>2, DecodeHeadersInspect
<1>3. CASE DecodeData \/ EncodeData
    BY <1>1, <1>3, DataInspects DEF DecodeData, EncodeData, Called, Decoding, Encoding
<1>4. CASE DecodeTrailers \/ EncodeTrailers
    BY <1>1, <1>4, TrailersInspect DEF DecodeTrailers, EncodeTrailers, Called, Decoding, Encoding
<1>5. CASE EncodeHeaders
    BY <1>5, EncodeHeadersInspect
<1>6. CASE OnStreamComplete
    BY <1>6, OnStreamCompleteInspects
<1>7. CASE OnDestroy
    BY <1>7, OnDestroyInspects
<1>8. CASE LocalReplyReturns
    BY <1>8, LocalReplyReturnsInspects
<1>9. CASE OthersReserve \/ OthersRelease
    BY <1>1, <1>9, OthersTell, IdleInspects DEF OthersReserve, OthersRelease
<1>10. CASE UNCHANGED vars
    BY <1>1, <1>10, IdleInspects
    DEF vars, SameInspection, SameVerdict, SameEvents, SameFlags, SameScores, SameVerdictCounts
<1>11. QED
    BY <1>2, <1>3, <1>4, <1>5, <1>6, <1>7, <1>8, <1>9, <1>10 DEF Next

\* The invariant holds throughout.
LEMMA InspectInvariance == Spec => []Inspect
<1>1. IndInv /\ Verdict /\ Inspect /\ [Next]_vars => Inspect'
    BY NextInspect
<1>2. QED
    BY <1>1, InitInspect, Invariance, VerdictInvariance, PTL DEF Spec

\* Nothing is passed on, in either direction, before the engine has accepted
\* all that was delivered of it, unless it was not to be inspected.
THEOREM InspectionComesFirst == Spec => []InspectedBeforeForward
<1>1. ASSUME Inspect PROVE InspectedBeforeForward
    <2>1. \A k : Ran(k) <=> RanBy(filter, k)
        BY DEF Ran, RanBy
    <2>2. \A path \in Paths :
            flow[path] = "forwarded" => PassedOn(filter, path, message, arrived[path])
        BY <1>1 DEF Inspect, Rests
    <2>3. QED
        BY <2>1, <2>2
        DEF PassedOn, Paths, Inspected, InspectedBeforeForward,
            RequestInspectedBeforeForward, ResponseInspectedBeforeForward
<1>2. QED
    BY <1>1, InspectInvariance, PTL

\* The engine is given each body within its limit and inspects it whole or not
\* at all, and its phases run in their order.
THEOREM InspectionStaysSound == Spec => []InspectionIsSound
<1>1. ASSUME Inspect PROVE InspectionIsSound
    <2>1. \A k : Ran(k) <=> RanBy(filter, k)
        BY DEF Ran, RanBy
    <2>2. \A path \in Paths : Traced(filter, path, message[path], arrived[path])
        BY <1>1 DEF Inspect
    <2>3. WholeBodyOnly
        BY <2>1, <2>2 DEF Traced, WholeBodyOnly, Inspected
    <2>4. AppendedWithinLimits
        BY <2>2 DEF Traced, AppendedWithinLimits
    <2>5. PhasesInOrder
        BY <1>1 DEF Inspect, Increasing, PhasesInOrder
    <2>6. QED
        BY <2>3, <2>4, <2>5 DEF InspectionIsSound
<1>2. QED
    BY <1>1, InspectInvariance, PTL

\* A message that was passed on is not taken back and not inspected again, and
\* a verdict that was reported stands.
THEOREM DecisionsAreFinal == Spec => DecisionIsFinal
<1>1. ASSUME IndInv, Verdict, Inspect, [Next]_vars
      PROVE  [\A path \in Paths :
                flow[path] = "forwarded" =>
                    /\ flow'[path] = "forwarded"
                    /\ filter'.appended[path] = filter.appended[path]]_vars
    BY <1>1, NextInspect DEF ForwardKept
<1>2. Spec => ForwardedIsFinal
    BY <1>1, Invariance, VerdictInvariance, InspectInvariance, PTL DEF Spec, ForwardedIsFinal
<1>3. QED
    BY <1>2, EventsAreFinal, PTL DEF DecisionIsFinal
=============================================================================
