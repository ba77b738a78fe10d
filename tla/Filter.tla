------------------------------- MODULE Filter -------------------------------
(***************************************************************************)
(* One HTTP stream inspected by the filter: the Filter object, the native  *)
(* ModSecurity transaction it drives, the body memory budget it shares     *)
(* with the other streams of its configuration, and Envoy's filter         *)
(* manager, which calls it.                                                *)
(*                                                                         *)
(* Every callback of the filter manager is one action: the callbacks of a  *)
(* stream run one after the other on one worker thread.  The exception is  *)
(* sendLocalReply, which "can complete the stream and run access loggers   *)
(* synchronously": a handler that sends a local reply stops there, with    *)
(* filter.replying set, other callbacks of the same stream may run on top  *)
(* of it, and LocalReplyReturns runs the rest of the handler.              *)
(*                                                                         *)
(* The helpers of the class are operators from the record of its members   *)
(* before the call to the record after it.  The native engine may answer   *)
(* any call with an error or with an intervention.                         *)
(***************************************************************************)
EXTENDS Naturals, Sequences

CONSTANTS
    BudgetLimit,    \* body_memory_budget_bytes
    SettingsSet,    \* the EffectiveSettings of the filter configuration
    Routes,         \* the route configurations the stream may resolve to
    Kinds,          \* the stream kinds classifyRequest may find
    Chunks,         \* the lengths of a data callback
    Declared,       \* the values of Content-Length; 0 also stands for none
    LoggingResults, \* what phase 5 may report
    OtherChunks,    \* the bytes another stream may reserve at once
    MaxArrived      \* bound: the bytes of one message Envoy delivers

Paths == {"Request", "Response"}
StreamKinds == {"Regular", "Grpc", "ConnectStreaming", "Tunnel"}
RuleEngineModes == {"Enabled", "DetectionOnly", "Disabled", "Unspecified"}
ResponseKinds == {"Finite", "EventStream", "TunnelEstablished"}

\* How a native call may end, and the status the engine adapter makes of it.
NativeOutcomes == {"Success", "Failure", "BadAlloc", "Exception"}

CallStatus(outcome) ==
    CASE outcome = "Success" -> "Ok"
      [] outcome = "BadAlloc" -> "ResourceExhausted"
      [] outcome \in {"Failure", "Exception"} -> "Internal"

Errors == {CallStatus(outcome) : outcome \in NativeOutcomes} \ {"Ok"}
Answers == Errors \cup {"Intervention"}

EffectiveSettings ==
    [failure_mode_allow  : BOOLEAN,
     rule_engine_mode    : RuleEngineModes, \* of the compiled generation
     response_inspection : BOOLEAN,         \* response_body_max_bytes has a value
     limit               : [Paths -> Nat]]  \* {request,response}_body_max_bytes

RouteConfig ==
    [disabled          : BOOLEAN,
     replaces          : SUBSET Paths,      \* the limits the route replaces
     disables_response : BOOLEAN,
     limit             : [Paths -> Nat]]

LoggingResult ==
    [error     : BOOLEAN,                   \* processLogging failed
     rules     : BOOLEAN,                   \* some rule was logged
     truncated : BOOLEAN,                   \* more than MaxRuleEvents were
     anomaly   : BOOLEAN,                   \* some anomaly score is not zero
     exceeded  : SUBSET Paths]              \* score at or over its threshold

NoResult ==
    [error |-> FALSE, rules |-> FALSE, truncated |-> FALSE, anomaly |-> FALSE,
     exceeded |-> {}]

ASSUME BudgetLimitAssumption == BudgetLimit \in Nat
ASSUME SettingsAssumption == SettingsSet \subseteq EffectiveSettings
ASSUME RoutesAssumption == Routes \subseteq RouteConfig
ASSUME KindsAssumption == Kinds \subseteq StreamKinds
ASSUME ChunksAssumption ==
    Chunks \subseteq Nat /\ OtherChunks \subseteq Nat /\ Declared \subseteq Nat
ASSUME LoggingAssumption == LoggingResults \subseteq LoggingResult
ASSUME MaxArrivedAssumption == MaxArrived \in Nat

VARIABLES
    filter,         \* the members of Filter and what its pointers reach
    others,         \* the bytes the other streams hold of the same budget
    message,        \* what Envoy has delivered of the request and response
    flow,           \* where the request and the response are held or went
    arrived,        \* the body bytes delivered of each
    life            \* the stream: open, completed, destroyed

vars == <<filter, others, message, flow, arrived, life>>

-----------------------------------------------------------------------------
(* The record *)

Nothing == [p \in Paths |-> 0]

Allowed == [outcome |-> "Allowed", reason |-> "None", phase |-> "None"]

ZeroStats ==
    [runtime_errors |-> 0, failure_mode_allowed |-> 0,
     body_memory_budget_exceeded |-> 0, logging_errors |-> 0,
     security_event_rule_truncations |-> 0, security_events |-> 0,
     interventions |-> Nothing, body_overflow |-> Nothing,
     body_bypassed |-> Nothing, trailers_uninspected |-> Nothing,
     threshold_exceeded |-> Nothing, detection_only_exceeded |-> Nothing,
     active_transactions |-> 0, modsecurity_buffer_bytes |-> 0]

NewFilter(settings) ==
    [settings |-> settings,
     disabled |-> FALSE,
     engine_bypassed |-> FALSE,
     local_reply |-> FALSE,
     stream_kind |-> "Regular",
     transaction |-> FALSE,                 \* transaction_ is not null
     bytes |-> Nothing,                     \* BodyState::bytes
     finished |-> [p \in Paths |-> FALSE],  \* BodyState::finished
     charged |-> 0,                         \* charged_body_bytes_
     used |-> 0,                            \* BodyMemoryBudget::used_
     security |-> Allowed,
     response_headers_finished |-> FALSE,
     logging_finished |-> FALSE,
     security_event_published |-> FALSE,
     resources_released |-> FALSE,
     replying |-> FALSE,                    \* inside sendLocalReply
     events |-> <<>>,                       \* the dynamic metadata written
     phases |-> <<>>,                       \* the native phases run
     appended |-> Nothing,                  \* body bytes given to the engine
     inspected |-> Nothing,                 \* ... before its body phase ran
     stats |-> ZeroStats]                   \* this stream's share

SetSecurityOutcome(f, outcome, reason, path) ==
    [f EXCEPT !.security = [outcome |-> outcome, reason |-> reason, phase |-> path]]

RunPhase(f, n) == [f EXCEPT !.phases = Append(@, n)]

-----------------------------------------------------------------------------
(* Events, logging and release *)

\* What phase 5 has to say when it failed.
LoggingFailed == [NoResult EXCEPT !.error = TRUE]

\* Fault: a failure of phase 5 is told in place of the verdict.
SecurityEventMasksVerdict(f, log) ==
    [outcome |-> f.security.outcome,
     reason |-> CASE log.error -> "logging_error"
                  [] ~ log.error /\ f.security.reason # "None" -> f.security.reason
                  [] ~ log.error /\ f.security.reason = "None" -> "rule_match",
     phase |-> IF f.security.phase = "None" THEN "complete" ELSE f.security.phase,
     logging_error |-> log.error,
     rules |-> log.rules, rules_truncated |-> log.truncated, anomaly |-> log.anomaly]

\* reason and phase are the security_reason_ and security_phase_ published,
\* or what stands for them when no verdict set them.
SecurityEvent(f, log) ==
    [outcome |-> f.security.outcome,
     reason |-> CASE f.security.reason # "None" -> f.security.reason
                  [] f.security.reason = "None" /\ log.error -> "logging_error"
                  [] f.security.reason = "None" /\ ~ log.error -> "rule_match",
     phase |-> IF f.security.phase = "None" THEN "complete" ELSE f.security.phase,
     logging_error |-> log.error,
     rules |-> log.rules, rules_truncated |-> log.truncated, anomaly |-> log.anomaly]

Notable(f, log) ==
    f.security.outcome # "Allowed" \/ log.rules \/ log.anomaly \/ log.error

PublishSecurityEvent(f, log) ==
    IF f.security_event_published \/ ~ Notable(f, log)
    THEN f
    ELSE [f EXCEPT !.security_event_published = TRUE,
                   !.events = Append(@, SecurityEvent(f, log)),
                   !.stats.security_event_rule_truncations =
                        IF log.truncated THEN @ + 1 ELSE @,
                   !.stats.security_events = @ + 1]

Count(counter, where) ==
    [p \in Paths |-> IF p \in where THEN counter[p] + 1 ELSE counter[p]]

RecordCrsThresholdStats(f, log) ==
    [f EXCEPT !.stats.threshold_exceeded = Count(@, log.exceeded),
              !.stats.detection_only_exceeded =
                    Count(@, IF f.settings.rule_engine_mode = "DetectionOnly"
                             THEN log.exceeded ELSE {})]

FinishLogging(f, log) ==
    LET ran == [RunPhase(f, 5) EXCEPT !.logging_finished = TRUE] IN
    IF f.logging_finished \/ ~ f.transaction
    THEN f
    ELSE IF log.error
         THEN PublishSecurityEvent([ran EXCEPT !.stats.logging_errors = @ + 1], LoggingFailed)
         ELSE PublishSecurityEvent(RecordCrsThresholdStats(ran, log), log)

\* Fault: the gauge is decremented whether or not there was a transaction.
ReleaseResourcesAlwaysCounts(f) ==
    IF f.resources_released
    THEN f
    ELSE [f EXCEPT !.resources_released = TRUE,
                   !.transaction = FALSE,
                   !.stats.active_transactions = @ - 1,
                   !.used = @ - f.charged,
                   !.stats.modsecurity_buffer_bytes = @ - f.charged,
                   !.charged = 0]

\* Fault: the buffer gauge keeps the bytes of the released stream.
ReleaseResourcesKeepsGauge(f) ==
    IF f.resources_released
    THEN f
    ELSE [f EXCEPT !.resources_released = TRUE,
                   !.transaction = FALSE,
                   !.stats.active_transactions = IF f.transaction THEN @ - 1 ELSE @,
                   !.used = @ - f.charged,
                   !.charged = 0]

ReleaseResources(f) ==
    IF f.resources_released
    THEN f
    ELSE [f EXCEPT !.resources_released = TRUE,
                   !.transaction = FALSE,
                   !.stats.active_transactions = IF f.transaction THEN @ - 1 ELSE @,
                   !.used = @ - f.charged,
                   !.stats.modsecurity_buffer_bytes = @ - f.charged,
                   !.charged = 0]

-----------------------------------------------------------------------------
(* Verdicts *)

\* The handler is left inside the call: see LocalReplyReturns.
SendLocalReply(f) == [f EXCEPT !.replying = TRUE]

SendRuntimeError(f) ==
    SendLocalReply(PublishSecurityEvent([f EXCEPT !.local_reply = TRUE], NoResult))

FailOpen(f, path) ==
    LET bypassed == [f EXCEPT !.stats.failure_mode_allowed = @ + 1,
                              !.engine_bypassed = TRUE]
    IN  ReleaseResources(
            PublishSecurityEvent(
                SetSecurityOutcome(bypassed, "Bypassed", "RuntimeError", path),
                NoResult))

FailClosed(f, path) ==
    SendRuntimeError(SetSecurityOutcome(f, "Error", "RuntimeError", path))

MayFailOpen(f, status) ==
    f.settings.failure_mode_allow /\ status # "ResourceExhausted"

\* evaluate, for a status that is not OK.
Evaluate(f, status, path) ==
    LET counted == [f EXCEPT !.stats.runtime_errors = @ + 1] IN
    IF MayFailOpen(f, status) THEN FailOpen(counted, path)
                              ELSE FailClosed(counted, path)

\* Fault: the reply is handed to Envoy, and phase 5 is left for its return.
SendInterventionFirst(f, path, log) ==
    LET blocked == SetSecurityOutcome([f EXCEPT !.local_reply = TRUE],
                                      "Blocked", "RuleIntervention", path)
    IN  SendLocalReply([blocked EXCEPT !.stats.interventions[path] = @ + 1])

\* Phase 5 runs before the reply is handed to Envoy.
SendIntervention(f, path, log) ==
    LET blocked == SetSecurityOutcome([f EXCEPT !.local_reply = TRUE],
                                      "Blocked", "RuleIntervention", path)
    IN  SendLocalReply(
            [FinishLogging(blocked, log) EXCEPT !.stats.interventions[path] = @ + 1])

\* What the handler makes of the first engine call that is not answered with
\* success and no intervention.
Stop(f, path, answer, log) ==
    IF answer = "Intervention" THEN SendIntervention(f, path, log)
                               ELSE Evaluate(f, answer, path)

Stopped(f, path) ==
    {Stop(f, path, answer, log) : answer \in Answers, log \in LoggingResults}

\* Fault: what has arrived of an oversized body is inspected after all.
SendBodyOverflowInspected(f, path) ==
    LET over == [f EXCEPT !.local_reply = TRUE,
                          !.stats.body_overflow[path] = @ + 1,
                          !.phases = Append(@, IF path = "Request" THEN 2 ELSE 4)]
    IN  SendRuntimeError(SetSecurityOutcome(over, "Blocked", "BodyOverflow", path))

SendBodyOverflow(f, path) ==
    LET over == [f EXCEPT !.local_reply = TRUE,
                          !.stats.body_overflow[path] = @ + 1]
        outcome == IF path = "Request" THEN "Blocked" ELSE "Error"
    IN  SendRuntimeError(SetSecurityOutcome(over, outcome, "BodyOverflow", path))

SendBodyMemoryBudgetExceeded(f, path) ==
    SendRuntimeError(
        SetSecurityOutcome([f EXCEPT !.stats.body_memory_budget_exceeded = @ + 1],
                           "Error", "BodyMemoryBudgetExceeded", path))

-----------------------------------------------------------------------------
(* Bodies *)

InspectionEnabled(f, path) ==
    /\ ~ f.disabled /\ ~ f.engine_bypassed /\ ~ f.local_reply /\ f.transaction
    /\ ~ f.finished[path]
    /\ path = "Response" =>
            f.settings.response_inspection /\ f.response_headers_finished

DeclaredBodyExceedsLimit(f, path, declared) == declared > f.settings.limit[path]

FitsLimit(f, path, n) == f.bytes[path] + n <= f.settings.limit[path]

\* Fault: the stream only looks at its own share of the budget.
FitsBudgetAlone(f, n) == f.charged + n <= BudgetLimit

FitsBudget(f, n) == f.used + n <= BudgetLimit

\* reserveBodyBytes and the bookkeeping of appendBody.
Charge(f, path, n) ==
    [f EXCEPT !.used = @ + n,
              !.charged = @ + n,
              !.stats.modsecurity_buffer_bytes = @ + n,
              !.bytes[path] = @ + n]

BodyPhase(path) == IF path = "Request" THEN 2 ELSE 4

RunBodyPhase(f, path) ==
    [RunPhase(f, BodyPhase(path)) EXCEPT
        !.finished[path] = TRUE,
        !.inspected[path] = f.appended[path]]

LastBody(f, path) == path = "Response" \/ ~ f.settings.response_inspection

\* The results finishBody may have.
FinishBody(f, path) ==
    LET ran == RunBodyPhase(f, path) IN
    IF f.finished[path]
    THEN {f}
    ELSE Stopped(ran, path) \cup
         IF LastBody(f, path)
         THEN {ReleaseResources(FinishLogging(ran, log)) : log \in LoggingResults}
         ELSE {ran}

\* The results bypassBodyForStreaming may have.
BypassBodyForStreaming(f, path) ==
    LET bypassed == [f EXCEPT !.finished[path] = TRUE,
                              !.stats.body_bypassed[path] = @ + 1]
    IN  IF f.finished[path]
        THEN {f}
        ELSE IF LastBody(f, path)
             THEN {ReleaseResources(FinishLogging(bypassed, log)) : log \in LoggingResults}
             ELSE {bypassed}

-----------------------------------------------------------------------------
(* Settings and headers *)

Apply(route, base) ==
    [base EXCEPT
        !.limit = [p \in Paths |-> IF p \in route.replaces THEN route.limit[p]
                                                           ELSE base.limit[p]],
        !.response_inspection = (@ \/ "Response" \in route.replaces)
                                    /\ ~ route.disables_response]

InitializeSettings(f, route) ==
    [f EXCEPT !.disabled = route.disabled, !.settings = Apply(route, @)]

CreateTransaction(f) ==
    [f EXCEPT !.transaction = TRUE, !.stats.active_transactions = @ + 1]

ShouldBypassResponseBody(f, kind) ==
    \/ f.stream_kind \in {"Grpc", "ConnectStreaming"}
    \/ f.stream_kind = "Tunnel" /\ kind = "TunnelEstablished"
    \/ kind = "EventStream"

-----------------------------------------------------------------------------
(* The status a handler returns, as the filter manager acts on it *)

\* Continue.  After a local reply the filter only sees that reply go by.
Continue(f, path) ==
    /\ filter' = f
    /\ flow' = [flow EXCEPT ![path] = IF f.local_reply THEN "replied" ELSE "forwarded"]

\* Fault: the handler's caller is told to go on after a local reply.
StoppedOrContinueAlways(f, path) ==
    /\ filter' = f
    /\ flow' = [flow EXCEPT ![path] = "forwarded"]

\* Continue, unless this handler sent a local reply: stoppedOrContinue, and the
\* corresponding returns of processData and processTrailers.
StoppedOrContinue(f, path) ==
    /\ filter' = f
    /\ flow' = [flow EXCEPT ![path] = IF f.local_reply THEN "held" ELSE "forwarded"]

\* StopIteration, StopIterationAndBuffer or StopIterationNoBuffer.
Hold(f, path) ==
    /\ filter' = f
    /\ flow' = [flow EXCEPT ![path] = "held"]

-----------------------------------------------------------------------------
(* The filter manager's callbacks *)

\* The filter manager does not decode past a response to a held request, nor
\* while this filter is inside sendLocalReply or has replied.
Decoding ==
    /\ life = "open"
    /\ ~ filter.local_reply
    /\ message["Response"] = "idle" \/ flow["Request"] = "forwarded"

\* A local reply sent before there was a response goes through the encode
\* callbacks itself, inside sendLocalReply; one sent for a response replaces
\* it, and the filter manager drops the response.
Encoding ==
    /\ life = "open"
    /\ filter.local_reply => flow["Response"] \in {"none", "replied"}

Deliver(path, from, end) ==
    /\ message[path] = from
    /\ message' = [message EXCEPT ![path] = IF end THEN "ended" ELSE "open"]

RequestHeadersInspected(f, end, declared) ==
    \E kind \in Kinds :
        LET g == [f EXCEPT !.stream_kind = kind] IN
        \/ /\ kind # "Regular"
           /\ \E h \in BypassBodyForStreaming(g, "Request") :
                StoppedOrContinue(h, "Request")
        \/ /\ kind = "Regular" /\ end
           /\ \E h \in FinishBody(g, "Request") : StoppedOrContinue(h, "Request")
        \/ /\ kind = "Regular" /\ ~ end
           /\ DeclaredBodyExceedsLimit(g, "Request", declared)
           /\ Hold(SendBodyOverflow(g, "Request"), "Request")
        \/ /\ kind = "Regular" /\ ~ end
           /\ ~ DeclaredBodyExceedsLimit(g, "Request", declared)
           /\ Hold(g, "Request")

DecodeHeaders ==
    /\ Decoding
    /\ \E end \in BOOLEAN, declared \in Declared, route \in Routes :
        LET ready == InitializeSettings(filter, route)
            created == CreateTransaction(ready)
            ran == RunPhase(created, 1)
        IN
        /\ Deliver("Request", "idle", end)
        /\ \/ ready.disabled /\ Continue(ready, "Request")
           \/ /\ ~ ready.disabled
              /\ \/ \* the transaction could not be created
                    \E error \in Errors :
                        StoppedOrContinue(Evaluate(ready, error, "Request"), "Request")
                 \/ \* processConnection, processUri or addRequestHeader stopped it
                    \E f \in Stopped(created, "Request") : StoppedOrContinue(f, "Request")
                 \/ \* processRequestHeaders stopped it
                    \E f \in Stopped(ran, "Request") : StoppedOrContinue(f, "Request")
                 \/ RequestHeadersInspected(ran, end, declared)
    /\ UNCHANGED <<others, arrived, life>>

\* processData, for the decode and the encode path.
ProcessData(path, n, end) ==
    LET charged == Charge(filter, path, n)
        appended == [charged EXCEPT !.appended[path] = @ + n]
    IN
    \/ /\ ~ InspectionEnabled(filter, path)
       /\ Continue(filter, path)
    \/ /\ InspectionEnabled(filter, path)
       /\ ~ FitsLimit(filter, path, n)
       /\ Hold(SendBodyOverflow(filter, path), path)
    \/ /\ InspectionEnabled(filter, path)
       /\ FitsLimit(filter, path, n) /\ n # 0 /\ ~ FitsBudget(filter, n)
       /\ Hold(SendBodyMemoryBudgetExceeded(filter, path), path)
    \/ /\ InspectionEnabled(filter, path)
       /\ FitsLimit(filter, path, n) /\ (n = 0 \/ FitsBudget(filter, n))
       /\ \/ /\ n # 0
             /\ \E f \in Stopped(charged, path) : StoppedOrContinue(f, path)
          \/ /\ end
             /\ \E f \in FinishBody(appended, path) : StoppedOrContinue(f, path)
          \/ /\ ~ end
             /\ Hold(appended, path)

Data(path) ==
    /\ \E n \in Chunks, end \in BOOLEAN :
        /\ n # 0 \/ end
        /\ arrived[path] + n <= MaxArrived
        /\ Deliver(path, "open", end)
        /\ arrived' = [arrived EXCEPT ![path] = @ + n]
        /\ ProcessData(path, n, end)
    /\ UNCHANGED <<others, life>>

DecodeData == Decoding /\ Data("Request")

EncodeData == Encoding /\ Data("Response")

\* Fault: trailers are passed on without finishing the body they end.
TrailersIgnored(path) ==
    /\ Deliver(path, "open", TRUE)
    /\ Continue([filter EXCEPT !.stats.trailers_uninspected[path] = @ + 1], path)
    /\ UNCHANGED <<others, arrived, life>>

Trailers(path) ==
    LET counted == [filter EXCEPT !.stats.trailers_uninspected[path] = @ + 1] IN
    /\ Deliver(path, "open", TRUE)
    /\ \/ /\ ~ InspectionEnabled(filter, path)
          /\ Continue(counted, path)
       \/ /\ InspectionEnabled(filter, path)
          /\ \E f \in FinishBody(counted, path) : StoppedOrContinue(f, path)
    /\ UNCHANGED <<others, arrived, life>>

DecodeTrailers == Decoding /\ Trailers("Request")

EncodeTrailers == Encoding /\ Trailers("Response")

ResponseInspected(f) ==
    /\ ~ f.disabled /\ ~ f.engine_bypassed /\ ~ f.local_reply /\ f.transaction
    /\ f.settings.response_inspection

ResponseHeadersInspected(f, end, kind, declared) ==
    \/ /\ end
       /\ \E h \in FinishBody(f, "Response") : StoppedOrContinue(h, "Response")
    \/ /\ ~ end /\ ShouldBypassResponseBody(f, kind)
       /\ \E h \in BypassBodyForStreaming(f, "Response") :
            StoppedOrContinue(h, "Response")
    \/ /\ ~ end /\ ~ ShouldBypassResponseBody(f, kind)
       /\ DeclaredBodyExceedsLimit(f, "Response", declared)
       /\ Hold(SendBodyOverflow(f, "Response"), "Response")
    \/ /\ ~ end /\ ~ ShouldBypassResponseBody(f, kind)
       /\ ~ DeclaredBodyExceedsLimit(f, "Response", declared)
       /\ Hold(f, "Response")

EncodeHeaders ==
    /\ Encoding
    /\ \E end \in BOOLEAN, declared \in Declared, kind \in ResponseKinds :
        LET ran == RunPhase(filter, 3) IN
        /\ Deliver("Response", "idle", end)
        /\ \/ /\ ~ ResponseInspected(filter)
              /\ Continue(filter, "Response")
           \/ /\ ResponseInspected(filter)
              /\ \/ \* addResponseHeader failed
                    \E error \in Errors :
                        StoppedOrContinue(Evaluate(filter, error, "Response"), "Response")
                 \/ \* processResponseHeaders stopped it
                    \E f \in Stopped(ran, "Response") : StoppedOrContinue(f, "Response")
                 \/ ResponseHeadersInspected(
                        [ran EXCEPT !.response_headers_finished = TRUE],
                        end, kind, declared)
    /\ UNCHANGED <<others, arrived, life>>

OnStreamComplete ==
    /\ life = "open"
    /\ life' = "complete"
    /\ \E log \in LoggingResults : filter' = FinishLogging(filter, log)
    /\ UNCHANGED <<others, message, flow, arrived>>

\* Fault: the verdict already given is not looked at.
MarkIncompleteAnyway(f) ==
    IF f.transaction /\ ~ f.logging_finished
    THEN SetSecurityOutcome(f, "Incomplete", "StreamDestroyed",
            IF f.response_headers_finished THEN "Response" ELSE "Request")
    ELSE f

\* onDestroy's own verdict on a stream that is destroyed while inspected.
MarkIncomplete(f) ==
    IF f.transaction /\ ~ f.logging_finished /\ f.security.outcome = "Allowed"
    THEN SetSecurityOutcome(f, "Incomplete", "StreamDestroyed",
            IF f.response_headers_finished THEN "Response" ELSE "Request")
    ELSE f

OnDestroy ==
    /\ life # "destroyed"
    /\ life' = "destroyed"
    /\ \E log \in LoggingResults :
        filter' = ReleaseResources(FinishLogging(MarkIncomplete(filter), log))
    /\ UNCHANGED <<others, message, flow, arrived>>

\* Fault: the resources are left to onDestroy.
LocalReplyReturnsOnly ==
    /\ filter.replying
    /\ filter' = [filter EXCEPT !.replying = FALSE]
    /\ UNCHANGED <<others, message, flow, arrived, life>>

\* The end of sendIntervention, sendRuntimeError and sendBodyOverflow.
LocalReplyReturns ==
    /\ filter.replying
    /\ filter' = ReleaseResources([filter EXCEPT !.replying = FALSE])
    /\ UNCHANGED <<others, message, flow, arrived, life>>

\* Another stream of the configuration, on any worker.
OthersReserve ==
    /\ \E n \in OtherChunks :
        /\ FitsBudget(filter, n)
        /\ filter' = [filter EXCEPT !.used = @ + n]
        /\ others' = others + n
    /\ UNCHANGED <<message, flow, arrived, life>>

OthersRelease ==
    /\ others # 0
    /\ filter' = [filter EXCEPT !.used = @ - others]
    /\ others' = 0
    /\ UNCHANGED <<message, flow, arrived, life>>

-----------------------------------------------------------------------------

Init ==
    /\ \E settings \in SettingsSet : filter = NewFilter(settings)
    /\ others = 0
    /\ message = [p \in Paths |-> "idle"]
    /\ flow = [p \in Paths |-> "none"]
    /\ arrived = Nothing
    /\ life = "open"

Next ==
    \/ DecodeHeaders \/ DecodeData \/ DecodeTrailers
    \/ EncodeHeaders \/ EncodeData \/ EncodeTrailers
    \/ OnStreamComplete \/ OnDestroy \/ LocalReplyReturns
    \/ OthersReserve \/ OthersRelease

\* sendLocalReply returns, and Envoy destroys a stream it has completed.
Fairness ==
    /\ WF_vars(LocalReplyReturns)
    /\ WF_vars(life = "complete" /\ OnDestroy)

Spec == Init /\ [][Next]_vars

FairSpec == Spec /\ Fairness
=============================================================================
