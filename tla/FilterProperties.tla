-------------------------- MODULE FilterProperties --------------------------
(* What an operator may rely on when this filter inspects a stream. *)
EXTENDS Filter

Counters == [Paths -> Nat]

Stats ==
    [runtime_errors : Nat, failure_mode_allowed : Nat,
     body_memory_budget_exceeded : Nat, logging_errors : Nat,
     security_event_rule_truncations : Nat, security_events : Nat,
     interventions : Counters, body_overflow : Counters,
     body_bypassed : Counters, trailers_uninspected : Counters,
     threshold_exceeded : Counters, detection_only_exceeded : Counters,
     active_transactions : Nat, modsecurity_buffer_bytes : Nat]

Outcomes == {"Allowed", "Bypassed", "Error", "Blocked", "Incomplete"}

Reasons ==
    {"None", "RuntimeError", "RuleIntervention", "BodyOverflow",
     "BodyMemoryBudgetExceeded", "StreamDestroyed"}

Event ==
    [outcome : Outcomes,
     reason : Reasons \cup {"logging_error", "rule_match"},
     phase : Paths \cup {"complete"},
     logging_error : BOOLEAN, rules : BOOLEAN, rules_truncated : BOOLEAN, anomaly : BOOLEAN]

FilterType ==
    [settings : EffectiveSettings, disabled : BOOLEAN,
     engine_bypassed : BOOLEAN, local_reply : BOOLEAN,
     stream_kind : StreamKinds, transaction : BOOLEAN,
     bytes : Counters, finished : [Paths -> BOOLEAN],
     charged : Nat, used : Nat,
     security : [outcome : Outcomes, reason : Reasons, phase : Paths \cup {"None"}],
     response_headers_finished : BOOLEAN, logging_finished : BOOLEAN,
     security_event_published : BOOLEAN, resources_released : BOOLEAN,
     replying : BOOLEAN, events : Seq(Event), phases : Seq(1..5),
     appended : Counters, inspected : Counters, stats : Stats]

TypeOK ==
    /\ filter \in FilterType
    /\ others \in Nat
    /\ message \in [Paths -> {"idle", "open", "ended"}]
    /\ flow \in [Paths -> {"none", "held", "forwarded", "replied"}]
    /\ arrived \in [Paths -> 0..MaxArrived]
    /\ life \in {"open", "complete", "destroyed"}

Is(b) == IF b THEN 1 ELSE 0

Ran(n) == \E i \in DOMAIN filter.phases : filter.phases[i] = n

Inspected(path) ==
    Ran(BodyPhase(path)) /\ filter.inspected[path] = arrived[path]

-----------------------------------------------------------------------------
(* Safety *)

\* The next filter sees a request only when phase 2 has accepted every body
\* byte Envoy has delivered, or when inspection was not to happen: the route
\* disables it, it failed open, or the request is a stream.
RequestInspectedBeforeForward ==
    flow["Request"] = "forwarded" =>
        \/ filter.disabled \/ filter.engine_bypassed
        \/ filter.stream_kind # "Regular"
        \/ Inspected("Request")

\* The client sees a response only when phase 4 has accepted every body byte
\* Envoy has delivered, or when there was nothing to inspect it with.
ResponseInspectedBeforeForward ==
    flow["Response"] = "forwarded" =>
        \/ filter.disabled \/ filter.engine_bypassed
        \/ ~ filter.settings.response_inspection
        \/ message["Request"] = "idle"
        \/ filter.stats.body_bypassed["Response"] = 1 /\ Ran(3)
        \/ Inspected("Response")

\* Nothing is passed on, in either direction, before its verdict.
InspectedBeforeForward == RequestInspectedBeforeForward /\ ResponseInspectedBeforeForward

\* A message that was blocked or failed closed is never passed on, not even
\* by a callback that comes after the verdict.
DeniedNeverForwarded ==
    filter.security.outcome \in {"Blocked", "Error"} =>
        flow[filter.security.phase] # "forwarded"

\* The shared budget is what this stream and the others hold, whatever error
\* path the stream took, and no stream admits more than the limit.
BudgetAccounted ==
    /\ filter.used = filter.charged + others
    /\ filter.used <= BudgetLimit

\* The gauges and the stream's share of the budget agree with what the stream
\* still holds, and a stream that has released holds nothing.
ReleasedHoldsNothing ==
    /\ filter.stats.active_transactions = IF filter.transaction THEN 1 ELSE 0
    /\ filter.stats.modsecurity_buffer_bytes = filter.charged
    /\ filter.charged # 0 => filter.transaction
    /\ filter.resources_released => ~ filter.transaction

\* No body byte is given to the engine beyond the limit of its path or
\* without being charged against the budget.
AppendedWithinLimits ==
    \A path \in Paths :
        /\ filter.appended[path] <= filter.bytes[path]
        /\ filter.bytes[path] <= filter.settings.limit[path]

\* A body phase runs on the whole body or not at all: never on the part of a
\* message that arrived before an overflow, an error or a disconnect.
WholeBodyOnly ==
    \A path \in Paths :
        Ran(BodyPhase(path)) => message[path] = "ended" /\ Inspected(path)

\* The native phases run in order, each at most once, and none after phase 5.
PhasesInOrder ==
    \A i, j \in DOMAIN filter.phases :
        i < j => filter.phases[i] < filter.phases[j]

\* The engine is given bodies within their limits, which it inspects whole or
\* not at all, and its phases in their order.
InspectionIsSound == AppendedWithinLimits /\ WholeBodyOnly /\ PhasesInOrder

\* Every transaction that was not cut short by an error has run phase 5 by the
\* time it is released: the CRS scores of a blocked or abandoned stream are
\* never lost.
LoggedBeforeRelease ==
    /\ filter.resources_released
    /\ \/ filter.security.reason \in {"RuleIntervention", "StreamDestroyed"}
       \/ filter.security.reason = "None" /\ filter.phases # <<>>
    => Ran(5)

\* A local reply can run the access loggers before it returns: what they log
\* is published before the reply is handed to Envoy, and for an intervention
\* with what phase 5 says of it.
LoggedBeforeReply ==
    filter.replying =>
        /\ filter.events # <<>>
        /\ filter.security.reason = "RuleIntervention" => Ran(5)

\* Phase 5 and the event come before what makes them too late: the release of
\* the transaction and the reply that may complete the stream.
LoggedInTime == LoggedBeforeRelease /\ LoggedBeforeReply

\* A stream that did not simply pass has published one event by the time it is
\* gone, and what is counted as published is.
VerdictReported ==
    /\ Len(filter.events) <= 1
    /\ filter.stats.security_events = Len(filter.events)
    /\ filter.security_event_published <=> filter.events # <<>>
    /\ filter.resources_released /\ filter.security.outcome # "Allowed" =>
            Len(filter.events) = 1

\* The event says the verdict the stream got, or what stands for it when phase
\* 5 alone had something to say; a stream of which there is nothing to say has
\* no event.
EventTells ==
    \A i \in DOMAIN filter.events :
        LET event == filter.events[i]
            verdict == filter.security
        IN
        /\ event.outcome = verdict.outcome
        /\ verdict.reason # "None" => event.reason = verdict.reason /\ event.phase = verdict.phase
        /\ verdict.reason = "None" =>
            /\ event.phase = "complete"
            /\ event.reason = IF event.logging_error THEN "logging_error" ELSE "rule_match"
        /\ event.outcome = "Allowed" => event.rules \/ event.anomaly \/ event.logging_error

ErrorReasons == {"RuntimeError", "BodyOverflow", "BodyMemoryBudgetExceeded"}

\* What phase 5 lost is told once: a failed phase 5 is counted once, no score
\* is counted of it, and the event says so, unless the event of an error was
\* published before phase 5 ran; rules left out of the event are counted.
LossTold ==
    LET flagged == \E i \in DOMAIN filter.events : filter.events[i].logging_error
        shortened == \E i \in DOMAIN filter.events : filter.events[i].rules_truncated
    IN
    /\ \A path \in Paths :
        filter.stats.threshold_exceeded[path] + filter.stats.logging_errors <= Is(Ran(5))
    /\ flagged => filter.stats.logging_errors = 1
    /\ filter.stats.logging_errors = 1 =>
        \/ flagged
        \/ filter.events # <<>> /\ filter.security.reason \in ErrorReasons
    /\ filter.stats.security_event_rule_truncations =
            Is(shortened)

\* Each terminal counter counts the verdict it is named for, once.
CountersMatchVerdict ==
    LET reason == filter.security.reason
        on(path) == filter.security.phase = path
    IN
    /\ filter.stats.runtime_errors = Is(reason = "RuntimeError")
    /\ filter.stats.failure_mode_allowed = Is(filter.security.outcome = "Bypassed")
    /\ filter.stats.body_memory_budget_exceeded = Is(reason = "BodyMemoryBudgetExceeded")
    /\ \A path \in Paths :
        /\ filter.stats.interventions[path] = Is(reason = "RuleIntervention" /\ on(path))
        /\ filter.stats.body_overflow[path] = Is(reason = "BodyOverflow" /\ on(path))
        /\ filter.stats.detection_only_exceeded[path] <= filter.stats.threshold_exceeded[path]

\* What becomes of a stream is told once, by the event and by the counters,
\* and both say the verdict (filter.cc:588-733).
VerdictTold == VerdictReported /\ EventTells /\ LossTold /\ CountersMatchVerdict

-----------------------------------------------------------------------------
(* What a step may never do *)

\* A published event is final: no later callback changes the verdict it
\* reported or publishes another one.
EventIsFinal ==
    [][filter.events # <<>> =>
            /\ filter'.events = filter.events
            /\ filter'.security = filter.security]_vars

\* A message that was passed on is never taken back to be held, and the
\* engine is not run on it again.
ForwardedIsFinal ==
    [][\A path \in Paths :
            flow[path] = "forwarded" =>
                /\ flow'[path] = "forwarded"
                /\ filter'.appended[path] = filter.appended[path]]_vars

\* What the filter has reported or passed on is settled, whatever callbacks
\* Envoy makes after that.
DecisionIsFinal == EventIsFinal /\ ForwardedIsFinal

-----------------------------------------------------------------------------
(* Liveness *)

\* A stream that has been answered locally or completed gives back its
\* transaction and its share of the budget.
EventuallyReleased ==
    (filter.local_reply \/ life = "complete") ~> filter.resources_released

-----------------------------------------------------------------------------
(* What the documentation says *)

\* docs/architecture.md: "Runtime-error and overflow paths release the
\* transaction without phase 5."
NoPhase5AfterError ==
    filter.security.reason \in ErrorReasons => ~ Ran(5)

\* docs/configuration-api.md: metadata is emitted for the destruction of an
\* active transaction.
DestructionIsReported ==
    [][filter.transaction /\ life' = "destroyed" /\ life # "destroyed" =>
            filter'.events # <<>>]_vars
=============================================================================
