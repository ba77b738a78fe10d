---------------------------- MODULE LabRequests ----------------------------
(***************************************************************************)
(* Requests to the web API of the OWASP CRS lab (tools/owasp-crs-lab.py):  *)
(* do_POST and execute_request, one thread for each call, beside the one   *)
(* Envoy of the lab, which may be stopped under them.                      *)
(*                                                                         *)
(* A call sends one request through Envoy under an identifier of its own   *)
(* and afterwards looks for that identifier in Envoy's access log, which   *)
(* Envoy writes when it is done with the stream and flushes some time      *)
(* later.  Envoy, the filter and the network are external: what they may   *)
(* do is what execute_request is written to expect.  A call, its request   *)
(* and its Envoy stream share a name.                                      *)
(***************************************************************************)
EXTENDS Naturals

CONSTANTS
    Calls,
    Posts,          \* what may be posted
    MaxBody,        \* MAX_RESPONSE_BODY_BYTES
    NoCall

\* What do_POST and validate_request look at.  A header that the client names
\* X-Owasp-Lab-Id, in whatever case, carries the identifier of some call.
Post ==
    [path : BOOLEAN,            \* is /api/test
     token : BOOLEAN,           \* is the lab's
     length : {"not a number", "out of range", "good"},
     json : BOOLEAN,
     fields : {"rejected", "not encodable", "good"},
     lab_id : Calls \cup {NoCall},
     lab_id_lower_case : BOOLEAN]

ASSUME PostsAssumption == Posts \subseteq Post
ASSUME MaxBodyAssumption == MaxBody \in Nat
ASSUME NoCallAssumption == NoCall \notin Calls

Events == {"none", "blocked", "error", "detected"}

VARIABLES
    running,    \* the Envoy process
    call,       \* do_POST of each call
    stream,     \* Envoy's side of each call
    reached     \* requests the echo upstream has answered

vars == <<running, call, stream, reached>>

NoPost ==
    [path |-> FALSE, token |-> FALSE, length |-> "good", json |-> FALSE,
     fields |-> "good", lab_id |-> NoCall, lab_id_lower_case |-> TRUE]

NewCall ==
    [step |-> "new", post |-> NoPost, answer |-> 0, request_id |-> NoCall,
     upstream_reached |-> FALSE, body |-> 0, truncated |-> FALSE,
     security_event |-> "none"]

NoStream ==
    [state |-> "none", ids |-> {}, event |-> "none", local_reply |-> FALSE, size |-> 0,
     entry |-> "none"]

UpdateCall(c, new) ==
    /\ call' = [call EXCEPT ![c] = new]
    /\ UNCHANGED <<running, reached>>

\* The API's answer; 0 is a connection closed without one.
Answer(c, status) ==
    UpdateCall(c, [call[c] EXCEPT !.step = "done", !.answer = status])

-----------------------------------------------------------------------------
(* do_POST *)

\* Everything do_POST refuses before it reads the body.
RefusedBy(post) ==
    IF ~ post.path THEN 404
    ELSE IF ~ post.token THEN 403
    ELSE IF post.length = "not a number" THEN 400
    ELSE IF post.length = "out of range" THEN 413
    ELSE IF ~ post.json THEN 400
    ELSE 0

\* Fault: header names are compared as they were written.
ManagesHeaderExactly(post) == post.lab_id # NoCall /\ post.lab_id_lower_case

\* validate_request compares header names in lower case.
ManagesHeader(post) == post.lab_id # NoCall

\* Fault: a body that cannot be read is passed on.
ValidNot(post) == ~ ManagesHeader(post)

Valid(post) == post.fields # "rejected" /\ ~ ManagesHeader(post)

Receive(c) ==
    /\ call[c].step = "new"
    /\ \E post \in Posts :
        UpdateCall(c, [call[c] EXCEPT !.post = post, !.step = "received"])
    /\ UNCHANGED stream

Refuse(c) ==
    /\ call[c].step = "received" /\ RefusedBy(call[c].post) # 0
    /\ Answer(c, RefusedBy(call[c].post))
    /\ UNCHANGED stream

\* execute_request polls Envoy before it validates the payload.
EnvoyNotRunning(c) ==
    /\ call[c].step = "received" /\ RefusedBy(call[c].post) = 0 /\ ~ running
    /\ Answer(c, 502)
    /\ UNCHANGED stream

Reject(c) ==
    /\ call[c].step = "received" /\ RefusedBy(call[c].post) = 0 /\ running
    /\ ~ Valid(call[c].post)
    /\ Answer(c, 400)
    /\ UNCHANGED stream

Accept(c) ==
    /\ call[c].step = "received" /\ RefusedBy(call[c].post) = 0 /\ running
    /\ Valid(call[c].post)
    /\ UpdateCall(c, [call[c] EXCEPT !.step = "sending", !.request_id = c])
    /\ UNCHANGED stream

\* A path, header or body that cannot be encoded raises an exception, most of
\* them one that do_POST does not handle.
CannotEncode(c) ==
    /\ call[c].step = "sending" /\ call[c].post.fields = "not encodable"
    /\ \E status \in {0, 502} : Answer(c, status)
    /\ UNCHANGED stream

\* A header of the client's that differs from the lab's in case is sent too.
Send(c) ==
    /\ call[c].step = "sending" /\ call[c].post.fields # "not encodable" /\ running
    /\ stream' = [stream EXCEPT
            ![c] = [NoStream EXCEPT !.state = "requested",
                                    !.ids = {c} \cup ({call[c].post.lab_id} \ {NoCall})]]
    /\ UpdateCall(c, [call[c] EXCEPT !.step = "waiting"])

\* read(MAX_RESPONSE_BODY_BYTES + 1), cut to the limit.
ReadBody(size) ==
    LET read == IF size > MaxBody + 1 THEN MaxBody + 1 ELSE size IN
    [body |-> IF read > MaxBody THEN MaxBody ELSE read, truncated |-> read > MaxBody]

\* The reply is the upstream's if it carries the upstream's header.
ReadResponse(c) ==
    LET reply == stream[c] IN
    /\ call[c].step = "waiting" /\ reply.state = "replied"
    /\ UpdateCall(c, [call[c] EXCEPT
            !.step = "polling",
            !.upstream_reached = ~ reply.local_reply,
            !.body = ReadBody(reply.size).body,
            !.truncated = ReadBody(reply.size).truncated])
    /\ UNCHANGED stream

\* Refused, reset, or timed out.
ConnectionFails(c) ==
    /\ \/ call[c].step = "sending" /\ call[c].post.fields # "not encodable" /\ ~ running
       \/ call[c].step = "waiting"
    /\ Answer(c, 502)
    /\ UNCHANGED stream

\* Fault: the last line of the log is taken.
EntriesOfAnyone(id) == {s \in Calls : stream[s].entry = "written"}

\* The lines of the log that carry an identifier.
EntriesOf(id) == {s \in Calls : stream[s].entry = "written" /\ id \in stream[s].ids}

FindEntry(c) ==
    /\ call[c].step = "polling" /\ running
    /\ \E s \in EntriesOf(call[c].request_id) :
        UpdateCall(c, [call[c] EXCEPT !.step = "done", !.answer = 200,
                                      !.security_event = stream[s].event])
    /\ UNCHANGED stream

\* Fault: the log is polled without a deadline.
PollForever(c) == FALSE

\* ACCESS_LOG_TIMEOUT_SECONDS pass without an entry.
GiveUpOnEntry(c) ==
    /\ call[c].step = "polling"
    /\ Answer(c, 200)
    /\ UNCHANGED stream

EnvoyExitedBeforeEntry(c) ==
    /\ call[c].step = "polling" /\ ~ running
    /\ Answer(c, 502)
    /\ UNCHANGED stream

-----------------------------------------------------------------------------
(* Envoy, the filter and the echo upstream *)

UpdateStream(c, new) ==
    /\ running
    /\ stream' = [stream EXCEPT ![c] = new]
    /\ UNCHANGED <<running, call>>

\* The request is denied, or fails, before it is forwarded.
Deny(c) ==
    /\ stream[c].state = "requested"
    /\ \E event \in {"blocked", "error"} :
        UpdateStream(c, [stream[c] EXCEPT !.state = "replied", !.event = event,
                                          !.local_reply = TRUE])
    /\ UNCHANGED reached

\* EchoUpstreamHandler._respond.
Forward(c) ==
    /\ stream[c].state = "requested"
    /\ UpdateStream(c, [stream[c] EXCEPT !.state = "forwarded"])
    /\ reached' = reached \cup {c}

Relay(c) ==
    /\ stream[c].state = "forwarded"
    /\ \E event \in {"none", "detected"}, size \in 0..MaxBody + 2 :
        UpdateStream(c, [stream[c] EXCEPT !.state = "replied", !.event = event, !.size = size])
    /\ UNCHANGED reached

\* The response is denied, or its inspection fails: Envoy's own reply takes
\* its place.
Replace(c) ==
    /\ stream[c].state = "forwarded"
    /\ \E event \in {"blocked", "error"} :
        UpdateStream(c, [stream[c] EXCEPT !.state = "replied", !.event = event,
                                          !.local_reply = TRUE])
    /\ UNCHANGED reached

\* The access log entry is made when the stream is complete ...
Log(c) ==
    /\ stream[c].state = "replied" /\ stream[c].entry = "none"
    /\ UpdateStream(c, [stream[c] EXCEPT !.entry = "buffered"])
    /\ UNCHANGED reached

\* ... and reaches the file with the next flush.
Flush(c) ==
    /\ stream[c].entry = "buffered"
    /\ UpdateStream(c, [stream[c] EXCEPT !.entry = "written"])
    /\ UNCHANGED reached

\* Envoy crashes or is stopped.
EnvoyExits ==
    /\ running
    /\ running' = FALSE
    /\ UNCHANGED <<call, stream, reached>>

-----------------------------------------------------------------------------

Init ==
    /\ running = TRUE
    /\ call = [c \in Calls |-> NewCall]
    /\ stream = [c \in Calls |-> NoStream]
    /\ reached = {}

Handle(c) ==
    \/ Refuse(c) \/ EnvoyNotRunning(c) \/ Reject(c) \/ Accept(c)
    \/ CannotEncode(c) \/ Send(c) \/ ReadResponse(c) \/ ConnectionFails(c)
    \/ FindEntry(c) \/ GiveUpOnEntry(c) \/ EnvoyExitedBeforeEntry(c)

Serve(c) == Deny(c) \/ Forward(c) \/ Relay(c) \/ Replace(c) \/ Log(c) \/ Flush(c)

Next ==
    \/ \E c \in Calls : Receive(c) \/ Handle(c) \/ Serve(c)
    \/ EnvoyExits

Spec == Init /\ [][Next]_vars

\* A handler's thread runs, and its waits have deadlines.
FairSpec == Spec /\ \A c \in Calls : WF_vars(Handle(c))

-----------------------------------------------------------------------------
(* Properties *)

TypeOK ==
    /\ running \in BOOLEAN
    /\ call \in [Calls ->
            [step : {"new", "received", "sending", "waiting", "polling", "done"},
             post : Posts \cup {NoPost}, answer : {0, 200, 400, 403, 404, 413, 502},
             request_id : Calls \cup {NoCall}, upstream_reached : BOOLEAN,
             body : 0..MaxBody, truncated : BOOLEAN,
             security_event : Events]]
    /\ stream \in [Calls ->
            [state : {"none", "requested", "forwarded", "replied"},
             ids : SUBSET Calls, event : Events, local_reply : BOOLEAN,
             size : 0..MaxBody + 2, entry : {"none", "buffered", "written"}]]
    /\ reached \subseteq Calls

Answered(c) == call[c].step = "done" /\ call[c].answer = 200

\* Whatever the other calls do and whenever their log lines come, the security
\* event an answer shows is the one the filter emitted for its own request.
EventIsOwn ==
    \A c \in Calls : Answered(c) =>
        call[c].security_event \in {"none", stream[c].event}

\* An answer that says the upstream was reached is right, and shows no denial
\* beside it.  One that says it was not is wrong only when the upstream's reply
\* was replaced, and the event then shown, if there is one, is that of a denial.
ReachedIsTrue ==
    \A c \in Calls : Answered(c) =>
        IF call[c].upstream_reached
        THEN c \in reached /\ call[c].security_event \in {"none", "detected"}
        ELSE /\ c \in reached => stream[c].local_reply
             /\ call[c].security_event \in {"none", "blocked", "error"}

\* The body shown is within the limit and is marked as cut exactly if the
\* reply was longer.
BodyIsLimited ==
    \A c \in Calls : Answered(c) =>
        /\ call[c].body <= MaxBody
        /\ call[c].truncated <=> stream[c].size > MaxBody

\* An answer tells the truth about its own request: event, upstream and body.
AnswerIsTrue == TypeOK /\ EventIsOwn /\ ReachedIsTrue /\ BodyIsLimited

\* No request that do_POST or validate_request refuses gets to Envoy, and the
\* identifier Envoy logs for one that does is the lab's.
OnlyValidSent ==
    \A c \in Calls : stream[c].state # "none" =>
        /\ RefusedBy(call[c].post) = 0
        /\ call[c].post.fields = "good"
        /\ stream[c].ids = {c}

\* Every call ends, with an answer or with its connection closed, also when
\* Envoy never answers, never logs, or exits.
EveryCallEnds ==
    \A c \in Calls : call[c].step = "received" ~> call[c].step = "done"
=============================================================================
