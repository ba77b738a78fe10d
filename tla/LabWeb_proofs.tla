----------------------------- MODULE LabWeb_proofs -----------------------------
(***************************************************************************)
(* The web side of the OWASP CRS lab, in two parts that share no state.    *)
(*                                                                         *)
(* The API: an answer tells the truth about its own request, and only      *)
(* requests that were accepted get to Envoy, for any set of calls, any     *)
(* posts and any limit of the body shown.                                  *)
(*                                                                         *)
(* The page: its parts agree and its history is the latest results, for    *)
(* any number of requests in flight and any length of the history.         *)
(***************************************************************************)
EXTENDS LabRequests, LabPage, SequenceTheorems, TLAPS

-----------------------------------------------------------------------------
(* The invariant.  A call, its request and its stream share a name, and    *)
(* the properties speak of them when the call is over or the request has   *)
(* been sent; the invariant says, for one call at a time, what each step   *)
(* may rely on until then.                                                 *)

StreamType ==
    [state : {"none", "requested", "forwarded", "replied"},
     ids : SUBSET Calls, event : Events, local_reply : BOOLEAN,
     size : 0..MaxBody + 2, entry : {"none", "buffered", "written"}]

Steps == {"new", "received", "sending", "waiting", "polling", "done"}
Submitted == Posts \cup {NoPost}
Statuses == {0, 200, 400, 403, 404, 413, 502}
Identifiers == Calls \cup {NoCall}
Shown == 0..MaxBody

CallType ==
    [step : Steps, post : Submitted, answer : Statuses, request_id : Identifiers,
     upstream_reached : BOOLEAN, body : Shown, truncated : BOOLEAN, security_event : Events]

Typed ==
    /\ running \in BOOLEAN
    /\ call \in [Calls -> CallType]
    /\ stream \in [Calls -> StreamType]
    /\ reached \subseteq Calls

\* What has been accepted, and with it the identifier it is sent under.
Accepted(c) ==
    RefusedBy(call[c].post) = 0 /\ Valid(call[c].post) /\ call[c].request_id = c

\* Only what was accepted and could be encoded is sent, once.
SentIsValid(c) ==
    /\ call[c].step \in {"sending", "waiting", "polling"} => Accepted(c)
    /\ call[c].step \in {"new", "received", "sending"} => stream[c].state = "none"
    /\ stream[c].state # "none" =>
        /\ RefusedBy(call[c].post) = 0
        /\ call[c].post.fields = "good"
        /\ stream[c].ids = {c}

\* What Envoy logs is complete, what it relays was answered by the upstream and
\* is no denial, and what it replies itself is one.
StreamHonest(c) ==
    /\ stream[c].entry # "none" => stream[c].state = "replied"
    /\ stream[c].state = "forwarded" => c \in reached
    /\ stream[c].state = "replied" /\ ~ stream[c].local_reply =>
        c \in reached /\ stream[c].event \in {"none", "detected"}
    /\ stream[c].local_reply =>
        stream[c].state = "replied" /\ stream[c].event \in {"blocked", "error"}

\* What a call that has read its reply knows of it.
KnowsReply(c) ==
    call[c].step = "polling" \/ Answered(c) =>
        /\ stream[c].state = "replied"
        /\ call[c].upstream_reached <=> ~ stream[c].local_reply
        /\ call[c].truncated <=> stream[c].size > MaxBody

\* The event a call has learnt is that of its own stream, which has one by then.
KnowsEvent(c) ==
    \/ call[c].security_event = "none"
    \/ call[c].security_event = stream[c].event /\ stream[c].state = "replied"

CallInv(c) == SentIsValid(c) /\ StreamHonest(c) /\ KnowsReply(c) /\ KnowsEvent(c)

Inv == Typed /\ \A c \in Calls : CallInv(c)

-----------------------------------------------------------------------------
(* Types *)

\* The types are those of the model.
LEMMA TypesNamed == TypeOK <=> Typed
BY DEF TypeOK, Typed, CallType, StreamType, Steps, Submitted, Statuses, Identifiers, Shown

\* A stream that has only been requested.
Requested(c) == [NoStream EXCEPT !.state = "requested", !.ids = {c}]

\* A new call has nothing, nor has its stream.
LEMMA NothingTyped ==
    /\ NewCall \in CallType
    /\ NoStream \in StreamType
    /\ \A c \in Calls : Requested(c) \in StreamType
<1>1. 0 \in 0..MaxBody /\ 0 \in 0..MaxBody + 2
    BY MaxBodyAssumption
<1>2. NewCall \in CallType
    BY <1>1 DEF NewCall, CallType, Steps, Submitted, Statuses, Identifiers, Shown, Events
<1>3. NoStream \in StreamType
    BY <1>1 DEF NoStream, StreamType, Events
<1>4. \A c \in Calls : Requested(c) \in StreamType
    BY <1>1 DEF Requested, NoStream, StreamType, Events
<1>5. QED
    BY <1>2, <1>3, <1>4

\* What was not rejected and can be encoded is good.
LEMMA PostTyped ==
    ASSUME NEW post \in Submitted
    PROVE  post.fields \in {"rejected", "not encodable", "good"}
<1>1. CASE post = NoPost
    BY <1>1 DEF NoPost
<1>2. CASE post \in Posts
    BY <1>2, PostsAssumption DEF Post
<1>3. QED
    BY <1>1, <1>2 DEF Submitted

\* The records do_POST makes of that of a call.
LEMMA CallUpdated ==
    ASSUME NEW r \in CallType
    PROVE  /\ \A post \in Posts : [r EXCEPT !.post = post, !.step = "received"] \in CallType
           /\ \A status \in Statuses : [r EXCEPT !.step = "done", !.answer = status] \in CallType
           /\ \A c \in Calls : [r EXCEPT !.step = "sending", !.request_id = c] \in CallType
           /\ [r EXCEPT !.step = "waiting"] \in CallType
           /\ \A reached_it, cut \in BOOLEAN, body \in Shown :
                [r EXCEPT !.step = "polling", !.upstream_reached = reached_it, !.body = body,
                          !.truncated = cut] \in CallType
           /\ \A event \in Events :
                [r EXCEPT !.step = "done", !.answer = 200, !.security_event = event] \in CallType
<1>1. /\ {"received", "sending", "waiting", "polling", "done"} \subseteq Steps
      /\ Posts \subseteq Submitted /\ Calls \subseteq Identifiers /\ 200 \in Statuses
    BY DEF Steps, Submitted, Identifiers, Statuses
<1>2. \A post \in Submitted : [r EXCEPT !.post = post, !.step = "received"] \in CallType
    BY <1>1 DEF CallType
<1>3. \A status \in Statuses : [r EXCEPT !.step = "done", !.answer = status] \in CallType
    BY <1>1 DEF CallType
<1>4. \A c \in Identifiers : [r EXCEPT !.step = "sending", !.request_id = c] \in CallType
    BY <1>1 DEF CallType
<1>5. [r EXCEPT !.step = "waiting"] \in CallType
    BY <1>1 DEF CallType
<1>6. \A reached_it, cut \in BOOLEAN, body \in Shown :
        [r EXCEPT !.step = "polling", !.upstream_reached = reached_it, !.body = body,
                  !.truncated = cut] \in CallType
    BY <1>1 DEF CallType
<1>7. \A event \in Events :
        [r EXCEPT !.step = "done", !.answer = 200, !.security_event = event] \in CallType
    BY <1>1 DEF CallType
<1>8. QED
    BY <1>1, <1>2, <1>3, <1>4, <1>5, <1>6, <1>7

\* The records Envoy makes of that of a stream.
LEMMA StreamUpdated ==
    ASSUME NEW r \in StreamType
    PROVE  /\ \A event \in Events :
                [r EXCEPT !.state = "replied", !.event = event, !.local_reply = TRUE]
                    \in StreamType
           /\ [r EXCEPT !.state = "forwarded"] \in StreamType
           /\ \A event \in Events, size \in 0..MaxBody + 2 :
                [r EXCEPT !.state = "replied", !.event = event, !.size = size] \in StreamType
           /\ \A entry \in {"buffered", "written"} : [r EXCEPT !.entry = entry] \in StreamType
BY DEF StreamType

\* do_POST refuses with one of four statuses.
LEMMA RefusedStatus ==
    ASSUME NEW post
    PROVE  RefusedBy(post) \in {0, 400, 403, 404, 413}
BY DEF RefusedBy

\* What is read of a body is within the limit, and cut if the body is longer.
LEMMA BodyCut ==
    ASSUME NEW size \in 0..MaxBody + 2
    PROVE  /\ ReadBody(size).body \in Shown
           /\ ReadBody(size).truncated \in BOOLEAN
           /\ ReadBody(size).truncated <=> size > MaxBody
<1>1. size \in Nat /\ MaxBody \in Nat /\ MaxBody + 1 > MaxBody
    BY MaxBodyAssumption
<1>2. CASE size > MaxBody + 1
    <2>1. ReadBody(size) = [body |-> MaxBody, truncated |-> TRUE]
        BY <1>1, <1>2, Zenon DEF ReadBody
    <2>2. QED
        BY <1>1, <1>2, <2>1 DEF Shown
<1>3. CASE ~ (size > MaxBody + 1) /\ size > MaxBody
    <2>1. ReadBody(size) = [body |-> MaxBody, truncated |-> TRUE]
        BY <1>3, Zenon DEF ReadBody
    <2>2. QED
        BY <1>1, <1>3, <2>1 DEF Shown
<1>4. CASE ~ (size > MaxBody + 1) /\ ~ (size > MaxBody)
    <2>1. ReadBody(size) = [body |-> size, truncated |-> size > MaxBody]
        BY <1>4, Zenon DEF ReadBody
    <2>2. (size > MaxBody) = FALSE
        BY <1>4
    <2>3. ReadBody(size) = [body |-> size, truncated |-> FALSE]
        BY <2>1, <2>2, Zenon
    <2>4. QED
        BY <1>1, <1>4, <2>3 DEF Shown
<1>5. QED
    BY <1>2, <1>3, <1>4

-----------------------------------------------------------------------------
(* One call at a time *)

\* A step that concerns one call leaves the others as they are.
LEMMA OneCall ==
    ASSUME Inv, NEW c \in Calls,
           NEW new \in CallType, call' = [call EXCEPT ![c] = new],
           NEW s \in StreamType, stream' = [stream EXCEPT ![c] = s],
           running' = running, reached' \in {reached, reached \cup {c}},
           CallInv(c)'
    PROVE  Inv'
<1>1. Typed'
    BY DEF Inv, Typed
<1>2. ASSUME NEW d \in Calls, d # c
      PROVE  CallInv(d)'
    <2>1. /\ call'[d] = call[d] /\ stream'[d] = stream[d] /\ (d \in reached => d \in reached')
          /\ CallInv(d)
        BY <1>2 DEF Inv, Typed
    <2>2. QED
        BY <2>1 DEF CallInv, SentIsValid, Accepted, StreamHonest, KnowsReply, KnowsEvent, Answered
<1>3. QED
    BY <1>1, <1>2 DEF Inv

\* A step of do_POST that leaves Envoy's side alone.
LEMMA CallAlone ==
    ASSUME Inv, NEW c \in Calls, NEW new \in CallType,
           UpdateCall(c, new), stream' = stream, CallInv(c)'
    PROVE  Inv'
<1>1. stream[c] \in StreamType /\ stream' = [stream EXCEPT ![c] = stream[c]]
    BY DEF Inv, Typed
<1>2. call' = [call EXCEPT ![c] = new] /\ running' = running /\ reached' = reached
    BY DEF UpdateCall
<1>3. QED
    BY <1>1, <1>2, OneCall

\* A step of Envoy's that leaves do_POST alone.
LEMMA StreamAlone ==
    ASSUME Inv, NEW c \in Calls, NEW s \in StreamType,
           stream' = [stream EXCEPT ![c] = s], UNCHANGED <<running, call>>,
           reached' \in {reached, reached \cup {c}}, CallInv(c)'
    PROVE  Inv'
<1>1. call[c] \in CallType /\ call' = [call EXCEPT ![c] = call[c]] /\ running' = running
    BY DEF Inv, Typed
<1>2. QED
    BY <1>1, OneCall

-----------------------------------------------------------------------------
(* do_POST *)

\* An answer other than 200, before the request is sent or after.
LEMMA AnswerWithout ==
    ASSUME Inv, NEW c \in Calls, NEW status \in (Statuses \ {200}),
           call' = [call EXCEPT ![c] = [call[c] EXCEPT !.step = "done", !.answer = status]],
           UNCHANGED <<running, stream, reached>>
    PROVE  Inv'
<1> DEFINE new == [call[c] EXCEPT !.step = "done", !.answer = status]
<1>1. call[c] \in CallType /\ CallInv(c)
    BY DEF Inv, Typed
<1>2. new \in CallType
    <2>1. call[c] \in CallType
        BY <1>1
    <2>2. QED
        BY <2>1, CallUpdated, ZenonT(60)
<1>3. UpdateCall(c, new) /\ call'[c] = new /\ reached' = reached
    BY DEF UpdateCall, Inv, Typed
<1>4. CallInv(c)'
    BY <1>1, <1>3
    DEF CallInv, SentIsValid, Accepted, StreamHonest, KnowsReply, KnowsEvent, Answered, CallType
<1>5. QED
    BY <1>2, <1>3, <1>4, CallAlone

\* A post is received.
LEMMA ReceiveKeeps ==
    ASSUME Inv, NEW c \in Calls, Receive(c)
    PROVE  Inv'
<1>1. call[c] \in CallType /\ CallInv(c)
    BY DEF Inv, Typed
<1>2. PICK post \in Posts : UpdateCall(c, [call[c] EXCEPT !.post = post, !.step = "received"])
    BY DEF Receive
<1> DEFINE new == [call[c] EXCEPT !.post = post, !.step = "received"]
<1>3. new \in CallType
    <2>1. call[c] \in CallType
        BY <1>1
    <2>2. QED
        BY <2>1, CallUpdated, ZenonT(60)
<1>4. call'[c] = new /\ reached' = reached /\ stream' = stream /\ call[c].step = "new"
    BY <1>2 DEF Receive, UpdateCall, Inv, Typed
<1>5. CallInv(c)'
    BY <1>1, <1>4
    DEF CallInv, SentIsValid, Accepted, StreamHonest, KnowsReply, KnowsEvent, Answered, CallType
<1>6. QED
    BY <1>2, <1>3, <1>4, <1>5, CallAlone

\* A post that is refused, rejected, or cannot be sent or answered for is told
\* so.
LEMMA RefusalsKeep ==
    ASSUME Inv, NEW c \in Calls,
           \/ Refuse(c) \/ EnvoyNotRunning(c) \/ Reject(c) \/ CannotEncode(c)
           \/ ConnectionFails(c) \/ EnvoyExitedBeforeEntry(c)
    PROVE  Inv'
<1>1. Refuse(c) => RefusedBy(call[c].post) \in Statuses \ {200}
    BY RefusedStatus DEF Refuse, Statuses
<1>2. CASE Refuse(c)
    <2>1. PICK status \in Statuses \ {200} : status = RefusedBy(call[c].post)
        BY <1>1, <1>2, Zenon
    <2>2. /\ call' = [call EXCEPT ![c] = [call[c] EXCEPT !.step = "done", !.answer = status]]
          /\ UNCHANGED <<running, stream, reached>>
        BY <1>2, <2>1 DEF Refuse, Answer, UpdateCall
    <2>3. QED
        BY <2>2, AnswerWithout, ZenonT(60)
<1>3. CASE EnvoyNotRunning(c) \/ ConnectionFails(c) \/ EnvoyExitedBeforeEntry(c)
    <2>1. PICK status \in Statuses \ {200} : status = 502
        BY DEF Statuses
    <2>2. /\ call' = [call EXCEPT ![c] = [call[c] EXCEPT !.step = "done", !.answer = status]]
          /\ UNCHANGED <<running, stream, reached>>
        BY <1>3, <2>1
        DEF EnvoyNotRunning, ConnectionFails, EnvoyExitedBeforeEntry, Answer, UpdateCall
    <2>3. QED
        BY <2>2, AnswerWithout, ZenonT(60)
<1>4. CASE Reject(c)
    <2>1. PICK status \in Statuses \ {200} : status = 400
        BY DEF Statuses
    <2>2. /\ call' = [call EXCEPT ![c] = [call[c] EXCEPT !.step = "done", !.answer = status]]
          /\ UNCHANGED <<running, stream, reached>>
        BY <1>4, <2>1 DEF Reject, Answer, UpdateCall
    <2>3. QED
        BY <2>2, AnswerWithout, ZenonT(60)
<1>5. CASE CannotEncode(c)
    <2> DEFINE Answered0 ==
                call' = [call EXCEPT ![c] = [call[c] EXCEPT !.step = "done", !.answer = 0]]
    <2>1. /\ ~ Answered0 =>
                call' = [call EXCEPT ![c] = [call[c] EXCEPT !.step = "done", !.answer = 502]]
          /\ UNCHANGED <<running, stream, reached>>
        <3>1. PICK answer \in {0, 502} : Answer(c, answer) /\ stream' = stream
            BY <1>5, Zenon DEF CannotEncode
        <3>2. /\ call' = [call EXCEPT ![c] = [call[c] EXCEPT !.step = "done", !.answer = answer]]
              /\ UNCHANGED <<running, stream, reached>>
            BY <3>1, Zenon DEF Answer, UpdateCall
        <3>3. CASE answer = 0
            BY <3>2, <3>3
        <3>4. CASE answer = 502
            BY <3>2, <3>4
        <3>5. QED
            BY <3>3, <3>4
    <2>2. CASE Answered0
        <3>1. PICK status \in Statuses \ {200} : status = 0
            BY DEF Statuses
        <3>2. call' = [call EXCEPT ![c] = [call[c] EXCEPT !.step = "done", !.answer = status]]
            BY <2>1, <2>2, <3>1
        <3>3. QED
            BY <2>1, <3>2, AnswerWithout, ZenonT(60)
    <2>3. CASE ~ Answered0
        <3>1. PICK status \in Statuses \ {200} : status = 502
            BY DEF Statuses
        <3>2. call' = [call EXCEPT ![c] = [call[c] EXCEPT !.step = "done", !.answer = status]]
            BY <2>1, <2>3, <3>1
        <3>3. QED
            BY <2>1, <3>2, AnswerWithout, ZenonT(60)
    <2>4. QED
        BY <2>2, <2>3
<1>6. QED
    BY <1>2, <1>3, <1>4, <1>5

\* A post that is accepted will be sent under the name of the call.
LEMMA AcceptKeeps ==
    ASSUME Inv, NEW c \in Calls, Accept(c)
    PROVE  Inv'
<1> DEFINE new == [call[c] EXCEPT !.step = "sending", !.request_id = c]
<1>1. call[c] \in CallType /\ CallInv(c)
    BY DEF Inv, Typed
<1>2. new \in CallType
    <2>1. call[c] \in CallType
        BY <1>1
    <2>2. QED
        BY <2>1, CallUpdated, ZenonT(60)
<1>3. /\ UpdateCall(c, new) /\ call'[c] = new /\ reached' = reached /\ stream' = stream
      /\ call[c].step = "received" /\ RefusedBy(call[c].post) = 0 /\ Valid(call[c].post)
    BY DEF Accept, UpdateCall, Inv, Typed
<1>4. CallInv(c)'
    BY <1>1, <1>3
    DEF CallInv, SentIsValid, Accepted, StreamHonest, KnowsReply, KnowsEvent, Answered, CallType
<1>5. QED
    BY <1>2, <1>3, <1>4, CallAlone

\* What is sent carries no header of the client's that names a call.
LEMMA SendKeeps ==
    ASSUME Inv, NEW c \in Calls, Send(c)
    PROVE  Inv'
<1> DEFINE new == [call[c] EXCEPT !.step = "waiting"]
<1>1. call[c] \in CallType /\ CallInv(c) /\ call[c].step = "sending" /\ Accepted(c)
    BY DEF Inv, Typed, Send, CallInv, SentIsValid
<1>2. call[c].post.fields = "good" /\ call[c].post.lab_id = NoCall
    <2>1. call[c].post \in Submitted
        BY <1>1 DEF CallType
    <2>2. call[c].post.fields \notin {"rejected", "not encodable"}
        BY <1>1 DEF Accepted, Valid, Send
    <2>3. QED
        BY <1>1, <2>1, <2>2, PostTyped DEF Accepted, Valid, ManagesHeader
<1>3. new \in CallType /\ Requested(c) \in StreamType
    <2>1. call[c] \in CallType
        BY <1>1
    <2>2. QED
        BY <2>1, CallUpdated, NothingTyped, Zenon
<1>4. /\ stream' = [stream EXCEPT ![c] = Requested(c)] /\ call' = [call EXCEPT ![c] = new]
      /\ running' = running /\ reached' = reached
    <2>1. {c} \cup ({call[c].post.lab_id} \ {NoCall}) = {c}
        BY <1>2
    <2>2. QED
        BY <2>1 DEF Send, UpdateCall, Requested
<1>5. call'[c] = new /\ stream'[c] = Requested(c)
    BY <1>4 DEF Inv, Typed
<1>6. /\ stream'[c].state = "requested" /\ stream'[c].ids = {c} /\ stream'[c].entry = "none"
      /\ stream'[c].local_reply = FALSE
      /\ call'[c].step = "waiting" /\ call'[c].post = call[c].post
      /\ call'[c].request_id = call[c].request_id
      /\ call'[c].security_event = call[c].security_event
    BY <1>1, <1>5 DEF CallType, Requested, NoStream
<1>7. stream[c].state = "none"
    BY <1>1 DEF CallInv, SentIsValid
<1>8. CallInv(c)'
    BY <1>1, <1>2, <1>6, <1>7
    DEF CallInv, SentIsValid, Accepted, StreamHonest, KnowsReply, KnowsEvent, Answered
<1>9. QED
    BY <1>3, <1>4, <1>8, OneCall

\* What is read of the reply is what the stream holds of it from then on.
LEMMA ReadResponseKeeps ==
    ASSUME Inv, NEW c \in Calls, ReadResponse(c)
    PROVE  Inv'
<1> DEFINE body == ReadBody(stream[c].size).body
           cut == ReadBody(stream[c].size).truncated
           upstream == ~ stream[c].local_reply
           new == [call[c] EXCEPT !.step = "polling", !.upstream_reached = upstream,
                                  !.body = body, !.truncated = cut]
<1>1. call[c] \in CallType /\ CallInv(c) /\ stream[c] \in StreamType
    BY DEF Inv, Typed
<1>2. body \in Shown /\ cut \in BOOLEAN /\ (cut <=> stream[c].size > MaxBody)
    <2>1. stream[c].size \in 0..MaxBody + 2
        BY <1>1 DEF StreamType
    <2>2. QED
        BY <2>1, BodyCut, Zenon
<1>3. new \in CallType
    <2>1. call[c] \in CallType /\ upstream \in BOOLEAN
        BY <1>1
    <2> HIDE DEF body, cut, upstream
    <2>2. QED
        BY <1>2, <2>1, CallUpdated, ZenonT(60)
<1>4. /\ UpdateCall(c, new) /\ stream' = stream
      /\ call[c].step = "waiting" /\ stream[c].state = "replied"
    BY Zenon DEF ReadResponse
<1>5. call'[c] = new /\ reached' = reached
    BY <1>4 DEF UpdateCall, Inv, Typed
<1> HIDE DEF body, cut
<1>6. /\ call'[c].step = "polling" /\ call'[c].post = call[c].post
      /\ call'[c].request_id = call[c].request_id
      /\ call'[c].security_event = call[c].security_event
      /\ call'[c].upstream_reached = ~ stream[c].local_reply
      /\ call'[c].truncated = cut
    BY <1>1, <1>5 DEF CallType
<1>7. CallInv(c)'
    BY <1>1, <1>2, <1>4, <1>5, <1>6
    DEF CallInv, SentIsValid, Accepted, StreamHonest, KnowsReply, KnowsEvent, Answered
<1> HIDE DEF new
<1>8. QED
    BY <1>3, <1>4, <1>7, CallAlone

\* The entry that is found is that of the call's own stream, which no other
\* stream can name.
LEMMA FindEntryKeeps ==
    ASSUME Inv, NEW c \in Calls, FindEntry(c)
    PROVE  Inv'
<1>1. call[c] \in CallType /\ CallInv(c) /\ stream[c] \in StreamType /\ call[c].step = "polling"
    BY DEF Inv, Typed, FindEntry
<1>2. PICK s \in EntriesOf(call[c].request_id) :
        UpdateCall(c, [call[c] EXCEPT !.step = "done", !.answer = 200,
                                      !.security_event = stream[s].event])
    BY Zenon DEF FindEntry
<1>3. s = c
    <2>1. s \in Calls /\ stream[s].entry = "written" /\ call[c].request_id \in stream[s].ids
        BY <1>2 DEF EntriesOf
    <2>2. stream[s].ids = {s}
        BY <2>1 DEF Inv, CallInv, SentIsValid, StreamHonest
    <2>3. call[c].request_id = c
        BY <1>1 DEF CallInv, SentIsValid, Accepted
    <2>4. QED
        BY <2>1, <2>2, <2>3
<1> DEFINE event == stream[c].event
           new == [call[c] EXCEPT !.step = "done", !.answer = 200, !.security_event = event]
<1>4. new \in CallType
    <2>1. call[c] \in CallType /\ event \in Events
        BY <1>1 DEF StreamType
    <2> HIDE DEF event
    <2>2. QED
        BY <2>1, CallUpdated, ZenonT(60)
<1>5. UpdateCall(c, new) /\ stream' = stream
    BY <1>2, <1>3, Zenon DEF FindEntry
<1>6. call'[c] = new /\ reached' = reached
    BY <1>5 DEF UpdateCall, Inv, Typed
<1>7. /\ call'[c].step = "done" /\ call'[c].post = call[c].post
      /\ call'[c].upstream_reached = call[c].upstream_reached
      /\ call'[c].truncated = call[c].truncated
      /\ call'[c].security_event = stream[c].event
    BY <1>1, <1>6 DEF CallType
<1>8. CallInv(c)'
    BY <1>1, <1>5, <1>6, <1>7
    DEF CallInv, SentIsValid, Accepted, StreamHonest, KnowsReply, KnowsEvent, Answered
<1> HIDE DEF new
<1>9. QED
    BY <1>4, <1>5, <1>8, CallAlone

\* Without an entry the answer shows no event.
LEMMA GiveUpKeeps ==
    ASSUME Inv, NEW c \in Calls, GiveUpOnEntry(c)
    PROVE  Inv'
<1>1. call[c] \in CallType /\ CallInv(c) /\ call[c].step = "polling"
    BY DEF Inv, Typed, GiveUpOnEntry
<1> DEFINE new == [call[c] EXCEPT !.step = "done", !.answer = 200]
<1>2. new \in CallType
    <2>1. call[c] \in CallType /\ 200 \in Statuses
        BY <1>1 DEF Statuses
    <2>2. QED
        BY <2>1, CallUpdated, ZenonT(60)
<1>3. UpdateCall(c, new) /\ stream' = stream
    BY Zenon DEF GiveUpOnEntry, Answer
<1>4. call'[c] = new /\ reached' = reached
    BY <1>3 DEF UpdateCall, Inv, Typed
<1>5. /\ call'[c].step = "done" /\ call'[c].post = call[c].post
      /\ call'[c].upstream_reached = call[c].upstream_reached
      /\ call'[c].truncated = call[c].truncated
      /\ call'[c].security_event = call[c].security_event
    BY <1>1, <1>4 DEF CallType
<1>6. CallInv(c)'
    BY <1>1, <1>3, <1>4, <1>5
    DEF CallInv, SentIsValid, Accepted, StreamHonest, KnowsReply, KnowsEvent, Answered
<1> HIDE DEF new
<1>7. QED
    BY <1>2, <1>3, <1>6, CallAlone

-----------------------------------------------------------------------------
(* Envoy *)

\* A stream changes, but no longer once it is complete.
LEMMA StreamMoves ==
    ASSUME Inv, NEW c \in Calls, NEW s \in StreamType,
           stream' = [stream EXCEPT ![c] = s], UNCHANGED <<running, call>>,
           reached' \in {reached, reached \cup {c}},
           stream[c].state # "none", s.state # "none", s.ids = stream[c].ids,
           stream[c].state = "replied" =>
                /\ s.state = "replied" /\ s.event = stream[c].event
                /\ s.local_reply = stream[c].local_reply /\ s.size = stream[c].size,
           s.entry # "none" => s.state = "replied",
           s.state = "forwarded" => c \in reached',
           s.state = "replied" /\ ~ s.local_reply =>
                c \in reached' /\ s.event \in {"none", "detected"},
           s.local_reply => s.state = "replied" /\ s.event \in {"blocked", "error"}
    PROVE  Inv'
<1>1. CallInv(c) /\ stream'[c] = s /\ call'[c] = call[c]
    BY DEF Inv, Typed
<1>2. CallInv(c)'
    BY <1>1
    DEF CallInv, SentIsValid, Accepted, StreamHonest, KnowsReply, KnowsEvent, Answered
<1>3. QED
    BY <1>2, StreamAlone

\* A denial, of the request or of the response, is Envoy's own reply.
LEMMA DenialKeeps ==
    ASSUME Inv, NEW c \in Calls, Deny(c) \/ Replace(c)
    PROVE  Inv'
<1>1. stream[c] \in StreamType /\ CallInv(c) /\ stream[c].state \in {"requested", "forwarded"}
    BY DEF Inv, Typed, Deny, Replace
<1>2. PICK event \in {"blocked", "error"} :
        UpdateStream(c, [stream[c] EXCEPT !.state = "replied", !.event = event,
                                          !.local_reply = TRUE])
    BY DEF Deny, Replace
<1> DEFINE s == [stream[c] EXCEPT !.state = "replied", !.event = event, !.local_reply = TRUE]
<1>3. s \in StreamType
    <2>1. stream[c] \in StreamType /\ event \in Events
        BY <1>1 DEF Events
    <2>2. QED
        BY <2>1, StreamUpdated, Zenon
<1>4. stream' = [stream EXCEPT ![c] = s] /\ UNCHANGED <<running, call>> /\ reached' = reached
    BY <1>2 DEF UpdateStream, Deny, Replace
<1>5. /\ s.state = "replied" /\ s.local_reply = TRUE /\ s.ids = stream[c].ids
      /\ s.event \in {"blocked", "error"}
    BY <1>1 DEF StreamType
<1> HIDE DEF s
<1>6. QED
    BY <1>1, <1>3, <1>4, <1>5, StreamMoves

\* A request that is forwarded has reached the upstream.
LEMMA ForwardKeeps ==
    ASSUME Inv, NEW c \in Calls, Forward(c)
    PROVE  Inv'
<1>1. stream[c] \in StreamType /\ CallInv(c) /\ stream[c].state = "requested"
    BY DEF Inv, Typed, Forward
<1> DEFINE s == [stream[c] EXCEPT !.state = "forwarded"]
<1>2. s \in StreamType
    <2>1. stream[c] \in StreamType
        BY <1>1
    <2>2. QED
        BY <2>1, StreamUpdated, Zenon
<1>3. /\ stream' = [stream EXCEPT ![c] = s] /\ UNCHANGED <<running, call>>
      /\ reached' = reached \cup {c}
    BY DEF UpdateStream, Forward
<1>4. /\ s.state = "forwarded" /\ s.entry = "none" /\ s.ids = stream[c].ids
      /\ s.local_reply = FALSE
    BY <1>1 DEF StreamType, CallInv, StreamHonest
<1> HIDE DEF s
<1>5. QED
    BY <1>1, <1>2, <1>3, <1>4, StreamMoves

\* The upstream's reply is relayed with no denial beside it.
LEMMA RelayKeeps ==
    ASSUME Inv, NEW c \in Calls, Relay(c)
    PROVE  Inv'
<1>1. stream[c] \in StreamType /\ CallInv(c) /\ stream[c].state = "forwarded" /\ c \in reached
    BY DEF Inv, Typed, Relay, CallInv, StreamHonest
<1>2. PICK event \in {"none", "detected"}, size \in 0..MaxBody + 2 :
        UpdateStream(c, [stream[c] EXCEPT !.state = "replied", !.event = event, !.size = size])
    BY DEF Relay
<1> DEFINE s == [stream[c] EXCEPT !.state = "replied", !.event = event, !.size = size]
<1>3. s \in StreamType
    <2>1. stream[c] \in StreamType /\ event \in Events
        BY <1>1 DEF Events
    <2>2. QED
        BY <2>1, StreamUpdated, Zenon
<1>4. stream' = [stream EXCEPT ![c] = s] /\ UNCHANGED <<running, call>> /\ reached' = reached
    BY <1>2 DEF UpdateStream, Relay
<1>5. /\ s.state = "replied" /\ s.event \in {"none", "detected"} /\ s.ids = stream[c].ids
      /\ s.local_reply = FALSE
    BY <1>1 DEF StreamType, CallInv, StreamHonest
<1> HIDE DEF s
<1>6. QED
    BY <1>1, <1>3, <1>4, <1>5, StreamMoves

\* The entry of a complete stream is written some time later.
LEMMA LoggingKeeps ==
    ASSUME Inv, NEW c \in Calls, Log(c) \/ Flush(c)
    PROVE  Inv'
<1>1. stream[c] \in StreamType /\ CallInv(c) /\ stream[c].state = "replied"
    BY DEF Inv, Typed, Log, Flush, CallInv, StreamHonest
<1>2. PICK entry \in {"buffered", "written"} :
        UpdateStream(c, [stream[c] EXCEPT !.entry = entry])
    BY DEF Log, Flush
<1> DEFINE s == [stream[c] EXCEPT !.entry = entry]
<1>3. s \in StreamType
    <2>1. stream[c] \in StreamType
        BY <1>1
    <2>2. QED
        BY <2>1, StreamUpdated, Zenon
<1>4. stream' = [stream EXCEPT ![c] = s] /\ UNCHANGED <<running, call>> /\ reached' = reached
    BY <1>2 DEF UpdateStream, Log, Flush
<1>5. /\ s.state = "replied" /\ s.event = stream[c].event /\ s.ids = stream[c].ids
      /\ s.local_reply = stream[c].local_reply /\ s.size = stream[c].size
    BY <1>1 DEF StreamType
<1> HIDE DEF s
<1>6. QED
    BY <1>1, <1>3, <1>4, <1>5, StreamMoves DEF CallInv, StreamHonest

-----------------------------------------------------------------------------
(* The theorems *)

\* Initially nothing has been received, sent or logged.
LEMMA InvInitially == Init => Inv
<1> SUFFICES ASSUME Init PROVE Inv
    OBVIOUS
<1>1. Typed
    BY NothingTyped DEF Init, Typed
<1>2. ASSUME NEW c \in Calls
      PROVE  CallInv(c)
    BY DEF Init, NewCall, NoStream, CallInv, SentIsValid, StreamHonest, KnowsReply, KnowsEvent,
           Answered
<1>3. QED
    BY <1>1, <1>2 DEF Inv

\* Every step keeps the invariant.
LEMMA InvInductive == Inv /\ [Next]_vars => Inv'
<1> SUFFICES ASSUME Inv, [Next]_vars PROVE Inv'
    OBVIOUS
<1>1. ASSUME NEW c \in Calls, Receive(c) \/ Handle(c)
      PROVE  Inv'
    BY <1>1, ReceiveKeeps, RefusalsKeep, AcceptKeeps, SendKeeps, ReadResponseKeeps,
       FindEntryKeeps, GiveUpKeeps
    DEF Handle
<1>2. ASSUME NEW c \in Calls, Serve(c)
      PROVE  Inv'
    BY <1>2, DenialKeeps, ForwardKeeps, RelayKeeps, LoggingKeeps DEF Serve
<1>3. ASSUME UNCHANGED <<call, stream, reached>>, running' \in BOOLEAN
      PROVE  Inv'
    <2>1. Typed'
        BY <1>3 DEF Inv, Typed
    <2>2. ASSUME NEW c \in Calls
          PROVE  CallInv(c)'
        BY <1>3
        DEF Inv, CallInv, SentIsValid, Accepted, StreamHonest, KnowsReply, KnowsEvent, Answered
    <2>3. QED
        BY <2>1, <2>2 DEF Inv
<1>4. CASE EnvoyExits \/ UNCHANGED vars
    BY <1>3, <1>4 DEF EnvoyExits, vars, Inv, Typed
<1>5. QED
    BY <1>1, <1>2, <1>3, <1>4 DEF Next

\* The invariant always holds.
LEMMA Invariance == Spec => []Inv
BY InvInitially, InvInductive, PTL DEF Spec

\* An answer tells the truth about its own request, whatever the other calls
\* do, whatever headers their clients send and whenever their log lines come:
\* the event is the filter's for this request, the upstream was reached if it
\* says so, and not unless its reply was replaced if it does not, and the body
\* is within the limit and marked if it was cut.
THEOREM AnswersAreTrue == Spec => []AnswerIsTrue
<1>1. ASSUME Inv PROVE AnswerIsTrue
    <2>1. TypeOK
        BY <1>1, TypesNamed DEF Inv
    <2>2. ASSUME NEW c \in Calls
          PROVE  call[c].body <= MaxBody
        <3>1. call[c].body \in 0..MaxBody
            BY <1>1 DEF Inv, Typed, CallType, Shown
        <3>2. QED
            BY <3>1, MaxBodyAssumption
    <2>3. \A c \in Calls : CallInv(c)
        BY <1>1 DEF Inv
    <2>4. EventIsOwn
        BY <2>3 DEF EventIsOwn, CallInv, KnowsEvent
    <2>5. ReachedIsTrue
        BY <2>3 DEF ReachedIsTrue, CallInv, KnowsReply, KnowsEvent, StreamHonest
    <2>6. BodyIsLimited
        BY <2>2, <2>3 DEF BodyIsLimited, CallInv, KnowsReply
    <2>7. QED
        BY <2>1, <2>4, <2>5, <2>6 DEF AnswerIsTrue
<1>2. QED
    BY <1>1, Invariance, PTL

\* Nothing that do_POST or validate_request refuses gets to Envoy, and what
\* does carries no identifier but the lab's, for any posts.
THEOREM ValidIsSent == Spec => []OnlyValidSent
<1>1. Inv => OnlyValidSent
    BY DEF Inv, OnlyValidSent, CallInv, SentIsValid
<1>2. QED
    BY <1>1, Invariance, PTL

-----------------------------------------------------------------------------
(* The page.  The parts of PageAgrees, HistoryIsLatest among them, are     *)
(* inductive together: a replay shows what the history holds, and a result is new to *)
(* the history because its request was still under way.                    *)

States == {"new", "fetching", "completed", "failed"}
Entry == [state : States, payload : Fields]
Panel ==
    [decision : Requests \cup {"NOT_RUN", "ERROR"}, rules : Requests \cup {"none", "error"},
     detail : Requests \cup {"none", "error"}, rest : Requests \cup {"none"}]

FormTyped == select \in Presets \cup {"custom"} /\ fields \in Fields

HistoryTyped ==
    /\ runHistory \in Seq(Requests) /\ Len(runHistory) <= HistoryLimit
    /\ results \in Seq(Requests)
    /\ Len(runHistory) <= Len(results)

PageInv ==
    /\ FormTyped /\ FormIsTestCase
    /\ request \in [Requests -> Entry]
    /\ disabled \in BOOLEAN /\ ButtonNotStuck
    /\ panel \in Panel /\ PanelIsWhole
    /\ HistoryTyped /\ HistoryIsLatest

LEMMA PageTypesNamed == PageInv => PageAgrees
    BY DEF PageInv, PageAgrees, PageTypeOK, FormTyped, HistoryTyped, Entry, States, Panel

\* What unshift makes of a list.
LEMMA PrependProperties ==
    ASSUME NEW S, NEW e \in S, NEW s \in Seq(S)
    PROVE  /\ <<e>> \o s \in Seq(S)
           /\ Len(<<e>> \o s) = Len(s) + 1
           /\ (<<e>> \o s)[1] = e
           /\ \A i \in 1..Len(s) : (<<e>> \o s)[i + 1] = s[i]
<1>1. <<e>> \in Seq(S) /\ Len(<<e>>) = 1 /\ <<e>>[1] = e
    OBVIOUS
<1>2. Len(s) \in Nat
    BY LenProperties
<1>3. /\ <<e>> \o s \in Seq(S)
      /\ Len(<<e>> \o s) = Len(s) + 1
      /\ \A i \in 1..(Len(s) + 1) :
            (<<e>> \o s)[i] = IF i <= 1 THEN <<e>>[i] ELSE s[i - 1]
    BY <1>1, <1>2, ConcatProperties
<1> QED
    BY <1>1, <1>2, <1>3

\* Two sequences are equal if they agree at every position.
LEMMA SameSequence ==
    ASSUME NEW S, NEW s \in Seq(S), NEW t \in Seq(S), Len(s) = Len(t),
           \A i \in 1..Len(s) : s[i] = t[i]
    PROVE  s = t
    BY SeqEqual

LEMMA PrefixProperties ==
    ASSUME NEW S, NEW s \in Seq(S), NEW n \in 0..Len(s)
    PROVE  /\ SubSeq(s, 1, n) \in Seq(S)
           /\ Len(SubSeq(s, 1, n)) = n
           /\ \A i \in 1..n : SubSeq(s, 1, n)[i] = s[i]
<1>1. Len(s) \in Nat
    BY LenProperties
<1> QED
    BY <1>1, SubSeqProperties

\* The list that is kept stays the beginning of the list of all results when
\* a result is put before both.
LEMMA AddHistoryKeepsLatest ==
    ASSUME PageInv, NEW r \in Requests, addHistory(r),
           results' = <<r>> \o results
    PROVE  /\ runHistory' \in Seq(Requests)
           /\ Len(runHistory') <= HistoryLimit
           /\ Len(runHistory') <= Len(results')
           /\ runHistory' = SubSeq(results', 1, Len(runHistory'))
           /\ Len(runHistory') < HistoryLimit => runHistory' = results'
<1> DEFINE longer == <<r>> \o runHistory
           n == IF Len(runHistory) >= HistoryLimit THEN HistoryLimit ELSE Len(runHistory) + 1
<1>1. /\ runHistory \in Seq(Requests) /\ results \in Seq(Requests)
      /\ Len(runHistory) \in Nat /\ Len(results) \in Nat
      /\ Len(runHistory) <= HistoryLimit
      /\ HistoryLimit \in Nat \ {0}
    BY LenProperties, HistoryLimitAssumption DEF PageInv, HistoryTyped
<1>2. /\ longer \in Seq(Requests) /\ Len(longer) = Len(runHistory) + 1
      /\ longer[1] = r
      /\ \A i \in 1..Len(runHistory) : longer[i + 1] = runHistory[i]
    BY <1>1, PrependProperties
<1>3. /\ results' \in Seq(Requests) /\ Len(results') = Len(results) + 1
      /\ results'[1] = r
      /\ \A i \in 1..Len(results) : results'[i + 1] = results[i]
    BY <1>1, PrependProperties
<1>4. Len(runHistory) <= Len(results)
    BY DEF PageInv, HistoryTyped
<1>5. \A i \in 1..Len(runHistory) : runHistory[i] = results[i]
    BY <1>1, <1>4, PrefixProperties DEF PageInv, HistoryIsLatest
<1>6. n \in 0..Len(longer) /\ runHistory' = SubSeq(longer, 1, n)
    BY <1>1, <1>2 DEF addHistory
<1>7. /\ runHistory' \in Seq(Requests) /\ Len(runHistory') = n
      /\ \A i \in 1..n : runHistory'[i] = longer[i]
    BY <1>2, <1>6, PrefixProperties
<1>8. \A i \in 1..n : runHistory'[i] = results'[i]
    <2> SUFFICES ASSUME NEW i \in 1..n PROVE longer[i] = results'[i]
        BY <1>7
    <2>1. CASE i = 1
        BY <2>1, <1>2, <1>3
    <2>2. CASE i # 1
        <3>1. i - 1 \in 1..Len(runHistory) /\ i - 1 \in 1..Len(results) /\ i = (i - 1) + 1
            BY <2>2, <1>1, <1>2, <1>4, <1>6
        <3>2. longer[i] = runHistory[i - 1] /\ results'[i] = results[i - 1]
            BY <3>1, <1>2, <1>3
        <3> QED
            BY <3>1, <3>2, <1>5
    <2> QED
        BY <2>1, <2>2
<1>9. n <= Len(results') /\ n \in Nat
    BY <1>1, <1>3, <1>4
<1>10. runHistory' = SubSeq(results', 1, n)
    <2>1. /\ SubSeq(results', 1, n) \in Seq(Requests)
          /\ Len(SubSeq(results', 1, n)) = n
          /\ \A i \in 1..n : SubSeq(results', 1, n)[i] = results'[i]
        BY <1>3, <1>9, PrefixProperties
    <2> QED
        BY <2>1, <1>7, <1>8, SameSequence
<1>11. ASSUME n < HistoryLimit PROVE runHistory' = results'
    <2>1. runHistory = results /\ n = Len(results')
        BY <1>11, <1>1, <1>3 DEF PageInv, HistoryIsLatest
    <2> QED
        BY <2>1, <1>3, <1>7, <1>8, SameSequence
<1> QED
    BY <1>1, <1>7, <1>9, <1>10, <1>11

LEMMA PageInvInitially == PageInit => PageInv
<1> SUFFICES ASSUME PageInit PROVE PageInv
    OBVIOUS
<1>1. runHistory = <<>> /\ results = <<>> /\ Len(<<>>) = 0 /\ DOMAIN <<>> = {}
    BY DEF PageInit
<1>2. FormTyped /\ FormIsTestCase /\ disabled \in BOOLEAN /\ ButtonNotStuck
    BY CleanAssumption DEF PageInit, FormTyped, Fields, FormIsTestCase, ButtonNotStuck
<1>3. request \in [Requests -> Entry]
    BY CleanAssumption DEF PageInit, Entry, States, Fields
<1>4. panel \in Panel /\ PanelIsWhole
    BY RequestsAssumption DEF PageInit, Panel, PanelIsWhole
<1>5. HistoryTyped
    BY <1>1, HistoryLimitAssumption DEF HistoryTyped
<1>6. HistoryIsLatest
    <2>1. <<>> = SubSeq(<<>>, 1, 0)
        OBVIOUS
    <2>2. Set(results) = {r \in Requests : request[r].state = "completed"}
        BY <1>1 DEF Set, PageInit
    <2> QED
        BY <1>1, <2>1, <2>2 DEF HistoryIsLatest
<1> QED
    BY <1>2, <1>3, <1>4, <1>5, <1>6 DEF PageInv

\* What is shown of the requests is as it was when they and the lists are.
LEMMA SameRequests ==
    ASSUME PageInv, UNCHANGED <<request, disabled, runHistory, results>>
    PROVE  /\ request' \in [Requests -> Entry]
           /\ disabled' \in BOOLEAN /\ ButtonNotStuck'
           /\ HistoryTyped' /\ HistoryIsLatest'
BY DEF PageInv, ButtonNotStuck, HistoryTyped, HistoryIsLatest, Set

\* The form has its fields rewritten, or its test case chosen; nothing else moves.
LEMMA FormKeeps ==
    ASSUME PageInv, (\E name \in Presets \cup {"custom"} : SelectTestCase(name)) \/ Edit
    PROVE  PageInv'
<1>1. UNCHANGED <<request, disabled, panel, runHistory, results>>
    BY DEF SelectTestCase, Edit
<1>2. FormTyped' /\ FormIsTestCase'
    BY DEF PageInv, FormTyped, FormIsTestCase, SelectTestCase, ApplyPreset, Edit, Fields
<1>3. panel' \in Panel /\ PanelIsWhole'
    BY <1>1 DEF PageInv, PanelIsWhole
<1> QED
    BY <1>1, <1>2, <1>3, SameRequests DEF PageInv

\* A panel that shows one request in all its parts.
LEMMA PanelShows ==
    ASSUME NEW r \in Requests,
           panel' = [decision |-> r, rules |-> r, detail |-> r, rest |-> r]
    PROVE  panel' \in Panel /\ PanelIsWhole'
BY DEF Panel, PanelIsWhole

\* A replay fills the form from a request that has completed.
LEMMA ReplayKeeps ==
    ASSUME PageInv, NEW i \in 1..HistoryLimit, Replay(i)
    PROVE  PageInv'
<1>1. /\ UNCHANGED <<request, disabled, runHistory, results>>
      /\ i \in DOMAIN runHistory
      /\ select' = "custom" /\ fields' = request[runHistory[i]].payload
      /\ panel' = [decision |-> runHistory[i], rules |-> runHistory[i],
                   detail |-> runHistory[i], rest |-> runHistory[i]]
    BY DEF Replay, renderResult
<1>2. runHistory[i] \in Requests
    BY <1>1, ElementOfSeq, LenProperties DEF PageInv, HistoryTyped
<1>3. request[runHistory[i]] \in Entry
    BY <1>2 DEF PageInv
<1>4. FormTyped' /\ FormIsTestCase'
    BY <1>1, <1>3 DEF Entry, FormTyped, FormIsTestCase
<1> QED
    BY <1>1, <1>2, <1>4, SameRequests, PanelShows DEF PageInv

\* A request is sent, fails, or fails before it is sent: it was not completed
\* and is not, so that the results stay as they were.
LEMMA RequestKeeps ==
    ASSUME PageInv, NEW r \in Requests, SendInvalid(r) \/ SendRequest(r) \/ Fail(r)
    PROVE  PageInv'
<1>1. /\ UNCHANGED <<form, runHistory, results>>
      /\ request[r].state # "completed"
    BY DEF SendInvalid, SendRequest, Fail
<1>2. PICK entry \in Entry :
        entry.state \in {"fetching", "failed"} /\ request' = [request EXCEPT ![r] = entry]
    <2>1. request[r] \in Entry /\ fields \in Fields
        BY DEF PageInv, FormTyped
    <2>2. CASE SendInvalid(r)
        BY <2>1, <2>2 DEF SendInvalid, Entry, States
    <2>3. CASE SendRequest(r)
        BY <2>1, <2>3 DEF SendRequest, Entry, States
    <2>4. CASE Fail(r)
        BY <2>1, <2>4 DEF Fail, Entry, States
    <2> QED
        BY <2>2, <2>3, <2>4
<1>3. /\ request' \in [Requests -> Entry]
      /\ request'[r] = entry
      /\ \A q \in Requests \ {r} : request'[q] = request[q]
    BY <1>2 DEF PageInv
<1>4. panel' \in Panel /\ PanelIsWhole'
    <2>1. CASE panel' = panel
        BY <2>1 DEF PageInv, PanelIsWhole
    <2>2. CASE panel' = [panel EXCEPT !.decision = "ERROR", !.rules = "error", !.detail = "error"]
        BY <2>2, RequestsAssumption DEF PageInv, Panel, PanelIsWhole
    <2> QED
        BY <2>1, <2>2 DEF SendInvalid, SendRequest, Fail, ShowError
<1>5. disabled' \in BOOLEAN /\ ButtonNotStuck'
    <2>1. CASE SendRequest(r)
        BY <2>1, <1>3 DEF SendRequest, ButtonNotStuck, PageInv
    <2>2. CASE SendInvalid(r) \/ Fail(r)
        BY <2>2 DEF SendInvalid, Fail, ButtonNotStuck
    <2> QED
        BY <2>1, <2>2
<1>6. {q \in Requests : request'[q].state = "completed"}
        = {q \in Requests : request[q].state = "completed"}
    BY <1>1, <1>2, <1>3
<1>7. HistoryTyped' /\ HistoryIsLatest'
    BY <1>1, <1>6 DEF PageInv, HistoryTyped, HistoryIsLatest, Set
<1>8. FormTyped' /\ FormIsTestCase'
    BY <1>1 DEF form, PageInv, FormTyped, FormIsTestCase
<1> QED
    BY <1>3, <1>4, <1>5, <1>7, <1>8 DEF PageInv

\* A result comes for a request under way: it is new, and becomes the newest.
LEMMA ReceiveResultKeeps ==
    ASSUME PageInv, NEW r \in Requests, ReceiveResult(r)
    PROVE  PageInv'
<1>1. /\ request[r].state = "fetching" /\ UNCHANGED form /\ disabled' = FALSE
      /\ request' = [request EXCEPT ![r].state = "completed"]
      /\ results' = <<r>> \o results
      /\ addHistory(r)
      /\ panel' = [decision |-> r, rules |-> r, detail |-> r, rest |-> r]
    BY DEF ReceiveResult, renderResult
<1>2. /\ results \in Seq(Requests) /\ Len(results) \in Nat
      /\ Set(results) = {q \in Requests : request[q].state = "completed"}
      /\ \A i, j \in DOMAIN results : results[i] = results[j] => i = j
    BY LenProperties DEF PageInv, HistoryTyped, HistoryIsLatest
<1>3. /\ results' \in Seq(Requests) /\ Len(results') = Len(results) + 1
      /\ results'[1] = r
      /\ \A i \in 1..Len(results) : results'[i + 1] = results[i]
    BY <1>1, <1>2, PrependProperties
<1>4. DOMAIN results = 1..Len(results) /\ DOMAIN results' = 1..(Len(results) + 1)
    BY <1>2, <1>3, LenProperties
<1>5. \A i \in 1..(Len(results) + 1) :
        i = 1 \/ (i - 1 \in 1..Len(results) /\ results'[i] = results[i - 1])
    <2> SUFFICES ASSUME NEW i \in 1..(Len(results) + 1), i # 1
                 PROVE  i - 1 \in 1..Len(results) /\ results'[i] = results[i - 1]
        OBVIOUS
    <2>1. i - 1 \in 1..Len(results) /\ i = (i - 1) + 1
        BY <1>2
    <2> QED
        BY <2>1, <1>3
<1>6. \A i \in 1..Len(results) : results[i] # r
    <2> SUFFICES ASSUME NEW i \in 1..Len(results), results[i] = r PROVE FALSE
        OBVIOUS
    <2>1. r \in Set(results)
        BY <1>4 DEF Set
    <2> QED
        BY <2>1, <1>1, <1>2
<1>7. /\ request' \in [Requests -> Entry]
      /\ request'[r].state = "completed"
      /\ \A q \in Requests \ {r} : request'[q] = request[q]
    BY <1>1 DEF PageInv, Entry, States
<1>8. Set(results') = {q \in Requests : request'[q].state = "completed"}
    <2>1. Set(results') = Set(results) \cup {r}
        <3>1. \A i \in DOMAIN results' : results'[i] \in Set(results) \cup {r}
            BY <1>3, <1>4, <1>5 DEF Set
        <3>2. \A i \in DOMAIN results : results[i] \in Set(results')
            <4> SUFFICES ASSUME NEW i \in 1..Len(results) PROVE results[i] \in Set(results')
                BY <1>4
            <4>1. i + 1 \in DOMAIN results' /\ results'[i + 1] = results[i]
                BY <1>2, <1>3, <1>4
            <4> QED
                BY <4>1 DEF Set
        <3>3. r \in Set(results')
            <4>1. 1 \in DOMAIN results'
                BY <1>2, <1>4
            <4> QED
                BY <4>1, <1>3 DEF Set
        <3> QED
            BY <3>1, <3>2, <3>3 DEF Set
    <2> QED
        BY <2>1, <1>2, <1>7
<1>9. \A i, j \in DOMAIN results' : results'[i] = results'[j] => i = j
    <2> SUFFICES ASSUME NEW i \in 1..(Len(results) + 1), NEW j \in 1..(Len(results) + 1),
                        results'[i] = results'[j]
                 PROVE  i = j
        BY <1>4
    <2>1. CASE i = 1 \/ j = 1
        BY <2>1, <1>3, <1>5, <1>6
    <2>2. CASE i # 1 /\ j # 1
        <3>1. /\ i - 1 \in DOMAIN results /\ results'[i] = results[i - 1]
              /\ j - 1 \in DOMAIN results /\ results'[j] = results[j - 1]
            BY <2>2, <1>4, <1>5
        <3>2. i - 1 = j - 1
            BY <3>1, <1>2
        <3> QED
            BY <3>2
    <2> QED
        BY <2>1, <2>2
<1>10. HistoryIsLatest'
    BY <1>1, <1>8, <1>9, AddHistoryKeepsLatest DEF HistoryIsLatest
<1>11. HistoryTyped'
    BY <1>1, <1>3, AddHistoryKeepsLatest DEF HistoryTyped
<1>12. FormTyped' /\ FormIsTestCase'
    BY <1>1 DEF form, PageInv, FormTyped, FormIsTestCase
<1>13. disabled' \in BOOLEAN /\ ButtonNotStuck'
    BY <1>1 DEF ButtonNotStuck
<1> QED
    BY <1>1, <1>7, <1>10, <1>11, <1>12, <1>13, PanelShows DEF PageInv

LEMMA PageInvInductive == PageInv /\ [PageNext]_page => PageInv'
<1> SUFFICES ASSUME PageInv, [PageNext]_page PROVE PageInv'
    OBVIOUS
<1>1. CASE UNCHANGED page
    BY <1>1, SameRequests DEF page, PageInv, PanelIsWhole, FormTyped, FormIsTestCase
<1> QED
    BY <1>1, FormKeeps, ReplayKeeps, RequestKeeps, ReceiveResultKeeps DEF PageNext

LEMMA PageInvariance == PageSpec => []PageInv
BY PageInvInitially, PageInvInductive, PTL DEF PageSpec

\* Whatever overlaps, what the page shows belongs together: the parts of the
\* panel are of one result, a disabled button waits for a request that is
\* under way, the form holds the test case it names, and the history is the
\* latest results, newest first, each once.
THEOREM PageStaysTogether == PageSpec => []PageAgrees
BY PageTypesNamed, PageInvariance, PTL
=============================================================================
