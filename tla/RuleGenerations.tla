--------------------------- MODULE RuleGenerations ---------------------------
(***************************************************************************)
(* Compiled rule generations: how an update of the filter's configuration  *)
(* becomes one on the main thread, reaches the workers, is pinned by the   *)
(* transactions of their streams, and is destroyed by whichever thread     *)
(* drops the last reference.                                               *)
(*                                                                         *)
(* A generation and the FilterConfig that owns it are named by the         *)
(* generation's identifier; 0 is a null pointer.  std::shared_ptr is       *)
(* modelled by its counts, and destruction by the operators below: they    *)
(* take the memory before a reference is dropped to the memory after it.   *)
(* Publication to the workers is Envoy's: the main thread keeps the new    *)
(* factory callback and posts a copy of it to each worker's dispatcher.    *)
(***************************************************************************)
EXTENDS Naturals, Sequences, FiniteSets

CONSTANTS
    Workers,
    Streams,
    Updates,        \* the ModSecurity messages a control plane may send
    Main,           \* the main thread
    MaxGenerations  \* bound: the rule sets compiled

Ids == 1..MaxGenerations
RuleEngineModes == {"Enabled", "DetectionOnly", "Disabled", "Unspecified"}

Update ==
    [well_formed : BOOLEAN,             \* the checks before compilation pass
     loads : BOOLEAN,                   \* the engine accepts every source
     rule_engine_mode : RuleEngineModes,
     request_body_max_bytes : Nat,
     response : BOOLEAN,                \* has_response
     response_body_max_bytes : Nat,
     max_active_body_bytes : Nat]

ASSUME WorkersAssumption == IsFiniteSet(Workers) /\ Main \notin Workers
ASSUME StreamsAssumption == IsFiniteSet(Streams)
ASSUME UpdatesAssumption == Updates \subseteq Update
ASSUME MaxGenerationsAssumption == MaxGenerations \in Nat

Threads == Workers \cup {Main}

VARIABLES
    next_generation_id,
    making,         \* makeConfig on the main thread
    memory,         \* reference counts, and what has been destroyed
    contents,       \* the message each FilterConfig was made from
    callback,       \* the FilterConfig of each thread's factory callback
    posted,         \* the callbacks posted to each worker
    stream          \* the Filter of each stream

vars == <<next_generation_id, making, memory, contents, callback, posted, stream>>

Idle == [step |-> "idle", update |-> 0, generation |-> 0]

NoStream ==
    [step |-> "none", worker |-> Main, config |-> 0, native |-> 0, pinned |-> 0,
     rule_generation_id |-> 0, rule_engine_mode |-> "Unspecified", destroyed |-> FALSE]

-----------------------------------------------------------------------------
(* References *)

DropRuntime(m) ==
    [m EXCEPT !.runtime = @ - 1, !.runtime_freed = (m.runtime = 1)]

\* ~RuleGenerationImpl destroys the rules before it drops the runtime.
DropGeneration(m, g) ==
    LET left == [m EXCEPT !.generations[g] = @ - 1] IN
    IF left.generations[g] # 0
    THEN left
    ELSE DropRuntime([left EXCEPT !.freed = @ \cup {g}])

\* Fault: the generation outlives the configuration that owned it.
DropConfigOnly(m, c) ==
    LET left == [m EXCEPT !.configs[c] = @ - 1] IN
    IF c = 0 THEN m
    ELSE IF left.configs[c] # 0 THEN left
         ELSE [left EXCEPT !.active_rule_generations = @ - 1]

\* ~FilterConfig, when the reference is the last one; nothing for a null one.
DropConfig(m, c) ==
    LET left == [m EXCEPT !.configs[c] = @ - 1] IN
    IF c = 0 THEN m
    ELSE IF left.configs[c] # 0 THEN left
         ELSE DropGeneration([left EXCEPT !.active_rule_generations = @ - 1], c)

PinGeneration(m, g) == [m EXCEPT !.generations[g] = @ + 1]

HoldConfig(m, c, n) == [m EXCEPT !.configs[c] = @ + n]

-----------------------------------------------------------------------------
(* The main thread: makeConfig *)

ReceiveUpdate ==
    /\ making.step = "idle"
    /\ \E update \in Updates :
        making' = [step |-> "received", update |-> update, generation |-> 0]
    /\ UNCHANGED <<next_generation_id, memory, contents, callback, posted, stream>>

\* A status before compile, or from it: the update is not acknowledged.
Reject ==
    /\ making.step = "received"
    /\ making' = Idle
    /\ UNCHANGED <<next_generation_id, memory, contents, callback, posted, stream>>

\* An identifier is consumed before the rest of the message is checked.
Compile ==
    /\ making.step = "received" /\ making.update.well_formed /\ making.update.loads
    /\ next_generation_id <= MaxGenerations
    /\ making' = [making EXCEPT !.step = "compiled", !.generation = next_generation_id]
    /\ memory' = [memory EXCEPT !.generations[next_generation_id] = 1,
                                !.runtime = @ + 1]
    /\ next_generation_id' = next_generation_id + 1
    /\ UNCHANGED <<contents, callback, posted, stream>>

\* Fault: the response body is forgotten.
LargestBodyLimitOfRequest(u) == u.request_body_max_bytes

LargestBodyLimit(u) ==
    IF u.response /\ u.response_body_max_bytes > u.request_body_max_bytes
    THEN u.response_body_max_bytes
    ELSE u.request_body_max_bytes

BudgetTooSmall(u) == u.max_active_body_bytes < LargestBodyLimit(u)

\* The candidate generation is destroyed with makeConfig's frame.
DiscardCandidate ==
    /\ making.step = "compiled" /\ BudgetTooSmall(making.update)
    /\ making' = Idle
    /\ memory' = DropGeneration(memory, making.generation)
    /\ UNCHANGED <<next_generation_id, contents, callback, posted, stream>>

\* FilterConfig takes over the candidate; the factory callback holds it.
MakeConfig ==
    /\ making.step = "compiled" /\ ~ BudgetTooSmall(making.update)
    /\ making' = [making EXCEPT !.step = "made"]
    /\ memory' = [memory EXCEPT !.configs[making.generation] = 1,
                                !.active_rule_generations = @ + 1]
    /\ contents' = [contents EXCEPT ![making.generation] = making.update]
    /\ UNCHANGED <<next_generation_id, callback, posted, stream>>

\* Envoy keeps the callback and posts a copy of it to every worker.
Publish ==
    /\ making.step = "made"
    /\ making' = Idle
    /\ callback' = [callback EXCEPT ![Main] = making.generation]
    /\ posted' = [w \in Workers |-> Append(posted[w], making.generation)]
    /\ memory' = DropConfig(HoldConfig(memory, making.generation, Cardinality(Workers)),
                            callback[Main])
    /\ UNCHANGED <<next_generation_id, contents, stream>>

-----------------------------------------------------------------------------
(* The workers *)

\* No handler of a stream of the worker is running.
Waiting(w) ==
    \A s \in Streams :
        stream[s].worker = w => stream[s].step \notin {"creating", "releasing"}

WorkerTakes(w) ==
    /\ Waiting(w)
    /\ posted[w] # <<>>
    /\ callback' = [callback EXCEPT ![w] = Head(posted[w])]
    /\ posted' = [posted EXCEPT ![w] = Tail(@)]
    /\ memory' = DropConfig(memory, callback[w])
    /\ UNCHANGED <<next_generation_id, making, contents, stream>>

UpdateStream(s, new) ==
    /\ stream' = [stream EXCEPT ![s] = new]
    /\ UNCHANGED <<next_generation_id, making, contents, callback, posted>>

\* Fault: the mode is the one most recently accepted.
OpenStreamLatestMode(s, w) ==
    LET c == callback[w] IN
    /\ Waiting(w) /\ c # 0
    /\ stream[s].step = "none"
    /\ memory' = HoldConfig(memory, c, 1)
    /\ UpdateStream(s, [NoStream EXCEPT
            !.step = "opened", !.worker = w, !.config = c,
            !.rule_engine_mode = contents[callback[Main]].rule_engine_mode])

\* The constructor of Filter.
OpenStream(s, w) ==
    LET c == callback[w] IN
    /\ Waiting(w) /\ c # 0
    /\ stream[s].step = "none"
    /\ memory' = HoldConfig(memory, c, 1)
    /\ UpdateStream(s, [NoStream EXCEPT
            !.step = "opened", !.worker = w, !.config = c,
            !.rule_engine_mode = contents[c].rule_engine_mode])

\* decodeHeaders of a stream whose route disables the filter.
Disable(s) ==
    /\ stream[s].step = "opened" /\ ~ stream[s].destroyed /\ Waiting(stream[s].worker)
    /\ memory' = DropConfig(memory, stream[s].config)
    /\ UpdateStream(s, [stream[s] EXCEPT !.step = "done", !.config = 0])

\* Fault: the transaction is created from what the worker now gives to new streams.
CreateTransactionLatest(s) ==
    LET g == callback[stream[s].worker] IN
    /\ stream[s].step = "opened" /\ ~ stream[s].destroyed /\ Waiting(stream[s].worker)
    /\ memory' = PinGeneration(memory, g)
    /\ UpdateStream(s, [stream[s] EXCEPT !.step = "creating", !.rule_generation_id = g,
                                         !.native = g, !.pinned = g])

\* The first half of createTransaction: the transaction pins the generation.
CreateTransaction(s) ==
    LET g == stream[s].config IN
    /\ stream[s].step = "opened" /\ ~ stream[s].destroyed /\ Waiting(stream[s].worker)
    /\ memory' = PinGeneration(memory, g)
    /\ UpdateStream(s, [stream[s] EXCEPT !.step = "creating", !.rule_generation_id = g,
                                         !.native = g, !.pinned = g])

\* ... or it cannot be created.
TransactionFails(s) ==
    /\ stream[s].step = "opened" /\ ~ stream[s].destroyed /\ Waiting(stream[s].worker)
    /\ UNCHANGED memory
    /\ UpdateStream(s, [stream[s] EXCEPT !.step = "creating",
                                         !.rule_generation_id = stream[s].config])

\* Fault: the configuration is kept until the filter is destroyed.
ResetConfigNot(s) ==
    /\ stream[s].step = "creating"
    /\ UNCHANGED memory
    /\ UpdateStream(s, [stream[s] EXCEPT
            !.step = IF stream[s].native = 0 THEN "done" ELSE "inspecting"])

\* The second half of createTransaction: config_.reset().
ResetConfig(s) ==
    /\ stream[s].step = "creating"
    /\ memory' = DropConfig(memory, stream[s].config)
    /\ UpdateStream(s, [stream[s] EXCEPT
            !.step = IF stream[s].native = 0 THEN "done" ELSE "inspecting",
            !.config = 0])

\* Fault: the members are declared in the other order.
ReleaseGenerationFirst(s) ==
    /\ stream[s].step = "inspecting" /\ Waiting(stream[s].worker)
    /\ memory' = DropGeneration(memory, stream[s].pinned)
    /\ UpdateStream(s, [stream[s] EXCEPT !.step = "done", !.pinned = 0])

\* releaseResources destroys the native transaction before the generation it
\* points into: the order of the members of TransactionImpl.
Release(s) ==
    /\ stream[s].step = "inspecting" /\ Waiting(stream[s].worker)
    /\ UNCHANGED memory
    /\ UpdateStream(s, [stream[s] EXCEPT !.step = "releasing", !.native = 0])

Unpin(s) ==
    /\ stream[s].step = "releasing"
    /\ memory' = DropGeneration(memory, stream[s].pinned)
    /\ UpdateStream(s, [stream[s] EXCEPT !.step = "done", !.pinned = 0])

\* onDestroy of a stream that holds no transaction; one that does releases it
\* first.
OnDestroy(s) ==
    /\ stream[s].step \in {"opened", "done"} /\ ~ stream[s].destroyed
    /\ Waiting(stream[s].worker)
    /\ UNCHANGED memory
    /\ UpdateStream(s, [stream[s] EXCEPT !.destroyed = TRUE])

\* ~Filter, which Envoy defers.
DeleteFilter(s) ==
    /\ stream[s].destroyed /\ Waiting(stream[s].worker)
    /\ memory' = DropConfig(memory, stream[s].config)
    /\ UpdateStream(s, NoStream)

\* The singleton manager is destroyed with the server.  A server that never
\* published a configuration has nothing left to do then, and is left out.
ServerExits ==
    /\ memory.singleton /\ making.step = "idle" /\ callback[Main] # 0
    /\ memory' = DropRuntime([memory EXCEPT !.singleton = FALSE])
    /\ UNCHANGED <<next_generation_id, making, contents, callback, posted, stream>>

-----------------------------------------------------------------------------

NoContents ==
    [well_formed |-> FALSE, loads |-> FALSE, rule_engine_mode |-> "Unspecified",
     request_body_max_bytes |-> 0, response |-> FALSE, response_body_max_bytes |-> 0,
     max_active_body_bytes |-> 0]

Init ==
    /\ next_generation_id = 1
    /\ making = Idle
    /\ memory = [configs |-> [c \in Ids |-> 0], generations |-> [g \in Ids |-> 0],
                 runtime |-> 1, singleton |-> TRUE, runtime_freed |-> FALSE,
                 freed |-> {}, active_rule_generations |-> 0]
    /\ contents = [c \in Ids |-> NoContents]
    /\ callback = [t \in Threads |-> 0]
    /\ posted = [w \in Workers |-> <<>>]
    /\ stream = [s \in Streams |-> NoStream]

MainNext ==
    \/ ReceiveUpdate \/ Reject \/ Compile \/ DiscardCandidate \/ MakeConfig \/ Publish
    \/ ServerExits

StreamNext(s) ==
    \/ \E w \in Workers : OpenStream(s, w)
    \/ Disable(s) \/ CreateTransaction(s) \/ TransactionFails(s) \/ ResetConfig(s)
    \/ Release(s) \/ Unpin(s) \/ OnDestroy(s) \/ DeleteFilter(s)

Next ==
    \/ MainNext
    \/ \E w \in Workers : WorkerTakes(w)
    \/ \E s \in Streams : StreamNext(s)

\* What takes a stream to its end.
Advance(s) == ResetConfig(s) \/ Release(s) \/ Unpin(s) \/ OnDestroy(s) \/ DeleteFilter(s)

\* Handlers return, and the event loop of a worker gets to everything that
\* waits for it between handlers of other streams: what is posted to it, and
\* the steps to the end of each of its streams, which Envoy bounds by timeouts.
Fairness ==
    /\ \A w \in Workers : SF_vars(WorkerTakes(w))
    /\ \A s \in Streams : SF_vars(Advance(s))

Spec == Init /\ [][Next]_vars

FairSpec == Spec /\ Fairness

-----------------------------------------------------------------------------
(* Properties *)

Updating == making.step # "idle"

TypeOK ==
    /\ next_generation_id \in 1..MaxGenerations + 1
    /\ making.step \in {"idle", "received", "compiled", "made"}
    /\ Updating => making.update \in Update
    /\ making.generation \in 0..MaxGenerations
    /\ memory \in [configs : [Ids -> Nat], generations : [Ids -> Nat], runtime : Nat,
                    singleton : BOOLEAN, runtime_freed : BOOLEAN, freed : SUBSET Ids,
                    active_rule_generations : Nat]
    /\ contents \in [Ids -> Update]
    /\ callback \in [Threads -> 0..MaxGenerations]
    /\ posted \in [Workers -> Seq(Ids)]
    /\ stream \in [Streams ->
            [step : {"none", "opened", "creating", "inspecting", "releasing", "done"},
             worker : Threads, config : 0..MaxGenerations, native : 0..MaxGenerations,
             pinned : 0..MaxGenerations, rule_generation_id : 0..MaxGenerations,
             rule_engine_mode : RuleEngineModes, destroyed : BOOLEAN]]

\* A native transaction never outlives the rules and the runtime it points
\* into, whichever thread drops the last reference to them.
NativeAlive ==
    \A s \in Streams :
        stream[s].native # 0 => stream[s].native \notin memory.freed /\ ~ memory.runtime_freed

\* The rule_generation and rule_engine_mode a stream reports are those of the
\* rules its transaction runs.
EventTellsRules ==
    \A s \in Streams :
        stream[s].native # 0 =>
            /\ stream[s].rule_generation_id = stream[s].native
            /\ stream[s].rule_engine_mode = contents[stream[s].native].rule_engine_mode

\* The configurations somebody can still open or start a stream with.
Usable ==
    {c \in Ids :
        \/ making.step = "made" /\ making.generation = c
        \/ \E t \in Threads : callback[t] = c
        \/ \E w \in Workers : \E i \in DOMAIN posted[w] : posted[w][i] = c
        \/ \E s \in Streams : stream[s].step \in {"opened", "creating"} /\ stream[s].config = c}

Needed ==
    Usable \cup {stream[s].pinned : s \in Streams}
           \cup IF making.step = "compiled" THEN {making.generation} ELSE {}

\* Old streams keep alive no more than the rules they run: a configuration is
\* destroyed as soon as no stream can start with it, the gauge counts the
\* others, and a generation is destroyed as soon as nobody needs it.
NothingRetained ==
    /\ memory.active_rule_generations = Cardinality(Usable)
    /\ \A g \in Ids : g < next_generation_id => (g \in memory.freed <=> g \notin Needed)

\* The references are counted exactly: no count falls below zero, and nothing
\* that is still referred to, or no longer is, is taken for the opposite.
ReferencesExact == TypeOK /\ NothingRetained

\* The budget of a configuration that streams get admits the largest body its
\* own limits admit.
BudgetAdmitsBodies ==
    \A c \in Usable :
        /\ contents[c].well_formed /\ contents[c].loads
        /\ contents[c].request_body_max_bytes <= contents[c].max_active_body_bytes
        /\ contents[c].response =>
                contents[c].response_body_max_bytes <= contents[c].max_active_body_bytes

\* A generation that has been superseded is destroyed in the end.  The last
\* one of the bound is not superseded.
SupersededIsFreed ==
    \A g \in 1..(MaxGenerations - 1) : callback[Main] > g ~> g \in memory.freed

-----------------------------------------------------------------------------
(* The configuration delivery it implements *)

\* What has been published: the rest have been discarded or not yet made.
Accepted ==
    {c \in Ids : c < next_generation_id /\ contents[c] # NoContents
                 /\ ~ (making.step = "made" /\ making.generation = c)}

onWorkerBar == [w \in Workers |-> callback[w]]

\* A stream is inspected by the rules it holds the configuration of, then by
\* those its transaction points into.
onStreamBar ==
    [s \in Streams |->
        IF stream[s].config # 0 THEN stream[s].config ELSE stream[s].native]

Delivery == INSTANCE RuleDelivery
    WITH Versions <- Ids, accepted <- Accepted, onWorker <- onWorkerBar, onStream <- onStreamBar

ImplementsDelivery == Delivery!Spec
=============================================================================
