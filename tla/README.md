# envoy-modsecurity in TLA+

A TLA+ model of this repository: the Envoy HTTP filter, the check of its inline
rules, and the three tools that run it against the OWASP Core Rule Set. The
modules, the TLC configurations that check them on small instances, and proofs
checked by TLAPS.
Paths below are relative to the repository root; `filter.cc`, `filter_config.cc`
and `config.cc` are under `source/extensions/filters/http/modsecurity/`.

## 1. The system

| Component | State it keeps | Operations | What makes it correct |
| --- | --- | --- | --- |
| Stream filter (`filter.cc`, `filter.h`) | one `Filter` per HTTP stream: settings, the native transaction, body progress, verdict, four one-way flags (`local_reply_`, `logging_finished_`, `security_event_published_`, `resources_released_`) | the filter manager's decode and encode callbacks, `onStreamComplete`, `onDestroy` | nothing is forwarded before its verdict; nothing denied is forwarded; every path releases everything exactly once; one truthful event per notable stream; phases in order |
| Body memory budget (`filter_config.cc`) | one atomic counter per filter configuration, shared by all its streams on all workers | `tryReserve`, `release` | the counter is what the streams hold; never above the limit; never underflows; refuses only what does not fit |
| Route settings (`filter_config.cc`, `config.cc`) | immutable overrides | `RouteConfig::apply`, `routeConfig` | the effective limits and the disabled flag are those of the most specific route |
| Engine adapter: transactions (`source/engine/transaction.cc`, `exception.h`) | the native transaction, pinning its generation | one wrapper per native call | every failure and exception becomes a status; exhaustion is told apart from other errors |
| Engine adapter: runtime and generations (`source/engine/engine.cc`) | generation counter, compiled rule sets | `compile`, `createTransaction` | identifiers are unique and increase; a generation outlives its transactions |
| Filter configuration and ECDS (`config.cc`) | published configuration, runtime singleton | `makeConfig`, `routeConfig`, factories | a rejected update leaves the last good one published; old streams finish on the generation they began with |
| Inline rule policy (`source/engine/rules.cc`) | none (a lexer) | `validateRuleSources` | no denied capability reaches the parser unseen through quoting, continuations or comments |
| OWASP CRS lab (`tools/owasp-crs-lab.py`) | the echo upstream and its thread, the Envoy it starts, the work directory with configuration, address file and log, the UI server; in the page, the form, the panel and the history | `start`, `serve`, `stop`; `do_POST` and `execute_request`, one thread for each call; the page's listeners | a stop at any point releases what was acquired; a call tells of its own request; panel, history and form agree |
| CRS compatibility report (`tools/crs-compatibility-report.py`) | Albedo, Envoy and go-ftw as processes; the results of go-ftw; the evidence files | `run`, `qualification_failures`, `classify_failures`, `result_rows`, `write_report` | a run qualifies exactly when its results are complete; evidence and exit status agree; no process is left that could be stopped |
| Qualification benchmark (`tools/qualification-benchmark.py`) | Envoy, pools of client threads, measurements, thresholds | `main`, `run_workload`, `zero_modsecurity_gauges`, `percentile` | no request is forgotten; memory is compared when the filter is quiet; a pass is earned; Envoy is stopped |
| Build scripts, executable | none | | |

Envoy, libmodsecurity and the Core Rule Set are submodules whose contents are
not in the repository, and neither are go-ftw and Albedo. They are modelled from
how the code uses them and marked external.

How they interact: Envoy's filter manager calls the filter of a stream, always
from the one worker thread that owns the stream. The filter calls the engine
adapter, which may answer any call with an error or leave an intervention. The
filter charges body bytes to the budget it shares with streams on other
workers. It answers a stream itself with `sendLocalReply`, a call *into* Envoy,
which may call back into the same filter before it returns. The tools start an
Envoy with the filter, learn its admin address from a file it writes and its
listener from the admin interface, send it requests, and read what the filter
did from its access log, its audit log or its gauges.

What is hard to test: interleavings of the two CAS loops; callbacks that run
inside `sendLocalReply`; a response that arrives before its request is complete
or was ever decoded; an engine error on the second chunk of a body; a verdict
reached while an earlier one is still being carried out; contention that
refuses a reservation in the middle of a body. In the tools: a failure, a
Ctrl+C or a kill between any two steps, with processes that may not die when
told to; files that an earlier run left; answers and log entries that come late
or out of order; results that are incomplete in a way that adds up.
`PROJECT.json` lists each hazard at its line with the properties that guard it.

## 2. Modules

| Module | Models |
| --- | --- |
| `HeldBytes` | the number of bytes a set of streams holds, as the cardinality of a set of byte tokens, so that sums can be reasoned about without recursion |
| `BodyMemoryBudget` | abstract: an atomic budget. A reservation takes effect at one instant between call and return, is granted iff it fits then, and refused iff it does not |
| `BodyMemoryBudgetCas` | detailed: `tryReserve` and `release` as loads, checks and weak compare-and-swaps over a uint64 (`% Modulus`), with `reserveBodyBytes` and `releaseResources` as the clients. Shown to implement `BodyMemoryBudget` |
| `BodyMemoryBudget_proofs` | proofs: the number of bytes held, the budget, the refinement |
| `Filter` | one stream: the `Filter` object, the native transaction, the shared budget, and the filter manager |
| `FilterProperties` | what the filter promises |
| `Filter_proofs` | proofs: resources, the verdict, inspection |
| `RuleDelivery` | abstract: what ECDS promises a stream. One accepted version from its first callback to its last; workers only move to later versions |
| `RuleGenerations` | detailed: `makeConfig` step by step, publication to the workers, and the reference counts of configurations, generations and the runtime. Shown to implement `RuleDelivery` |
| `RuleGenerations_proofs` | proofs: what streams run and report, the refinement, the reference counts |
| `InlineRules` | `validateRuleSources`, and `validateInlineSource` character by character |
| `InlineRules_proofs` | proofs: what a source that passed may say, and what one was denied for |
| `LabRuntime` | the lab as a sequence of runs of its tool: `start`, `serve`, `stop`, the upstream's thread, Envoy and the files a run leaves to the next |
| `LabRequests` | concurrent calls of the lab's web API, Envoy's streams and the access log between them |
| `LabPage` | the script of the lab's page: form, requests, panel and history |
| `LabRuntime_proofs`, `LabWeb_proofs` | proofs: of the lab's runs, and of its web API and page |
| `CompatibilityVerdict` | what the report makes of any result of go-ftw |
| `CompatibilityRun` | the report as a sequence of runs over one output directory: processes, failures and evidence files |
| `CompatibilityReport_proofs` | proofs about both |
| `Percentile` | ranks and percentiles over latencies of three classes |
| `QualificationBenchmark`, `QualificationBenchmark_proofs` | the benchmark, its pools of clients and the Envoy they measure, and proofs |
| `MC...` | instances for TLC; the modules without one are run themselves |

### `BodyMemoryBudgetCas`

`used` is `BodyMemoryBudget::used_`; `pc`, `bytes` and `current` are the
position, argument and local variable of each stream's loop; `charged` is
`Filter::charged_body_bytes_`. A failed `compare_exchange_weak`, spurious or
not, reloads `current` and goes back to the check. The check itself is a step of
its own, and so is the client's bookkeeping after the call returns. In the
refinement mapping a swap takes effect at once (`heldBar`), and a reservation is
refused at the *load* of a value it does not fit, one step before the loop finds
out (`phaseBar`): by the time the loop compares, the counter may have dropped
again, and only the load is an instant at which the refusal was right.

### `Filter`

`filter` is a record of the members of the class together with what its
pointers reach (the budget's counter `used`, this stream's share of the
counters and gauges) and three histories (`phases`, `appended`, `inspected`:
what the native engine was given; `events`: the dynamic metadata written).
`message`, `arrived` and `life` are the filter manager's view of the stream,
`flow` is what became of the request and of the response: not seen, held by the
filter, forwarded, or replaced by the filter's own reply. `others` is what the
rest of the configuration's streams hold of the budget.

Each helper of the class is an operator from the record before the call to the
record after it, with the name of the method; the nondeterminism of the engine
makes some of them sets of results. Each callback is one action, because the
callbacks of a stream run one after another on its worker. A handler makes a
sequence of engine calls until the first that is not answered with success and
no intervention; `Stop` is what it does then (`evaluate`, `checkIntervention`).

`sendLocalReply` is the exception: filter.cc:197 notes that it "can complete the
stream and run access loggers synchronously". A handler that replies stops with
`filter.replying` set; encode callbacks of the reply, `OnStreamComplete` and
`OnDestroy` may happen there; `LocalReplyReturns` is the rest of the handler.
What has to come before the reply is therefore visible: `LoggedInTime` asks, in
every state inside the call, that the event is out and, for an intervention,
that phase 5 has run.

`VerdictTold` has four parts. `VerdictReported`: how many events there are and
when there must be one. `EventTells`: outcome, reason and phase of the event are
those of the stream's verdict, or what stands for them when phase 5 alone had
something to say, and an unremarkable stream has no event. `LossTold`: a failed
phase 5 is counted once, no score is counted of it, and the event says so,
unless the event of an error had been published before; truncations are counted
for the event that tells them. `CountersMatchVerdict`: each terminal counter
counts its own verdict.

The filter manager is assumed to keep Envoy's rules and no more: headers, then
data, then at most one end of a message; no callback after the stream is
complete except `onDestroy`; no decoding after a local reply, or after a
response to a request that is still held. A response may come at any time, also
before `decodeHeaders`. `OnDestroy` may come without `OnStreamComplete`, as the
unit tests drive it.

Abstracted: header names and values (Content-Length is a number, 0 standing for
none), addresses, URI, the classification inputs (any kind in `Kinds`), the rule
records and scores of phase 5 (any non-empty rule list is `rules`, any non-zero
score `anomaly`, a score at its threshold `exceeded`), response status codes,
histograms and buffer sizes. An engine call that fails inside a header loop is
one that fails before the phase runs.

### `RuleGenerations`

A generation and the `FilterConfig` that owns it share the generation's
identifier; 0 is a null pointer. `memory` holds the counts of the shared
pointers, what has been destroyed, and the `active_rule_generations` gauge; a
reference is dropped by an operator from the memory before to the memory after,
which runs the destructors in their order. `making` is the main thread inside
`makeConfig`: an update is received, rejected, or compiled (here the identifier
is consumed), then discarded by the budget check or made into a configuration
and published. `callback` is the factory callback each thread holds, `posted`
what Envoy has posted to a worker and the worker has not run. `stream` is the
part of `Filter` that refers to any of this.

A handler that can be interrupted by other *threads* is split where it matters:
`createTransaction` pins the generation and then resets `config_`;
`releaseResources` destroys the native transaction and then drops the generation
(the order of the two members of `TransactionImpl`). While a handler is between
its steps its worker does nothing else (`Waiting`).

Abstracted: the checks before compilation are one boolean, what libmodsecurity
makes of the sources another, and a good update may still be rejected (an
allocation fails). The runtime singleton may be destroyed while streams remain:
the engine's comment asks for no less.

### `InlineRules`

Each branch of the loop of `validateInlineSource` is an action, with the guards
that its place in the order of the branches gives it. The alphabet has one
character for each role: letters, of which `x` is a denied directive, `xs` a
denied fragment and `s x` the directive with a denied argument; the space; CR,
which is normalised like a tab but may be part of a continuation; LF; the two
quotes; a hash; a backslash. `quote` is the quote that is open, as in the code:
only its own kind closes it, and the other kind is text in between. The
properties do not read the text from the left: they say where in a source that
passed a denied word may stand, in terms of positions (`Joined`, `Unescaped`,
`MayBeCommented`). A hash may open a comment only where the quotes before it on
its line can be paired into values, each with its own kind at both ends
(`QuotesClosed`).

### The lab: `LabRuntime`, `LabRequests`, `LabPage`

`LabRuntime.stage` is where `main` is. Every step of `start` may raise and every
stage may be interrupted, after which `stop` runs with whatever `lab` (the
members of the object) holds; `stop` itself may be cut short by a second Ctrl+C
or an Envoy that outlives SIGKILL; the process may be killed without `stop`.
`Popen` and the assignment of its result are two steps, because Ctrl+C between
them leaves an Envoy nobody knows (`recorded`). The CRS configuration is created
as a draft, filled, and renamed over the old one: three steps, so that a run may
be cut off with half a draft while an Envoy of an earlier run still reads from
the directory (`ConfigIsWhole`). A run, its Envoy and its
temporary directory share a number, so that `lab.target` tells whose listener
the lab sends to. Directory 0 is the one given with `--work-directory`.

`LabRequests.call` is the thread of `do_POST` for each call, `stream` Envoy's
side of it. A stream logs when it is done and the entry is flushed later; a call
looks only for entries under its own identifier, gives up after a time, and
fails when Envoy is seen to have exited. A client that sets the identifier's
header itself is in the posts of the instance, in both spellings.

`LabPage` has one action per listener and per settlement of `fetch`. Results are
numbered by the request; `panel` records for each part of the panel whose result
it shows. Two requests overlap because Ctrl+Enter does not look at the button.

### The report: `CompatibilityVerdict`, `CompatibilityRun`

`CompatibilityVerdict` grows a result of go-ftw entry by entry, any test under
any status, and applies the functions of the script to each state of it: they
are operators with their names, over sets and sequences. The corpus is also a
variable, for the script reads it from files that may not be the pinned ones,
and so is with it the directory a rule is found in (`rule_index`).
`CompatibilityRun` is `run()` itself. It knows of the results only whether they
are good; `raw` and `report` are the two evidence files, each opened (truncated)
and filled in two steps, tagged with the run that wrote them and the run whose
go-ftw produced the results in them. Only the JSON lists qualification errors;
the Markdown has the status of go-ftw and the results. When the file that is
read back is the script's own JSON of an earlier run, its results are one level
down, and the run finds none.

The finally clause may end early in three ways. `WaitExpires`: Envoy or Albedo
outlives `kill()` and the wait for it, `stop_process` raises, the rest of the
clause is skipped, and the script ends by itself with 2. `CleanupFails`: Envoy's
log cannot be read, with the same end. `InterruptStopping`: Ctrl+C, after which
nothing is known of the servers (`cut`). `ProcessesAreStopped` says which
processes may be left by which end, no more than those: `outlived` and
`unrecorded` are histories that name them.

### The benchmark: `QualificationBenchmark`, `Percentile`

A workload is `load`: requests waiting for a thread, in flight, failed, and
answered by class of latency (within both limits, within the pathological one
only, beyond both). An answered request leaves a stream in Envoy (`lingering`)
until Envoy destroys it, which the gauges show. Memory is any number, or 0 for a
dead Envoy that has not been waited for. `WaitExpires` and `CutShort` are the ways
in which the finally clause does not get to its end. `percentile` works on the numbers of
the classes: the rank is that of the code, and the class at that rank is the
class of the value the code returns.

## 3. Runs

| Run | Instance | Question |
| --- | --- | --- |
| `budget_cas` | 3 streams, limit 4, counter of 8 values, requests of 0, 2, 3 and 7 bytes | Do the CAS loops behave as an atomic budget? |
| `filter` | limits of 2 bytes (1 on one route), budget 3, chunks of 0 to 2 bytes, 4 settings, 4 routes, 3 phase-5 results, other streams taking 2 bytes | Do verdict, forwarding, resources, phases, events and counters agree in every order of callbacks, and is everything released in the end? |
| `rule_generations` | 2 workers, 2 streams, 2 compiled generations, 5 updates | Does every stream run on one accepted generation, is nothing freed under it or retained, and what is superseded destroyed in the end? |
| `inline_rules` | sources of 1 to 5 of 9 characters, 5 bytes in all | Is every denied word that is not in a comment found, and nothing in a comment? |
| `lab_runtime` | 2 runs, each with a directory of its own or the given one | Is everything released, in order, from wherever a run fails, is no configuration ever half-written where it is read, whose listener is used, and does a run settle? |
| `lab_requests` | 2 calls, bodies of 0 to 3 bytes with a limit of 1 | Does each answer tell the truth of its own request, and does every call end? |
| `lab_page` | 3 requests, a history of 2 | Do form, panel, history and button agree in every order? |
| `compatibility_verdict` | 3 corpora, 3 tests, 3 entries | Does a result qualify exactly when it is complete, and is every entry shown? |
| `compatibility_run` | 2 runs over one output directory | What may each end of a run leave behind, do evidence and status agree, and does a run end? |
| `benchmark` | workloads of 1, 3, 2 and 1 requests, 2 threads | Is a pass earned, memory read when the filter is quiet, everything accounted for, and Envoy stopped? |
| `phase5_after_error`, `destruction_unreported` | as `filter` | Violations: see section 6 |

A run checks its safety and liveness properties together, under the fair
specification and without symmetry. `budget_cas` and `lab_page` have no liveness
property and use the symmetry of streams and of requests, which no definition
and no property tells apart. Properties that answer one question are conjoined
under one name (`InspectionIsSound`, `AnswerIsTrue`, `RunIsAccounted` and
others); their parts are defined, with their comments, just above.

Bounds. Two streams race in a CAS loop; the third makes a reload see a value
that belongs to neither. A request of 7 with 2 bytes used wraps a counter of 8
values back below the limit, so a wrapping comparison would be caught. In
`filter` a body of two chunks can stay within its limit, cross it, cross the
budget alone (a route limit is not checked against the budget, and request and
response bodies add up) or cross it because of the other streams; `MaxArrived`
= 3 leaves one byte after a full body, for the data that passes uninspected
once a stream has failed open or bypasses. The callbacks themselves are not
bounded: a message ends, so a behaviour is finite up to the other streams.

In `rule_generations` two generations are enough for a worker with both in
flight, for a stream on the first while its worker and the other worker move to
the second in either order, for a generation that two streams share, and for one
that is compiled and discarded before or after the one published. A third adds a
stream that is two generations behind.

Five characters hold a continuation by CR LF between the halves of a denied
fragment, an escaped quote and a hash before one, or a quote, the other quote
and a hash before one; a source is read after others within the five bytes.
Two runs of a tool are enough for what one leaves to the next; both modes of the
lab's directory occur in both orders. Two calls are enough for one to take the
other's log entry; a limit of one byte with bodies up to two bytes beyond it
covers the byte that is read to see the cut. Three requests overflow a history
of two. The pinned corpus has two tests: two entries hold a duplicate beside an
omission, or a stranger beside one, so that counts agree while sets do not, and
a third entry lets a set agree while the count does not; in another corpus a
test of a rule it knows is missing, so that the two tables of the report place
its failure differently. In the benchmark
each workload differs in its limit or in whether it is evaluated; three requests
have a median and a tail, and two threads overlap.

Each property has a fault of the modelled code in `PROJECT.json` that violates
it: definitions marked `Fault` in the modules, used by nothing else.

Fairness. `filter` assumes weak fairness of `LocalReplyReturns` (a
function call returns) and of `OnDestroy` for a completed stream (Envoy destroys
the filters of every stream it completes). Nothing is assumed about a stream's
completing, or about the engine's answers. No liveness is claimed of the CAS
loops: a weak compare-and-swap may fail for ever. `rule_generations` assumes
that handlers return and that the event loop of a worker eventually runs what
keeps waiting for it: posted updates, and the steps that take each stream to its
end (`Advance`). That is strong fairness, because handlers of other streams make
the worker busy again and again; that streams end is Envoy's, through its stream
timeouts, and is an assumption of the run.

The tools' runs assume that the tool's own threads run (weak fairness of their
steps), that waits with a timeout expire, and that a process sent SIGKILL dies or
the wait for it expires (which of the two is left open). `RunSettles` of the lab excepts one case, which the
property states: `stop` waits for ever when the upstream was bound but its
thread never started, since `shutdown` waits for a loop that nobody runs; a
second Ctrl+C ends it. `RunEnds` of the report excepts another: the script gives
go-ftw no timeout, nothing is assumed to end it, and a run whose go-ftw never
exits never ends; the property says that there is no other way. Nothing is assumed about Envoy's readiness, exit or
answers, or about streams.

Deadlock is checked for the components that go on for ever: peers of the budget,
streams, updates, the page. The runs of the tools, of a bounded number of calls
and of the lexer come to their end, and their configurations say so.

## 4. Proofs

Eight modules hold theorems checked by TLAPS for every value of the constants
under the named assumptions of the modules (finitely many workers and streams, a
main thread that is no worker, a limit that is a natural number below the
counter's modulus, settings, routes, updates, posts and plans of their types).
Each inductive invariant below was checked by TLC on the instance of its run
before it was proved.

**`BodyMemoryBudget_proofs`**: `TypeCorrect`, `BudgetKept`, `NeverAborts` and
`Refinement`. `UsedIsHeld` (the counter is the sum of the shares and within the
limit) is not inductive. A swap installs what its loop computed from an earlier
load, so `IndInv` adds what a loop knows about the value it loaded:
`SwapChecked` (the value to be swapped in was found to fit), `ReleasesAll` (a
release gives back exactly what its stream holds) and `LoadedCoversRelease` (the
value loaded by a release includes it, so that the assertion cannot fire). The
counter arithmetic is modulo the width of the integer; `PlusExact` and
`MinusExact` show that it does not wrap where the invariant holds. The sum of
the shares is the cardinality of a set of byte tokens (`HeldBytes`), which
needs no recursion; the lemmas on `HeldBytes` prove how it changes when one
stream's share does. `Refinement` maps a successful swap to the
grant, and the load of a value the request does not fit to the refusal; every
other step stutters.

**`Filter_proofs`**, in three parts that build on each other.

*Resources*: `TypeCorrect`, `BudgetKept` and `NothingLeaks`. The
invariant is `Sound`, a predicate of the filter's record and of what its peers
hold: the record has its type, the counter is the two shares, and gauges, charge
and release flag agree with the transaction. Typing and accounting need each
other: `releaseResources` subtracts. Each helper of the class preserves `Sound`
(one lemma each), handlers compose helpers, and there is one lemma per callback.
`Fresh` is the strengthening `createTransaction` needs: a stream whose headers
have not been decoded holds nothing, is in no handler of its own and is not
released unless it is gone.

*Verdict*: `DeniedStaysBack`, `VerdictIsTold`, `LoggingComesFirst`
(`LoggedInTime`: before the release, and before the reply). A
filter's record is `Undecided` (no event, no reply, no counter moved) or
`Decided` (what the security state says is what the event, the counters and the
flags say), and each helper that decides takes the one to the other. The
inductive invariant `Verdict` adds what makes a second decision impossible: a
stream that is open, holds its transaction and has not been answered is still
undecided. `DeniedNeverForwarded` is a conjunct of it, for whether a message may
be passed on depends on the verdict and the verdict on what has come. About
steps, `VerdictStands` says that each starts from an undecided filter or
leaves verdict and events alone (`EventsAreFinal`).

*Inspection*: `InspectionComesFirst`, `InspectionStaysSound` and
`DecisionsAreFinal`. That what is passed on was inspected is a fact about two
histories, what Envoy has delivered and what the engine was given, and the
handlers compare them nowhere: they only stop at the first call that goes wrong.
`Inspect` carries the comparison along. `Traced` relates, for one path, bytes
delivered, counted, appended and inspected; `Fed` says that a held message under
inspection has been given to the engine up to its last byte; `PassedOn` lists
the reasons for which a message may have been passed on; `Awaiting` says what
the next callback will find: an open stream that is to be inspected has its
transaction, or has bypassed its response body. `Ready` is what holds between
the engine calls of a handler and its end. Without `Awaiting`, `decodeData`
could meet a filter that has no transaction, and pass on what nobody looked at.

**`RuleGenerations_proofs`**: `ReportsItsRules`, `BudgetSuffices` and
`Refinement`. None of the three is inductive: that a stream opens on an accepted
configuration depends on what its worker holds, which depends on what was posted
to it. `IndInv` follows a configuration on that way: `MakingOK` (what is
compiled or made has the identifier consumed last, and its contents are the
update that passed the checks), `ContentsOK`, `CallbacksOK` (what is posted to a
worker is accepted, ascending and newer than what the worker holds) and
`StreamOK` (configuration, pin and native transaction of a stream name one
accepted generation, step by step). `Accepted` leaves out what is made but not
published, so that only `Publish` accepts (`UnpublishedIsUnseen`,
`PublishAccepts`). `WorkerTakes` is the delivery's `Deliver`, `OpenStream` its
`Open`, and whatever ends the inspection its `Close`. None of this speaks of
reference counts: no guard but that of `ServerExits` looks at memory.

`NativeNeverDangles` and `CountsAreExact` do. On top of `IndInv`, `MemoryOK`
says that each count is the number of its holders:
`Held[c]` counts the frame of `makeConfig`, the callbacks of the threads, the
workers it is posted to and the streams that hold configuration `c`; `Pins[g]`
the candidate and the transactions that pin generation `g`; the runtime has one
holder per living generation and the singleton manager. `Counted` states this of
a memory and two functions, so that each destructor is one lemma without a state
(`DropGenerationCounted`, `DropConfigCounted`, ...), and each handler a lemma
that relates the two functions before and after (`StreamCounts`,
`WorkerCounted`, `PublishCounted`). That a worker holds or waits for a
configuration at most once, which lets the workers be counted instead of the
callbacks posted, is the order of `CallbacksOK`. A compilation after the
singleton is gone finds the runtime alive because the main thread still holds a
configuration (`MainHolds`).

**`CompatibilityReport_proofs`**, of the verdict: `VerdictTypeCorrect`,
`VerdictIsExact` and `ReportComplete`. For every finite corpus, every option and
every result, of any length, a run that CI requires qualifies if and only if it
lists each pinned test exactly once, as passed or as a reviewed exclusion. The
verdict's checks work on counts and on sets. From no failure to a complete
result, `NoDuplicates` turns the count of a test into the uniqueness of its
entry, `EntriesMonotone` and `StatusesDisjoint` relate the lists under a status
to all lists, and `PassedOrIgnored` splits what is left when nothing failed, was
skipped or was forced (`VerdictIsSound`). From a complete result to no failure,
the check that is not immediate is the count: `EntriesOfFiniteCorpus` gives a
bijection between tests and entries (`CompleteRunQualifies`). Both are
state-free but for the finiteness of the corpus, so the invariant is typing
alone.

The tables of the report are sums over categories, which `MapThenSumSet` takes
by a recursive function. `SumOfFamily` evaluates it where the numbers are
cardinalities of disjoint sets: the cardinality of the union satisfies the
recursion, so there is such a function, and a smallest set on which another one
differed would be empty (`SmallestSubset`, from the well-foundedness of
inclusion on finite sets). Both tables split the entries of a status into
disjoint sets (`TablesAddUp`). `FailuresOfRow` is a bijection between the
entries of a row and the failures counted for its rule file; it rests on
`DirectoryAssumption`: the tests of a rule are in one directory.

Of the run: `ProcessesStopped` and `EvidenceHonest`. The first speaks of runs
that have ended; `StoppingInv` says at each stage what `run` knows of its
processes (`ServersKnown`: a process is recorded, or was created by the `Popen`
whose result has not been assigned, or Ctrl+C came in between and it is
`unrecorded`), what its finally clause has stopped by then (`ServersStopped`),
and that a run to come has left no trace (`Untouched`). `EvidenceInv` adds where
the results come from (`ResultsOwn`): the status a run judges is always its own
go-ftw's, and after a zero what it has read is its own too, unless a go-ftw of a
killed run still writes. After another status it may be an earlier run's; all
that is proved of such a run is that it does not exit with 0 and that its report
tells the status.

**`InlineRules_proofs`**: `TypeCorrect`, `NoFragmentHides` and
`DenialsAreDirectives`, for sources of any length. The properties say what a
text means by looking at all its positions (which are escaped, quoted, joined or
in a comment); the lexer reads it once from the left, and all it remembers is
the normalised line, the quote that is open and two flags. `ReadingInv` relates the two at the
position that is read next:

- `EscapesKnown`: the flag is the parity of the run of backslashes before the
  position.
- `QuotesKnown`: when no quote is open, the quotes since the start of the line
  make values side by side; when one is open, they did up to where it was opened,
  and its kind has not come since (`QuotesTold`, `OpenedAt`).
- `OutsideContinuation`: the position is never inside a continuation, so that
  no LF after a backslash, or after a backslash and CR, is read on its own.
- `FragmentsKept`: both halves of a fragment that has been read are in the line;
  of one that is read in part, the half that was read ends the line.
- `StartsEmpty`, `WordKept`, `FirstWordKept`, `WordsKept`: what is in the line
  after each part of a directive. A line that begins with a directive keeps it
  as its first words whatever follows, because at most one space is appended
  between words and none before them.
- `CommentsSkipped`: a comment line leaves nothing in the line, so that what was
  denied was said elsewhere.

`Moves` lists what an action may do to a position and a reader: skip a
character, end the line, take a character, append a space or begin a comment.
There is one lemma per conjunct for the moves by one character, and one
(`LineContinued`) for a continuation, which moves by two or three;
`ActionsMove` shows that each action of the lexer is one of these. What
backslashes and quotes amount to at the next position (`EscapeSteps`,
`StaysClosed`, `ClosesAgain`, `QuoteSteps`) and that a run of backslashes has a
beginning (`RunBefore`, from the well-foundedness of the naturals) are lemmas
about the text alone.

**`LabRuntime_proofs`**: `InOrder`, `NothingStays`, `TargetsOwn` and
`ConfigStaysWhole`.
`Releases` says what `stop` has released by each of its stages and what the next
stage relies on; `RunsOK` what a run that ended has left. `DirectoriesOK` is
needed for the listener: an address file names an Envoy that was started in that
directory, and what the lab has read from it is its own Envoy or one that a
killed run left in the same directory. `ConfigOK` says where a configuration is
known to be whole: in the draft that is about to replace one, from then on in the
run's directory, and in that of every Envoy that was ever started.

**`LabWeb_proofs`**, of the web API: `AnswersAreTrue` and `ValidIsSent`. A call,
its request and its stream share a name, and `CallInv` speaks of one call at a
time: what was sent had been accepted (`SentIsValid`), what Envoy logs and
relays is true (`StreamHonest`), and a call that has its reply or its event
knows those of its own stream (`KnowsReply`, `KnowsEvent`). No step of a call
disturbs the `CallInv` of another, which is why any number of them may be under
way.

Of the page: `PageStaysTogether`. `PageInv` joins typing and the parts of
`PageAgrees`, of which `HistoryIsLatest` is one; what it adds to them is the
bound of the history by the results that have come. Showing a result puts it in
front of the history and cuts the list at its limit, and `HistoryIsLatest` says
that the list is a prefix of all results, newest first, so that both steps are
facts about sequences of any length (`PrependProperties`). The
names the panel shows when no result is there may not be names of requests
(`RequestsAssumption`).

**`QualificationBenchmark_proofs`**: `RunAccounted` and `EnforcedPass`.
`LoadOK` counts the requests of a workload and says that there are none outside
one, so that no stream can appear once the gauges were zero; `EnvoyOK` says what
`main` knows of Envoy at each stage; `BaselineOK` that an Envoy that answers for
its gauges was alive when the baseline was read, which therefore is not that of
a zombie; `SoakOK` that an Envoy that is alive to be stopped was alive when its
memory was read after the soak; `ResultsOK`
that workloads that are over are complete, and that the thresholds hold once
they have been evaluated and nothing can change. `WithinLimit` turns the
comparison of a percentile into a bound on the latencies beyond a limit, for any
number of latencies.

Only model-checked is liveness: `EventuallyReleased`, `SupersededIsFreed`,
`RunSettles`, `EveryCallEnds`, `RunEnds` and `MainEnds`. Fairness and ENABLED are
beyond the prover.

## 5. Not modelled, and the plan

In the order in which it is worth doing:

1. `StreamGate`, an abstract specification of the filter (a message is held
   until it is inspected, exempt or denied), refined by `Filter`; `PassedOn` and
   `Fed` of its proofs are what the mapping needs.
2. Two streams of one configuration in one model, over `BodyMemoryBudget`.
3. `ConfigValidation`: the field checks of `makeConfig` and `routeConfig`.

Not modelled of the tools: the text of the generated configurations and
reports, the parsing of the corpus' YAML by regular expressions, argument
parsing, the GET handlers of the lab, `reserve_port` (another process may take
the port before Albedo does; what then answers is outside the script).

Not planned: build and pinning scripts, the shell wrappers of the tools, the
executable's `main`, Envoy, go-ftw, Albedo and libmodsecurity themselves.

## 6. Where the code and the documents disagree

**Phase 5 after an error** (`phase5_after_error`). `docs/architecture.md:123`
says "Runtime-error and overflow paths release the transaction without phase 5."
`sendRuntimeError` (filter.cc:213, also called by `sendBodyOverflow`) calls
`sendLocalReply` before `releaseResources`, while `logging_finished_` is false.
As the comment at filter.cc:197 says of `sendIntervention`, a local reply can
complete the stream synchronously; `onStreamComplete` then runs `processLogging`
on the transaction that has just failed. The event of the error has been
published by then, so what phase 5 adds is only its counters.

**Destruction is not reported** (`destruction_unreported`).
`docs/configuration-api.md:128` lists "destruction of an active transaction"
among the things metadata is emitted for. `onDestroy` marks such a stream
incomplete only if `logging_finished_` is false, but `onStreamComplete` comes
first (as `test/unit/filter_test.cc:205` has it) and has already run phase 5
with the outcome still allowed. Nothing is published unless a rule matched.

What follows is where a property had to be stated more weakly than the documents
put it. The runs check what holds; no run shows these cases.

**The results of another run.** crs-compatibility-report.py:990
raises "go-ftw did not create its JSON result" when there is no result file. The
check, a line above, is for the file's existence: one left by an earlier run
exists, and a go-ftw that aborts, as `docs/development.md:158` describes, does
not replace it. The script then reports the results of the earlier run, or no
results when the file is what the earlier run itself wrote over them, in both
evidence files. It exits with 1 where the message would have meant 2 and no
report. `ZeroIsEarned` admits foreign results only so: with status 1 and a
go-ftw status that is not zero in the report.

**The upstream was reached.** `docs/development.md:98` says
"The result view shows whether the request reached the local echo upstream". The
lab reads this from a header of the response (owasp-crs-lab.py:928), which is
gone when the filter, or Envoy, replaces the response, for one because its
inspection fails. Such a request is shown as not having reached the upstream.
`ReachedIsTrue` states both directions: what is shown as reached was, and what
was reached and is not shown so had its reply replaced by a denial.

**A dead Envoy passes.** `docs/development.md:176` says that
the evidence of the benchmark records "baseline and post-soak RSS". An Envoy
that dies after its gauges were read is a zombie, whose memory
`process_rss_bytes` reads as 0; `max(0, ...)` (qualification-benchmark.py:484)
makes that no growth, and nothing looks at Envoy again, so that an enforced run
may exit with 0 with no memory measured. A dead Envoy cannot pass as a baseline:
the gauges are read from Envoy later. `PassedIsEarned` admits the 0 after the
soak only of an Envoy that was dead before it was to be stopped.

**The lab's listener.** `docs/development.md:103` says "The web API targets only
the lab-managed Envoy listener". `_wait_for_admin` (owasp-crs-lab.py:980)
believes the address file as soon as the admin interface named there is ready
and its own Envoy runs. In a directory kept with `--work-directory`, after a run
that was killed while its Envoy lives on, the file still names that Envoy; until
the new one truncates it, the new lab may settle on the old listener.
`TargetsOwnOrOrphan` admits that Envoy and no other.

**The 99th percentile of forty.** `docs/development.md:179` gives a limit of "1
second p99" per pathological request that CI enforces. The rank is `int(40 *
0.99)`, 39, so the slowest of the forty requests is never looked at.
`PassedIsEarned` states what an enforced 0 does guarantee.
