----------------------- MODULE RuleGenerations_proofs -----------------------
(* Every stream runs the rules of one accepted generation and reports that   *)
(* generation, and delivery by ECDS is implemented: for any number of        *)
(* workers, streams, generations and updates.                                *)
EXTENDS RuleGenerations, FiniteSetTheorems, SequenceTheorems, TLAPS

(***************************************************************************)
(* The invariant.  It says nothing of reference counts: no guard of an     *)
(* action but ServerExits looks at them.                                   *)
(***************************************************************************)

\* The thread that compiles has what it received, and names what it made by
\* the identifier consumed last.
MakingOK ==
    /\ making.step \in {"idle", "received", "compiled", "made"}
    /\ making.step # "idle" => making.update \in Update
    /\ making.generation \in Ids \cup {0}
    /\ making.step \in {"compiled", "made"} =>
        /\ making.generation \in Ids
        /\ next_generation_id = making.generation + 1
        /\ making.update.well_formed /\ making.update.loads
    /\ making.step = "compiled" => contents[making.generation] = NoContents
    /\ making.step = "made" =>
        /\ ~ BudgetTooSmall(making.update)
        /\ contents[making.generation] = making.update

\* A configuration was made under an identifier that was consumed, from an
\* update that passed every check.
ContentsOK ==
    /\ next_generation_id \in 1..(MaxGenerations + 1)
    /\ contents \in [Ids -> Update]
    /\ \A c \in Ids : contents[c] # NoContents =>
        /\ c < next_generation_id
        /\ contents[c].well_formed /\ contents[c].loads
        /\ ~ BudgetTooSmall(contents[c])

\* What a thread holds has been accepted, and what waits for a worker is newer
\* than what it holds, in order.
CallbacksOK ==
    /\ callback \in [Threads -> Ids \cup {0}]
    /\ posted \in [Workers -> Seq(Ids)]
    /\ \A t \in Threads : callback[t] # 0 => callback[t] \in Accepted
    /\ \A w \in Workers : \A i \in DOMAIN posted[w] :
        /\ posted[w][i] \in Accepted
        /\ posted[w][i] > callback[w]
        /\ \A j \in DOMAIN posted[w] : i < j => posted[w][i] < posted[w][j]

\* The configuration of a stream and its native transaction name one accepted
\* generation, which is the one it reports.  The transaction pins it until
\* after the native one is gone.
StreamOK(t) ==
    /\ t.config # 0 =>
        t.config \in Accepted /\ t.rule_engine_mode = contents[t.config].rule_engine_mode
    /\ t.native # 0 =>
        /\ t.native \in Accepted
        /\ t.rule_generation_id = t.native
        /\ t.rule_engine_mode = contents[t.native].rule_engine_mode
    /\ t.step \in {"none", "releasing", "done"} => t.config = 0 /\ t.native = 0
    /\ t.step = "opened" => t.config # 0 /\ t.native = 0
    /\ t.step = "creating" => t.config # 0 /\ t.native \in {0, t.config}
    /\ t.step = "inspecting" => t.config = 0 /\ t.native # 0
    /\ t.step # "releasing" => t.pinned = t.native
    /\ t.step = "releasing" => t.pinned \in Accepted
    /\ t.destroyed => t.step \in {"opened", "done"}

StreamRecords ==
    [step : {"none", "opened", "creating", "inspecting", "releasing", "done"},
     worker : Threads, config : Ids \cup {0}, native : Ids \cup {0}, pinned : Ids \cup {0},
     rule_generation_id : Ids \cup {0}, rule_engine_mode : RuleEngineModes,
     destroyed : BOOLEAN]

StreamsOK ==
    /\ stream \in [Streams -> StreamRecords]
    /\ \A s \in Streams : StreamOK(stream[s])

IndInv == MakingOK /\ ContentsOK /\ CallbacksOK /\ StreamsOK

-----------------------------------------------------------------------------
(* What actions leave alone *)

\* A configuration is accepted with contents that passed every check.
LEMMA AcceptedIsGood ==
    ASSUME ContentsOK, NEW c \in Accepted
    PROVE  /\ c \in Ids /\ c \in Nat \ {0} /\ c < next_generation_id
           /\ contents[c] \in Update
           /\ contents[c].well_formed /\ contents[c].loads
           /\ ~ BudgetTooSmall(contents[c])
    BY MaxGenerationsAssumption DEF ContentsOK, Accepted, Ids

\* The contents of nothing are not those of an update that passed a check.
LEMMA NoContentsIsNone ==
    /\ NoContents \in Update
    /\ \A u : u.well_formed => u # NoContents
    BY DEF NoContents, Update, RuleEngineModes

\* Where no configuration is made, what is accepted stays as it is.
LEMMA SameAccepted ==
    ASSUME UNCHANGED <<next_generation_id, making, contents>>
    PROVE  Accepted' = Accepted
    BY DEF Accepted

\* Callbacks stay in order while more is accepted.
LEMMA CallbacksCarried ==
    ASSUME CallbacksOK, UNCHANGED <<callback, posted>>, Accepted \subseteq Accepted'
    PROVE  CallbacksOK'
    BY DEF CallbacksOK

\* Streams go on with their generation while more is accepted.
LEMMA StreamsCarried ==
    ASSUME StreamsOK, UNCHANGED stream, Accepted \subseteq Accepted',
           \A c \in Accepted : contents'[c] = contents[c]
    PROVE  StreamsOK'
<1>1. ASSUME NEW s \in Streams
      PROVE  StreamOK(stream[s])'
    BY DEF StreamsOK, StreamOK
<1> QED
    BY <1>1 DEF StreamsOK

\* A handler of one stream changes nothing that concerns the others.
LEMMA OneStream ==
    ASSUME IndInv, NEW s \in Streams, NEW new \in StreamRecords, StreamOK(new),
           UpdateStream(s, new)
    PROVE  IndInv'
<1>1. UNCHANGED <<next_generation_id, making, contents, callback, posted>>
      /\ stream' = [stream EXCEPT ![s] = new]
    BY DEF UpdateStream
<1>2. Accepted' = Accepted
    BY <1>1, SameAccepted
<1>3. MakingOK' /\ ContentsOK'
    BY <1>1 DEF IndInv, MakingOK, ContentsOK
<1>4. CallbacksOK'
    BY <1>1, <1>2, CallbacksCarried DEF IndInv
<1>5. StreamsOK'
    <2>1. stream' \in [Streams -> StreamRecords]
        BY <1>1 DEF IndInv, StreamsOK
    <2>2. ASSUME NEW t \in Streams
          PROVE  StreamOK(stream[t])'
        <3>1. StreamOK(stream'[t])
            BY <1>1 DEF IndInv, StreamsOK
        <3> QED
            BY <1>1, <1>2, <3>1 DEF StreamOK
    <2> QED
        BY <2>1, <2>2 DEF StreamsOK
<1> QED
    BY <1>3, <1>4, <1>5 DEF IndInv

-----------------------------------------------------------------------------
(* The main thread *)

\* Until a configuration is published the accepted ones are the same, with the
\* same contents.
LEMMA UnpublishedIsUnseen ==
    ASSUME IndInv,
           ReceiveUpdate \/ Reject \/ Compile \/ DiscardCandidate \/ MakeConfig
    PROVE  /\ Accepted' = Accepted
           /\ \A c \in Accepted : contents'[c] = contents[c]
           /\ UNCHANGED <<callback, posted, stream>>
<1>1. CASE ReceiveUpdate \/ Reject \/ DiscardCandidate
    BY <1>1 DEF ReceiveUpdate, Reject, DiscardCandidate, Accepted, Idle
<1>2. CASE Compile
    <2>1. ASSUME NEW c \in Ids, contents[c] # NoContents
          PROVE  c < next_generation_id /\ c < next_generation_id + 1
        BY <2>1, MaxGenerationsAssumption DEF IndInv, ContentsOK, Ids
    <2>2. /\ making.step = "received" /\ making'.step = "compiled"
          /\ next_generation_id' = next_generation_id + 1
          /\ UNCHANGED <<contents, callback, posted, stream>>
        BY <1>2 DEF Compile, IndInv, MakingOK
    <2> QED
        BY <2>1, <2>2 DEF Accepted
<1>3. CASE MakeConfig
    <2> DEFINE g == making.generation
    <2>1. /\ making.step = "compiled" /\ making'.step = "made" /\ making'.generation = g
          /\ contents' = [contents EXCEPT ![g] = making.update]
          /\ UNCHANGED <<next_generation_id, callback, posted, stream>>
        BY <1>3 DEF MakeConfig
    <2>2. contents[g] = NoContents /\ g \in Ids /\ contents \in [Ids -> Update]
        BY <2>1 DEF IndInv, MakingOK, ContentsOK
    <2>3. ASSUME NEW c \in Ids
          PROVE  c \in Accepted' <=> c \in Accepted
        BY <2>1, <2>2 DEF Accepted
    <2>4. Accepted \subseteq Ids /\ Accepted' \subseteq Ids
        BY DEF Accepted
    <2>5. \A c \in Accepted : c # g
        BY <2>2 DEF Accepted
    <2> QED
        BY <2>1, <2>2, <2>3, <2>4, <2>5
<1> QED
    BY <1>1, <1>2, <1>3

\* makeConfig keeps its own account.
LEMMA MakeConfigStep ==
    ASSUME IndInv,
           ReceiveUpdate \/ Reject \/ Compile \/ DiscardCandidate \/ MakeConfig
    PROVE  IndInv'
<1>1. CallbacksOK' /\ StreamsOK'
    BY UnpublishedIsUnseen, CallbacksCarried, StreamsCarried DEF IndInv
<1>2. CASE ReceiveUpdate
    BY <1>1, <1>2, UpdatesAssumption DEF ReceiveUpdate, IndInv, MakingOK, ContentsOK
<1>3. CASE Reject \/ DiscardCandidate
    BY <1>1, <1>3 DEF Reject, DiscardCandidate, Idle, IndInv, MakingOK, ContentsOK
<1>4. CASE Compile
    <2>1. /\ making' = [making EXCEPT !.step = "compiled", !.generation = next_generation_id]
          /\ next_generation_id' = next_generation_id + 1
          /\ making.step = "received" /\ making.update.well_formed /\ making.update.loads
          /\ next_generation_id <= MaxGenerations
          /\ contents' = contents
        BY <1>4 DEF Compile
    <2>2. next_generation_id \in Ids
        BY <2>1, MaxGenerationsAssumption DEF IndInv, ContentsOK, Ids
    <2>3. contents[next_generation_id] = NoContents
        BY <2>2 DEF IndInv, ContentsOK
    <2>4. MakingOK'
        BY <2>1, <2>2, <2>3 DEF IndInv, MakingOK
    <2>5. ContentsOK'
        BY <2>1, MaxGenerationsAssumption DEF IndInv, ContentsOK, Ids
    <2> QED
        BY <1>1, <2>4, <2>5 DEF IndInv
<1>5. CASE MakeConfig
    <2> DEFINE g == making.generation
    <2>1. /\ making.step = "compiled" /\ ~ BudgetTooSmall(making.update)
          /\ making' = [making EXCEPT !.step = "made"]
          /\ contents' = [contents EXCEPT ![g] = making.update]
          /\ next_generation_id' = next_generation_id
        BY <1>5 DEF MakeConfig
    <2>2. /\ g \in Ids /\ next_generation_id = g + 1 /\ making.update \in Update
          /\ making.update.well_formed /\ making.update.loads
        BY <2>1 DEF IndInv, MakingOK
    <2>3. MakingOK'
        BY <2>1, <2>2 DEF IndInv, MakingOK, ContentsOK
    <2>4. ContentsOK'
        BY <2>1, <2>2, MaxGenerationsAssumption DEF IndInv, ContentsOK, Ids
    <2> QED
        BY <1>1, <2>3, <2>4 DEF IndInv
<1> QED
    BY <1>2, <1>3, <1>4, <1>5

\* What is published is accepted, and newer than all that was.
LEMMA PublishAccepts ==
    ASSUME IndInv, Publish
    PROVE  /\ making.generation \in Ids
           /\ Accepted' = Accepted \cup {making.generation}
           /\ \A c \in Accepted : c < making.generation
<1>1. /\ making.step = "made" /\ making' = Idle
      /\ UNCHANGED <<next_generation_id, contents>>
    BY DEF Publish
<1>2. /\ making.generation \in Ids /\ next_generation_id = making.generation + 1
      /\ contents[making.generation] # NoContents
    BY <1>1, NoContentsIsNone DEF IndInv, MakingOK
<1>3. Accepted' = Accepted \cup {making.generation}
    BY <1>1, <1>2, MaxGenerationsAssumption DEF Accepted, Idle, Ids
<1>4. ASSUME NEW c \in Accepted
      PROVE  c < making.generation
    BY <1>1, <1>2, MaxGenerationsAssumption DEF Accepted, Ids
<1> QED
    BY <1>2, <1>3, <1>4

\* Workers get it after all they have or wait for.
LEMMA PublishStep ==
    ASSUME IndInv, Publish
    PROVE  IndInv'
<1> DEFINE g == making.generation
<1>1. /\ making.step = "made" /\ making' = Idle
      /\ callback' = [callback EXCEPT ![Main] = g]
      /\ posted' = [w \in Workers |-> Append(posted[w], g)]
      /\ UNCHANGED <<next_generation_id, contents, stream>>
    BY DEF Publish
<1>2. g \in Ids /\ g \in Nat /\ Accepted' = Accepted \cup {g} /\ \A c \in Accepted : c < g
    BY PublishAccepts, MaxGenerationsAssumption DEF Ids
<1>3. MakingOK' /\ ContentsOK'
    BY <1>1 DEF IndInv, MakingOK, ContentsOK, Idle
<1>4. StreamsOK'
    BY <1>1, <1>2, StreamsCarried DEF IndInv
<1>5. CallbacksOK'
    <2>1. callback' \in [Threads -> Ids \cup {0}]
        BY <1>1, <1>2 DEF IndInv, CallbacksOK, Threads
    <2>2. posted' \in [Workers -> Seq(Ids)]
        BY <1>1, <1>2, AppendProperties DEF IndInv, CallbacksOK
    <2>3. \A t \in Threads : callback'[t] # 0 => callback'[t] \in Accepted'
        BY <1>1, <1>2 DEF IndInv, CallbacksOK, Threads
    <2>4. ASSUME NEW w \in Workers, NEW i \in DOMAIN posted'[w]
          PROVE  /\ posted'[w][i] \in Accepted'
                 /\ posted'[w][i] > callback'[w]
                 /\ \A j \in DOMAIN posted'[w] : i < j => posted'[w][i] < posted'[w][j]
        <3>1. posted[w] \in Seq(Ids) /\ posted'[w] = Append(posted[w], g)
            BY <1>1 DEF IndInv, CallbacksOK
        <3>2. /\ DOMAIN posted'[w] = 1..(Len(posted[w]) + 1) /\ Len(posted[w]) \in Nat
              /\ \A k \in 1..Len(posted[w]) : posted'[w][k] = posted[w][k]
              /\ posted'[w][Len(posted[w]) + 1] = g
              /\ DOMAIN posted[w] = 1..Len(posted[w])
            BY <1>2, <3>1, AppendProperties, LenProperties
        <3>3. callback'[w] = callback[w] /\ callback[w] \in Nat
            BY <1>1, WorkersAssumption, MaxGenerationsAssumption
                DEF IndInv, CallbacksOK, Threads, Ids
        <3>4. g > callback[w]
            BY <1>2, <3>3, MaxGenerationsAssumption DEF IndInv, CallbacksOK, Threads, Ids
        <3>5. \A k \in 1..Len(posted[w]) : posted[w][k] \in Accepted /\ posted[w][k] < g
            BY <1>2, <3>2 DEF IndInv, CallbacksOK
        <3>6. CASE i \in 1..Len(posted[w])
            <4>1. posted'[w][i] \in Accepted' /\ posted'[w][i] > callback'[w]
                BY <1>2, <3>2, <3>3, <3>5, <3>6 DEF IndInv, CallbacksOK
            <4>2. ASSUME NEW j \in DOMAIN posted'[w], i < j
                  PROVE  posted'[w][i] < posted'[w][j]
                <5>1. CASE j \in 1..Len(posted[w])
                    BY <3>2, <3>6, <4>2, <5>1 DEF IndInv, CallbacksOK
                <5>2. CASE j = Len(posted[w]) + 1
                    BY <3>2, <3>5, <3>6, <5>2
                <5> QED
                    BY <3>2, <5>1, <5>2
            <4> QED
                BY <4>1, <4>2
        <3>7. CASE i = Len(posted[w]) + 1
            BY <1>2, <3>2, <3>3, <3>4, <3>7
        <3> QED
            BY <3>2, <3>6, <3>7
    <2> QED
        BY <2>1, <2>2, <2>3, <2>4 DEF CallbacksOK
<1> QED
    BY <1>3, <1>4, <1>5 DEF IndInv

-----------------------------------------------------------------------------
(* The workers and the streams *)

\* A worker takes the oldest callback that waits for it.
LEMMA WorkerStep ==
    ASSUME IndInv, NEW w \in Workers, WorkerTakes(w)
    PROVE  /\ IndInv'
           /\ Accepted' = Accepted
           /\ callback'[w] \in Accepted /\ callback'[w] > callback[w]
<1>1. /\ posted[w] # <<>>
      /\ callback' = [callback EXCEPT ![w] = Head(posted[w])]
      /\ posted' = [posted EXCEPT ![w] = Tail(@)]
      /\ UNCHANGED <<next_generation_id, making, contents, stream>>
    BY DEF WorkerTakes
<1>2. Accepted' = Accepted
    BY <1>1, SameAccepted
<1>3. MakingOK' /\ ContentsOK'
    BY <1>1 DEF IndInv, MakingOK, ContentsOK
<1>4. StreamsOK'
    BY <1>1, <1>2, StreamsCarried DEF IndInv
<1>5. /\ posted[w] \in Seq(Ids) /\ 1 \in DOMAIN posted[w] /\ Head(posted[w]) = posted[w][1]
      /\ Len(posted[w]) \in Nat /\ DOMAIN posted[w] = 1..Len(posted[w])
      /\ Tail(posted[w]) \in Seq(Ids)
      /\ DOMAIN Tail(posted[w]) = 1..(Len(posted[w]) - 1)
      /\ \A k \in 1..(Len(posted[w]) - 1) : Tail(posted[w])[k] = posted[w][k + 1]
    BY <1>1, HeadTailProperties, LenProperties DEF IndInv, CallbacksOK
<1>6. callback'[w] = posted[w][1] /\ callback'[w] \in Accepted /\ callback'[w] > callback[w]
    BY <1>1, <1>5 DEF IndInv, CallbacksOK, Threads
<1>7. CallbacksOK'
    <2>1. callback' \in [Threads -> Ids \cup {0}]
        BY <1>1, <1>5, MaxGenerationsAssumption DEF IndInv, CallbacksOK, Threads, Ids
    <2>2. posted' \in [Workers -> Seq(Ids)]
        BY <1>1, <1>5 DEF IndInv, CallbacksOK
    <2>3. \A t \in Threads : callback'[t] # 0 => callback'[t] \in Accepted'
        BY <1>1, <1>2, <1>6 DEF IndInv, CallbacksOK
    <2>4. ASSUME NEW v \in Workers, NEW i \in DOMAIN posted'[v]
          PROVE  /\ posted'[v][i] \in Accepted'
                 /\ posted'[v][i] > callback'[v]
                 /\ \A j \in DOMAIN posted'[v] : i < j => posted'[v][i] < posted'[v][j]
        <3>1. CASE v = w
            <4>1. posted'[w] = Tail(posted[w])
                BY <1>1 DEF IndInv, CallbacksOK
            <4>2. ASSUME NEW k \in DOMAIN posted'[w]
                  PROVE  /\ k \in 1..(Len(posted[w]) - 1) /\ k + 1 \in DOMAIN posted[w] /\ 1 < k + 1
                         /\ posted'[w][k] = posted[w][k + 1]
                BY <1>5, <4>1
            <4>3. posted'[w][i] \in Accepted' /\ posted'[w][i] > callback'[w]
                <5>1. posted[w][i + 1] \in Accepted /\ posted[w][1] < posted[w][i + 1]
                    BY <1>5, <3>1, <4>2 DEF IndInv, CallbacksOK
                <5>2. posted[w][1] \in Nat /\ posted[w][i + 1] \in Nat
                    <6>1. \A k \in 1..Len(posted[w]) : posted[w][k] \in Ids
                        BY <1>5, ElementOfSeq
                    <6>2. 1 \in 1..Len(posted[w]) /\ i + 1 \in 1..Len(posted[w])
                        BY <1>5, <3>1, <4>2
                    <6>3. \A c \in Ids : c \in Nat
                        BY MaxGenerationsAssumption DEF Ids
                    <6> QED
                        BY <6>1, <6>2, <6>3
                <5> QED
                    BY <1>2, <1>6, <3>1, <4>2, <5>1, <5>2
            <4>4. ASSUME NEW j \in DOMAIN posted'[w], i < j
                  PROVE  posted'[w][i] < posted'[w][j]
                <5>1. i + 1 < j + 1
                    BY <3>1, <4>2, <4>4
                <5> QED
                    BY <3>1, <4>2, <5>1 DEF IndInv, CallbacksOK
            <4> QED
                BY <3>1, <4>3, <4>4
        <3>2. CASE v # w
            <4>1. posted'[v] = posted[v] /\ callback'[v] = callback[v]
                BY <1>1, <3>2 DEF IndInv, CallbacksOK, Threads
            <4> QED
                BY <1>2, <4>1 DEF IndInv, CallbacksOK
        <3> QED
            BY <3>1, <3>2
    <2> QED
        BY <2>1, <2>2, <2>3, <2>4 DEF CallbacksOK
<1> QED
    BY <1>2, <1>3, <1>4, <1>6, <1>7 DEF IndInv

\* A stream opens on what its worker has, and keeps to it.
LEMMA OpenStreamStep ==
    ASSUME IndInv, NEW s \in Streams, NEW w \in Workers, OpenStream(s, w)
    PROVE  IndInv'
<1> DEFINE new == [NoStream EXCEPT
            !.step = "opened", !.worker = w, !.config = callback[w],
            !.rule_engine_mode = contents[callback[w]].rule_engine_mode]
<1>1. callback[w] # 0 /\ UpdateStream(s, new)
    BY DEF OpenStream
<1>2. callback[w] \in Accepted /\ callback[w] \in Ids
    BY <1>1, AcceptedIsGood DEF IndInv, CallbacksOK, Threads
<1>3. contents[callback[w]].rule_engine_mode \in RuleEngineModes
    BY <1>2, AcceptedIsGood DEF IndInv, Update
<1>4. new \in StreamRecords
    BY <1>2, <1>3 DEF StreamRecords, NoStream, Threads
<1>5. StreamOK(new)
    BY <1>1, <1>2 DEF StreamOK, NoStream
<1> QED
    BY <1>1, <1>4, <1>5, OneStream

\* So do the other handlers of a stream.
LEMMA StreamStep ==
    ASSUME IndInv, NEW s \in Streams,
           \/ Disable(s) \/ CreateTransaction(s) \/ TransactionFails(s) \/ ResetConfig(s)
           \/ Release(s) \/ Unpin(s) \/ OnDestroy(s) \/ DeleteFilter(s)
    PROVE  IndInv'
<1>1. stream[s] \in StreamRecords /\ StreamOK(stream[s])
    BY DEF IndInv, StreamsOK
<1>2. CASE Disable(s)
    <2> DEFINE new == [stream[s] EXCEPT !.step = "done", !.config = 0]
    <2>1. stream[s].step = "opened" /\ UpdateStream(s, new)
        BY <1>2 DEF Disable
    <2>2. new \in StreamRecords /\ StreamOK(new)
        BY <1>1, <2>1 DEF StreamRecords, StreamOK
    <2> QED
        BY <2>1, <2>2, OneStream
<1>3. CASE CreateTransaction(s)
    <2> DEFINE g == stream[s].config
               new == [stream[s] EXCEPT !.step = "creating", !.rule_generation_id = g,
                                        !.native = g, !.pinned = g]
    <2>1. stream[s].step = "opened" /\ ~ stream[s].destroyed /\ UpdateStream(s, new)
        BY <1>3 DEF CreateTransaction
    <2>2. new \in StreamRecords /\ StreamOK(new)
        BY <1>1, <2>1 DEF StreamRecords, StreamOK
    <2> QED
        BY <2>1, <2>2, OneStream
<1>4. CASE TransactionFails(s)
    <2> DEFINE new == [stream[s] EXCEPT !.step = "creating",
                                        !.rule_generation_id = stream[s].config]
    <2>1. stream[s].step = "opened" /\ ~ stream[s].destroyed /\ UpdateStream(s, new)
        BY <1>4 DEF TransactionFails
    <2>2. new \in StreamRecords /\ StreamOK(new)
        BY <1>1, <2>1 DEF StreamRecords, StreamOK
    <2> QED
        BY <2>1, <2>2, OneStream
<1>5. CASE ResetConfig(s)
    <2> DEFINE new == [stream[s] EXCEPT
                !.step = IF stream[s].native = 0 THEN "done" ELSE "inspecting", !.config = 0]
    <2>1. stream[s].step = "creating" /\ UpdateStream(s, new)
        BY <1>5 DEF ResetConfig
    <2>2. new \in StreamRecords /\ StreamOK(new)
        BY <1>1, <2>1 DEF StreamRecords, StreamOK
    <2> QED
        BY <2>1, <2>2, OneStream
<1>6. CASE Release(s)
    <2> DEFINE new == [stream[s] EXCEPT !.step = "releasing", !.native = 0]
    <2>1. stream[s].step = "inspecting" /\ UpdateStream(s, new)
        BY <1>6 DEF Release
    <2>2. new \in StreamRecords /\ StreamOK(new)
        BY <1>1, <2>1 DEF StreamRecords, StreamOK
    <2> QED
        BY <2>1, <2>2, OneStream
<1>7. CASE Unpin(s)
    <2> DEFINE new == [stream[s] EXCEPT !.step = "done", !.pinned = 0]
    <2>1. stream[s].step = "releasing" /\ UpdateStream(s, new)
        BY <1>7 DEF Unpin
    <2>2. new \in StreamRecords /\ StreamOK(new)
        BY <1>1, <2>1 DEF StreamRecords, StreamOK
    <2> QED
        BY <2>1, <2>2, OneStream
<1>8. CASE OnDestroy(s)
    <2> DEFINE new == [stream[s] EXCEPT !.destroyed = TRUE]
    <2>1. stream[s].step \in {"opened", "done"} /\ UpdateStream(s, new)
        BY <1>8 DEF OnDestroy
    <2>2. new \in StreamRecords /\ StreamOK(new)
        BY <1>1, <2>1 DEF StreamRecords, StreamOK
    <2> QED
        BY <2>1, <2>2, OneStream
<1>9. CASE DeleteFilter(s)
    <2>1. UpdateStream(s, NoStream)
        BY <1>9 DEF DeleteFilter
    <2>2. NoStream \in StreamRecords /\ StreamOK(NoStream)
        BY DEF NoStream, StreamRecords, StreamOK, Threads, RuleEngineModes
    <2> QED
        BY <2>1, <2>2, OneStream
<1> QED
    BY <1>2, <1>3, <1>4, <1>5, <1>6, <1>7, <1>8, <1>9

\* What leaves all but the memory alone.
LEMMA Stutter ==
    ASSUME IndInv,
           UNCHANGED <<next_generation_id, making, contents, callback, posted, stream>>
    PROVE  IndInv'
<1>1. Accepted' = Accepted
    BY SameAccepted
<1>2. MakingOK' /\ ContentsOK'
    BY DEF IndInv, MakingOK, ContentsOK
<1> QED
    BY <1>1, <1>2, CallbacksCarried, StreamsCarried DEF IndInv

-----------------------------------------------------------------------------
(* The theorems *)

\* The server starts with no rules and no streams.
LEMMA InitInv == Init => IndInv
<1> SUFFICES ASSUME Init PROVE IndInv
    OBVIOUS
<1>1. MakingOK
    BY DEF Init, MakingOK, Idle
<1>2. ContentsOK
    BY NoContentsIsNone, MaxGenerationsAssumption DEF Init, ContentsOK
<1>3. CallbacksOK
    <2>1. posted \in [Workers -> Seq(Ids)] /\ \A w \in Workers : DOMAIN posted[w] = {}
        BY DEF Init
    <2> QED
        BY <2>1 DEF Init, CallbacksOK
<1>4. StreamsOK
    <2>1. NoStream \in StreamRecords /\ StreamOK(NoStream)
        BY DEF NoStream, StreamRecords, StreamOK, Threads, RuleEngineModes
    <2> QED
        BY <2>1 DEF Init, StreamsOK
<1> QED
    BY <1>1, <1>2, <1>3, <1>4 DEF IndInv

\* Every handler, on whichever thread, keeps the invariant.
LEMMA NextInv == IndInv /\ [Next]_vars => IndInv'
<1> SUFFICES ASSUME IndInv, [Next]_vars PROVE IndInv'
    OBVIOUS
<1>1. CASE MainNext
    <2>1. CASE ReceiveUpdate \/ Reject \/ Compile \/ DiscardCandidate \/ MakeConfig
        BY <2>1, MakeConfigStep
    <2>2. CASE Publish
        BY <2>2, PublishStep
    <2>3. CASE ServerExits
        BY <2>3, Stutter DEF ServerExits
    <2> QED
        BY <1>1, <2>1, <2>2, <2>3 DEF MainNext
<1>2. ASSUME NEW w \in Workers, WorkerTakes(w)
      PROVE  IndInv'
    BY <1>2, WorkerStep
<1>3. ASSUME NEW s \in Streams, StreamNext(s)
      PROVE  IndInv'
    BY <1>3, OpenStreamStep, StreamStep DEF StreamNext
<1>4. CASE UNCHANGED vars
    BY <1>4, Stutter DEF vars
<1> QED
    BY <1>1, <1>2, <1>3, <1>4 DEF Next

\* The invariant holds of every behavior.
LEMMA Invariant == Spec => []IndInv
    BY InitInv, NextInv, PTL DEF Spec

\* The rule_generation and rule_engine_mode that a stream reports are those of
\* the rules its transaction runs, however many updates arrive meanwhile:
\* rule_generation_id_ and rule_engine_mode_ of Filter.
THEOREM ReportsItsRules == Spec => []EventTellsRules
<1>1. IndInv => EventTellsRules
    BY DEF IndInv, StreamsOK, StreamOK, EventTellsRules
<1> QED
    BY <1>1, Invariant, PTL

\* A configuration that any stream can start with has a body memory budget
\* that admits the largest body its limits admit: the check of makeConfig.
THEOREM BudgetSuffices == Spec => []BudgetAdmitsBodies
<1>1. ASSUME IndInv, NEW c \in Usable
      PROVE  /\ contents[c] \in Update /\ ~ BudgetTooSmall(contents[c])
             /\ contents[c].well_formed /\ contents[c].loads
    <2>1. c \in Ids
        BY DEF Usable
    <2>2. CASE making.step = "made" /\ making.generation = c
        BY <1>1, <2>1, <2>2 DEF IndInv, MakingOK, ContentsOK
    <2>3. CASE ~ (making.step = "made" /\ making.generation = c)
        <3>1. c # 0
            BY <2>1, MaxGenerationsAssumption DEF Ids
        <3>2. c \in Accepted
            BY <1>1, <2>3, <3>1 DEF Usable, IndInv, CallbacksOK, StreamsOK, StreamOK
        <3> QED
            BY <1>1, <3>2, AcceptedIsGood DEF IndInv
    <2> QED
        BY <2>2, <2>3
<1>2. ASSUME NEW u \in Update, ~ BudgetTooSmall(u)
      PROVE  /\ u.request_body_max_bytes <= u.max_active_body_bytes
             /\ u.response => u.response_body_max_bytes <= u.max_active_body_bytes
    BY <1>2 DEF BudgetTooSmall, LargestBodyLimit, Update
<1>3. IndInv => BudgetAdmitsBodies
    BY <1>1, <1>2 DEF BudgetAdmitsBodies
<1> QED
    BY <1>3, Invariant, PTL

-----------------------------------------------------------------------------
(* The refinement *)

\* The server starts where the delivery does.
LEMMA InitImplements == Init => Delivery!Init
<1> SUFFICES ASSUME Init PROVE Delivery!Init
    OBVIOUS
<1>1. Accepted = {}
    BY DEF Init, Accepted
<1>2. onWorkerBar = [w \in Workers |-> 0]
    BY DEF Init, onWorkerBar, Threads
<1>3. onStreamBar = [s \in Streams |-> 0]
    BY DEF Init, onStreamBar, NoStream
<1> QED
    BY <1>1, <1>2, <1>3 DEF Delivery!Init

\* What the delivery sees of a thread and of a stream.
LEMMA UnchangedBars ==
    /\ UNCHANGED callback => UNCHANGED onWorkerBar
    /\ UNCHANGED stream => UNCHANGED onStreamBar
    BY DEF onWorkerBar, onStreamBar

\* A published configuration is an accepted version.
LEMMA PublishIsAccept ==
    ASSUME IndInv, Publish
    PROVE  Delivery!Accept
<1>1. \E v \in Ids : (\A old \in Accepted : old < v) /\ Accepted' = Accepted \cup {v}
    BY PublishAccepts
<1>2. callback' = [callback EXCEPT ![Main] = making.generation] /\ stream' = stream
    BY DEF Publish
<1>3. \A w \in Workers : callback'[w] = callback[w]
    BY <1>2, WorkersAssumption DEF IndInv, CallbacksOK, Threads
<1>4. onWorkerBar' = onWorkerBar
    BY <1>3 DEF onWorkerBar
<1>5. onStreamBar' = onStreamBar
    BY <1>2, UnchangedBars
<1> QED
    BY <1>1, <1>4, <1>5 DEF Delivery!Accept

\* A worker that takes a callback is delivered a later version.
LEMMA WorkerTakesIsDeliver ==
    ASSUME IndInv, NEW w \in Workers, WorkerTakes(w)
    PROVE  Delivery!Deliver(w)
<1> DEFINE v == callback'[w]
<1>1. Accepted' = Accepted /\ v \in Accepted /\ v > callback[w]
    BY WorkerStep
<1>2. callback' = [callback EXCEPT ![w] = v] /\ stream' = stream
    BY DEF WorkerTakes, IndInv, CallbacksOK, Threads
<1>3. onWorkerBar' = [onWorkerBar EXCEPT ![w] = v]
    <2>1. \A x \in Workers : callback'[x] = IF x = w THEN v ELSE callback[x]
        BY <1>2 DEF IndInv, CallbacksOK, Threads
    <2> QED
        BY <2>1 DEF onWorkerBar
<1>4. v > onWorkerBar[w]
    BY <1>1 DEF onWorkerBar
<1>5. onStreamBar' = onStreamBar
    BY <1>2, UnchangedBars
<1> QED
    BY <1>1, <1>3, <1>4, <1>5 DEF Delivery!Deliver

\* The version a stream of this state is inspected by.
VersionOf(t) == IF t.config # 0 THEN t.config ELSE t.native

\* A handler of a stream that replaces its state shows the delivery only the
\* version that stream is inspected by.
LEMMA OneStreamIsSeen ==
    ASSUME IndInv, NEW s \in Streams, NEW new, UpdateStream(s, new)
    PROVE  /\ Accepted' = Accepted
           /\ onWorkerBar' = onWorkerBar
           /\ onStreamBar' = [onStreamBar EXCEPT ![s] = VersionOf(new)]
           /\ onStreamBar[s] = VersionOf(stream[s])
<1>1. /\ UNCHANGED <<next_generation_id, making, contents, callback>>
      /\ stream' = [stream EXCEPT ![s] = new]
    BY DEF UpdateStream
<1>2. \A t \in Streams : stream'[t] = IF t = s THEN new ELSE stream[t]
    BY <1>1 DEF IndInv, StreamsOK
<1>3. onStreamBar' = [onStreamBar EXCEPT ![s] = VersionOf(new)]
    BY <1>2 DEF onStreamBar, VersionOf
<1> QED
    BY <1>1, <1>3, SameAccepted, UnchangedBars DEF onStreamBar, VersionOf

\* A stream keeps its version or closes.
LEMMA KeepOrClose ==
    ASSUME IndInv, NEW s \in Streams, NEW new, UpdateStream(s, new),
           VersionOf(new) \in {0, VersionOf(stream[s])}
    PROVE  Delivery!Close(s) \/ UNCHANGED Delivery!delivery
<1>1. /\ Accepted' = Accepted /\ onWorkerBar' = onWorkerBar
      /\ onStreamBar' = [onStreamBar EXCEPT ![s] = VersionOf(new)]
      /\ onStreamBar[s] = VersionOf(stream[s])
    BY OneStreamIsSeen
<1>2. CASE VersionOf(new) = VersionOf(stream[s])
    <2>1. onStreamBar' = onStreamBar
        BY <1>1, <1>2 DEF onStreamBar
    <2> QED
        BY <1>1, <2>1 DEF Delivery!delivery
<1>3. CASE VersionOf(new) = 0 /\ VersionOf(stream[s]) # 0
    BY <1>1, <1>3 DEF Delivery!Close
<1> QED
    BY <1>2, <1>3

\* A stream opens on the version of its worker.
LEMMA OpenStreamIsOpen ==
    ASSUME IndInv, NEW s \in Streams, NEW w \in Workers, OpenStream(s, w)
    PROVE  Delivery!Open(s)
<1> DEFINE new == [NoStream EXCEPT
            !.step = "opened", !.worker = w, !.config = callback[w],
            !.rule_engine_mode = contents[callback[w]].rule_engine_mode]
<1>1. callback[w] # 0 /\ stream[s].step = "none" /\ UpdateStream(s, new)
    BY DEF OpenStream
<1>2. VersionOf(new) = callback[w]
    BY <1>1 DEF NoStream, VersionOf
<1>3. VersionOf(stream[s]) = 0
    BY <1>1 DEF IndInv, StreamsOK, StreamOK, VersionOf
<1>4. onWorkerBar[w] = callback[w]
    BY DEF onWorkerBar
<1> QED
    BY <1>1, <1>2, <1>3, <1>4, OneStreamIsSeen DEF Delivery!Open

\* What else happens to a stream keeps its version or closes it.
LEMMA StreamKeepsOrCloses ==
    ASSUME IndInv, NEW s \in Streams,
           \/ Disable(s) \/ CreateTransaction(s) \/ TransactionFails(s) \/ ResetConfig(s)
           \/ Release(s) \/ Unpin(s) \/ OnDestroy(s) \/ DeleteFilter(s)
    PROVE  Delivery!Close(s) \/ UNCHANGED Delivery!delivery
<1>1. stream[s] \in StreamRecords /\ StreamOK(stream[s])
    BY DEF IndInv, StreamsOK
<1>2. CASE Disable(s)
    <2> DEFINE new == [stream[s] EXCEPT !.step = "done", !.config = 0]
    <2>1. stream[s].step = "opened" /\ UpdateStream(s, new)
        BY <1>2 DEF Disable
    <2>2. VersionOf(new) = 0
        BY <1>1, <2>1 DEF StreamRecords, StreamOK, VersionOf
    <2> QED
        BY <2>1, <2>2, KeepOrClose
<1>3. CASE CreateTransaction(s)
    <2> DEFINE g == stream[s].config
               new == [stream[s] EXCEPT !.step = "creating", !.rule_generation_id = g,
                                        !.native = g, !.pinned = g]
    <2>1. stream[s].step = "opened" /\ UpdateStream(s, new)
        BY <1>3 DEF CreateTransaction
    <2>2. VersionOf(new) = VersionOf(stream[s])
        BY <1>1, <2>1 DEF StreamRecords, StreamOK, VersionOf
    <2> QED
        BY <2>1, <2>2, KeepOrClose
<1>4. CASE TransactionFails(s)
    <2> DEFINE new == [stream[s] EXCEPT !.step = "creating",
                                        !.rule_generation_id = stream[s].config]
    <2>1. stream[s].step = "opened" /\ UpdateStream(s, new)
        BY <1>4 DEF TransactionFails
    <2>2. VersionOf(new) = VersionOf(stream[s])
        BY <1>1, <2>1 DEF StreamRecords, VersionOf
    <2> QED
        BY <2>1, <2>2, KeepOrClose
<1>5. CASE ResetConfig(s)
    <2> DEFINE new == [stream[s] EXCEPT
                !.step = IF stream[s].native = 0 THEN "done" ELSE "inspecting", !.config = 0]
    <2>1. stream[s].step = "creating" /\ UpdateStream(s, new)
        BY <1>5 DEF ResetConfig
    <2>2. VersionOf(new) \in {0, VersionOf(stream[s])}
        BY <1>1, <2>1 DEF StreamRecords, StreamOK, VersionOf
    <2> QED
        BY <2>1, <2>2, KeepOrClose
<1>6. CASE Release(s)
    <2> DEFINE new == [stream[s] EXCEPT !.step = "releasing", !.native = 0]
    <2>1. stream[s].step = "inspecting" /\ UpdateStream(s, new)
        BY <1>6 DEF Release
    <2>2. VersionOf(new) = 0
        BY <1>1, <2>1 DEF StreamRecords, StreamOK, VersionOf
    <2> QED
        BY <2>1, <2>2, KeepOrClose
<1>7. CASE Unpin(s)
    <2> DEFINE new == [stream[s] EXCEPT !.step = "done", !.pinned = 0]
    <2>1. stream[s].step = "releasing" /\ UpdateStream(s, new)
        BY <1>7 DEF Unpin
    <2>2. VersionOf(new) = VersionOf(stream[s])
        BY <1>1 DEF StreamRecords, VersionOf
    <2> QED
        BY <2>1, <2>2, KeepOrClose
<1>8. CASE OnDestroy(s)
    <2> DEFINE new == [stream[s] EXCEPT !.destroyed = TRUE]
    <2>1. UpdateStream(s, new)
        BY <1>8 DEF OnDestroy
    <2>2. VersionOf(new) = VersionOf(stream[s])
        BY <1>1 DEF StreamRecords, VersionOf
    <2> QED
        BY <2>1, <2>2, KeepOrClose
<1>9. CASE DeleteFilter(s)
    <2>1. UpdateStream(s, NoStream) /\ VersionOf(NoStream) = 0
        BY <1>9 DEF DeleteFilter, NoStream, VersionOf
    <2> QED
        BY <2>1, KeepOrClose
<1> QED
    BY <1>2, <1>3, <1>4, <1>5, <1>6, <1>7, <1>8, <1>9

\* Every step of the server is one of the delivery, or none.
LEMMA StepImplements == IndInv /\ [Next]_vars => [Delivery!Next]_(Delivery!delivery)
<1> SUFFICES ASSUME IndInv, [Next]_vars PROVE [Delivery!Next]_(Delivery!delivery)
    OBVIOUS
<1>1. CASE ReceiveUpdate \/ Reject \/ Compile \/ DiscardCandidate \/ MakeConfig
    BY <1>1, UnpublishedIsUnseen, UnchangedBars DEF Delivery!delivery
<1>2. CASE Publish
    BY <1>2, PublishIsAccept DEF Delivery!Next
<1>3. CASE ServerExits \/ UNCHANGED vars
    <2>1. UNCHANGED <<next_generation_id, making, contents, callback, stream>>
        BY <1>3 DEF ServerExits, vars
    <2> QED
        BY <2>1, SameAccepted, UnchangedBars DEF Delivery!delivery
<1>4. ASSUME NEW w \in Workers, WorkerTakes(w)
      PROVE  Delivery!Next
    BY <1>4, WorkerTakesIsDeliver DEF Delivery!Next
<1>5. ASSUME NEW s \in Streams, StreamNext(s)
      PROVE  Delivery!Next \/ UNCHANGED Delivery!delivery
    BY <1>5, OpenStreamIsOpen, StreamKeepsOrCloses DEF StreamNext, Delivery!Next
<1> QED
    BY <1>1, <1>2, <1>3, <1>4, <1>5 DEF Next, MainNext

\* Delivery by ECDS, with workers that lag behind and streams that outlive the
\* update, is what RuleDelivery promises: a stream has one accepted version
\* from its first callback to its last, and a worker goes only to later ones.
THEOREM Refinement == Spec => ImplementsDelivery
<1>1. Init => Delivery!Init
    BY InitImplements
<1>2. IndInv /\ [Next]_vars => [Delivery!Next]_(Delivery!delivery)
    BY StepImplements
<1> QED
    BY <1>1, <1>2, Invariant, PTL DEF Spec, ImplementsDelivery, Delivery!Spec

-----------------------------------------------------------------------------
(* The reference counts of RuleGenerations are exact: each is the number of  *)
(* those who hold a reference, so that what is pointed into is alive and     *)
(* what nobody needs is destroyed.                                           *)

One(b) == IF b THEN 1 ELSE 0
Same(a, b) == IF a = b THEN 1 ELSE 0

(***************************************************************************)
(* The counts of a memory, given how many hold each configuration (held)   *)
(* and how many more than the configuration hold each generation (pins).   *)
(***************************************************************************)

Memories ==
    [configs : [Ids -> Nat], generations : [Ids -> Nat], runtime : Nat,
     singleton : BOOLEAN, runtime_freed : BOOLEAN, freed : SUBSET Ids,
     active_rule_generations : Nat]

HeldIn(held) == {c \in Ids : held[c] # 0}
AliveIn(m) == {g \in Ids : m.generations[g] # 0}

Counted(m, held, pins, next) ==
    /\ m \in Memories
    /\ held \in [Ids -> Nat] /\ pins \in [Ids -> Nat]
    /\ \A c \in Ids :
        /\ m.configs[c] = held[c]
        /\ m.generations[c] = pins[c] + One(held[c] # 0)
        /\ c >= next => held[c] = 0 /\ pins[c] = 0
        /\ c \in m.freed <=> c < next /\ m.generations[c] = 0
    /\ m.active_rule_generations = Cardinality(HeldIn(held))
    /\ m.runtime = One(m.singleton) + Cardinality(AliveIn(m))
    /\ m.runtime_freed <=> m.runtime = 0

\* Sets of identifiers are finite.
LEMMA IdsFinite ==
    ASSUME NEW S \in SUBSET Ids
    PROVE  IsFiniteSet(S) /\ Cardinality(S) \in Nat
<1>1. IsFiniteSet(Ids)
    BY MaxGenerationsAssumption, FS_Interval DEF Ids
<1>2. IsFiniteSet(S)
    BY <1>1, FS_Subset
<1> QED
    BY <1>2, FS_CardinalityType

\* One more identifier.
LEMMA OneMoreId ==
    ASSUME NEW S \in SUBSET Ids, NEW c \in Ids, c \notin S
    PROVE  Cardinality(S \cup {c}) = Cardinality(S) + 1
    BY IdsFinite, FS_AddElement

\* One fewer.
LEMMA OneFewerId ==
    ASSUME NEW S \in SUBSET Ids, NEW c \in S
    PROVE  Cardinality(S \ {c}) = Cardinality(S) - 1 /\ Cardinality(S) >= 1
<1>1. IsFiniteSet(S) /\ Cardinality(S) \in Nat /\ Cardinality(S) # 0
    BY IdsFinite, FS_EmptySet
<1>2. Cardinality(S \ {c}) = Cardinality(S) - 1
    BY <1>1, FS_RemoveElement
<1> QED
    BY <1>1, <1>2

\* A pin that is dropped destroys the generation if it was the last reference,
\* and the runtime with the last generation after the singleton.
LEMMA DropGenerationCounted ==
    ASSUME NEW m, NEW held, NEW pins, NEW next \in Nat, Counted(m, held, pins, next),
           NEW g \in Ids, pins[g] > 0
    PROVE  Counted(DropGeneration(m, g), held, [pins EXCEPT ![g] = @ - 1], next)
<1> DEFINE q == [pins EXCEPT ![g] = @ - 1]
           left == [m EXCEPT !.generations[g] = @ - 1]
           gone == [left EXCEPT !.freed = @ \cup {g}]
<1>1. /\ m \in Memories /\ held \in [Ids -> Nat] /\ pins \in [Ids -> Nat]
      /\ q \in [Ids -> Nat] /\ pins[g] \in Nat /\ q[g] = pins[g] - 1
      /\ \A c \in Ids : c # g => q[c] = pins[c]
      /\ m.generations[g] = pins[g] + One(held[g] # 0)
      /\ g < next
    BY DEF Counted, Ids
<1>2. m.generations[g] \in Nat \ {0} /\ m.generations[g] = q[g] + One(held[g] # 0) + 1
    BY <1>1 DEF Memories, One
<1>3. /\ left \in Memories /\ left.generations[g] = q[g] + One(held[g] # 0)
      /\ left.configs = m.configs /\ left.freed = m.freed /\ left.runtime = m.runtime
      /\ left.singleton = m.singleton /\ left.runtime_freed = m.runtime_freed
      /\ left.active_rule_generations = m.active_rule_generations
      /\ \A c \in Ids : c # g => left.generations[c] = m.generations[c]
    BY <1>1, <1>2 DEF Memories, One
<1>4. g \in AliveIn(m) /\ AliveIn(m) \in SUBSET Ids
    BY <1>2 DEF AliveIn
<1>5. CASE left.generations[g] # 0
    <2>1. DropGeneration(m, g) = left
        BY <1>5 DEF DropGeneration
    <2>2. AliveIn(left) = AliveIn(m)
        BY <1>3, <1>4, <1>5 DEF AliveIn
    <2>3. g \notin m.freed
        BY <1>2 DEF Counted
    <2>4. \A c \in Ids :
            /\ left.configs[c] = held[c]
            /\ left.generations[c] = q[c] + One(held[c] # 0)
            /\ c >= next => held[c] = 0 /\ q[c] = 0
            /\ c \in left.freed <=> c < next /\ left.generations[c] = 0
        BY <1>1, <1>3, <1>5, <2>3 DEF Counted, Ids
    <2> QED
        BY <1>1, <1>3, <2>1, <2>2, <2>4 DEF Counted
<1>6. CASE left.generations[g] = 0
    <2> DEFINE r == [gone EXCEPT !.runtime = @ - 1, !.runtime_freed = (gone.runtime = 1)]
    <2>1. DropGeneration(m, g) = r
        BY <1>6 DEF DropGeneration, DropRuntime
    <2>2. AliveIn(r) = AliveIn(m) \ {g}
        BY <1>1, <1>3, <1>4, <1>6 DEF AliveIn, Memories
    <2>3. /\ Cardinality(AliveIn(r)) = Cardinality(AliveIn(m)) - 1
          /\ Cardinality(AliveIn(m)) \in Nat /\ Cardinality(AliveIn(m)) >= 1
        BY <1>4, <2>2, OneFewerId, IdsFinite
    <2>4. /\ m.runtime = One(m.singleton) + Cardinality(AliveIn(m))
          /\ m.runtime_freed <=> m.runtime = 0
        BY DEF Counted
    <2>5. m.runtime \in Nat /\ m.runtime - 1 \in Nat
        BY <2>3, <2>4 DEF One
    <2>6. /\ r.configs = m.configs /\ r.freed = m.freed \cup {g} /\ r.runtime = m.runtime - 1
          /\ r.generations = left.generations /\ r.singleton = m.singleton
          /\ r.runtime_freed = (m.runtime = 1)
          /\ r.active_rule_generations = m.active_rule_generations
          /\ r \in Memories
        BY <1>3, <2>5 DEF Memories
    <2>7. r.runtime = One(r.singleton) + Cardinality(AliveIn(r))
        BY <2>3, <2>4, <2>6 DEF One
    <2>10. r.runtime_freed <=> r.runtime = 0
        <3>1. r.runtime = 0 <=> m.runtime = 1
            BY <2>5, <2>6
        <3> QED
            BY <2>6, <3>1, Zenon
    <2>8. \A c \in Ids :
            /\ r.configs[c] = held[c]
            /\ r.generations[c] = q[c] + One(held[c] # 0)
            /\ c >= next => held[c] = 0 /\ q[c] = 0
            /\ c \in r.freed <=> c < next /\ r.generations[c] = 0
        BY <1>1, <1>3, <1>6, <2>6 DEF Counted, Ids
    <2>9. r.active_rule_generations = Cardinality(HeldIn(held))
        BY <2>6 DEF Counted
    <2> QED
        BY <1>1, <2>1, <2>6, <2>7, <2>8, <2>9, <2>10 DEF Counted
<1> QED
    BY <1>5, <1>6

\* The last reference to a configuration drops it: the configuration's own
\* reference to its generation is left, to be dropped in turn.
LEMMA LastConfigCounted ==
    ASSUME NEW m, NEW held, NEW pins, NEW next \in Nat, Counted(m, held, pins, next),
           NEW c \in Ids, held[c] = 1
    PROVE  Counted([m EXCEPT !.configs[c] = @ - 1, !.active_rule_generations = @ - 1],
                   [held EXCEPT ![c] = 0], [pins EXCEPT ![c] = @ + 1], next)
<1> DEFINE h == [held EXCEPT ![c] = 0]
           q == [pins EXCEPT ![c] = @ + 1]
           r == [m EXCEPT !.configs[c] = @ - 1, !.active_rule_generations = @ - 1]
<1>1. /\ m \in Memories /\ h \in [Ids -> Nat] /\ q \in [Ids -> Nat]
      /\ h[c] = 0 /\ q[c] = pins[c] + 1 /\ m.configs[c] = 1
      /\ \A d \in Ids : d # c => h[d] = held[d] /\ q[d] = pins[d]
      /\ c < next
    BY DEF Counted, Ids
<1>2. HeldIn(h) = HeldIn(held) \ {c} /\ c \in HeldIn(held) /\ HeldIn(held) \in SUBSET Ids
    BY <1>1 DEF HeldIn
<1>3. Cardinality(HeldIn(h)) = m.active_rule_generations - 1 /\ m.active_rule_generations >= 1
    <2>1. /\ Cardinality(HeldIn(h)) = Cardinality(HeldIn(held)) - 1
          /\ Cardinality(HeldIn(held)) >= 1
        BY <1>2, OneFewerId
    <2> QED
        BY <2>1 DEF Counted
<1>4. /\ r \in Memories /\ r.configs[c] = 0 /\ r.generations = m.generations
      /\ \A d \in Ids : d # c => r.configs[d] = m.configs[d]
      /\ r.freed = m.freed /\ r.runtime = m.runtime /\ r.singleton = m.singleton
      /\ r.runtime_freed = m.runtime_freed
      /\ r.active_rule_generations = m.active_rule_generations - 1
    <2>1. m.active_rule_generations - 1 \in Nat /\ m.configs[c] - 1 = 0
        BY <1>1, <1>3 DEF Memories
    <2>2. [m.configs EXCEPT ![c] = @ - 1] \in [Ids -> Nat]
        BY <1>1, <2>1 DEF Memories
    <2> QED
        BY <1>1, <2>1, <2>2 DEF Memories
<1>5. AliveIn(r) = AliveIn(m)
    BY <1>4 DEF AliveIn
<1>6. \A d \in Ids :
        /\ r.configs[d] = h[d]
        /\ r.generations[d] = q[d] + One(h[d] # 0)
        /\ d >= next => h[d] = 0 /\ q[d] = 0
        /\ d \in r.freed <=> d < next /\ r.generations[d] = 0
    BY <1>1, <1>4 DEF Counted, One, Ids
<1> QED
    BY <1>1, <1>3, <1>4, <1>5, <1>6 DEF Counted

\* A reference to a configuration that is dropped.
LEMMA DropConfigCounted ==
    ASSUME NEW m, NEW held, NEW pins, NEW next \in Nat, Counted(m, held, pins, next),
           NEW c \in Ids, held[c] > 0
    PROVE  Counted(DropConfig(m, c), [held EXCEPT ![c] = @ - 1], pins, next)
<1> DEFINE h == [held EXCEPT ![c] = @ - 1]
           left == [m EXCEPT !.configs[c] = @ - 1]
<1>1. /\ m \in Memories /\ held \in [Ids -> Nat] /\ pins \in [Ids -> Nat]
      /\ m.configs[c] = held[c] /\ held[c] \in Nat /\ c # 0
      /\ left.configs[c] = held[c] - 1
    <2>1. /\ m \in Memories /\ held \in [Ids -> Nat] /\ pins \in [Ids -> Nat]
          /\ m.configs[c] = held[c] /\ c # 0
        BY MaxGenerationsAssumption DEF Counted, Ids
    <2> QED
        BY <2>1 DEF Memories
<1>2. CASE held[c] = 1
    <2> DEFINE r == [left EXCEPT !.active_rule_generations = @ - 1]
               q == [pins EXCEPT ![c] = @ + 1]
    <2>1. DropConfig(m, c) = DropGeneration(r, c)
        BY <1>1, <1>2 DEF DropConfig
    <2>2. Counted(r, h, q, next)
        <3>1. r = [m EXCEPT !.configs[c] = @ - 1, !.active_rule_generations = @ - 1]
            BY <1>1 DEF Memories
        <3>2. h = [held EXCEPT ![c] = 0]
            BY <1>1, <1>2
        <3> QED
            BY <1>2, <3>1, <3>2, LastConfigCounted
    <2>3. q[c] > 0 /\ [q EXCEPT ![c] = @ - 1] = pins
        <3> DEFINE z == [q EXCEPT ![c] = @ - 1]
        <3>1. q[c] = pins[c] + 1 /\ pins[c] \in Nat /\ q \in [Ids -> Nat]
            BY <1>1
        <3>2. z \in [Ids -> Nat] /\ \A d \in Ids : z[d] = pins[d]
            BY <1>1, <3>1
        <3>3. z = pins
            BY <1>1, <3>2
        <3> QED
            BY <3>1, <3>3
    <2> HIDE DEF r, q
    <2> QED
        BY <2>1, <2>2, <2>3, DropGenerationCounted
<1>3. CASE held[c] # 1
    <2>1. DropConfig(m, c) = left
        BY <1>1, <1>3 DEF DropConfig
    <2>2. /\ left \in Memories /\ h \in [Ids -> Nat] /\ h[c] = held[c] - 1 /\ h[c] # 0
          /\ \A d \in Ids : d # c => h[d] = held[d] /\ left.configs[d] = m.configs[d]
          /\ left.generations = m.generations
          /\ left.freed = m.freed /\ left.runtime = m.runtime /\ left.singleton = m.singleton
          /\ left.runtime_freed = m.runtime_freed
          /\ left.active_rule_generations = m.active_rule_generations
        BY <1>1, <1>3 DEF Memories
    <2>3. HeldIn(h) = HeldIn(held) /\ AliveIn(left) = AliveIn(m)
        BY <1>1, <1>3, <2>2 DEF HeldIn, AliveIn
    <2>4. \A d \in Ids :
            /\ left.configs[d] = h[d]
            /\ left.generations[d] = pins[d] + One(h[d] # 0)
            /\ d >= next => h[d] = 0 /\ pins[d] = 0
            /\ d \in left.freed <=> d < next /\ left.generations[d] = 0
        BY <1>1, <2>2 DEF Counted, One, Ids
    <2> QED
        BY <1>1, <2>1, <2>2, <2>3, <2>4 DEF Counted
<1> QED
    BY <1>2, <1>3

\* A generation that is alive gets another pin.
LEMMA PinCounted ==
    ASSUME NEW m, NEW held, NEW pins, NEW next \in Nat, Counted(m, held, pins, next),
           NEW g \in Ids, held[g] > 0
    PROVE  Counted(PinGeneration(m, g), held, [pins EXCEPT ![g] = @ + 1], next)
<1> DEFINE q == [pins EXCEPT ![g] = @ + 1]
           r == [m EXCEPT !.generations[g] = @ + 1]
<1>1. /\ m \in Memories /\ q \in [Ids -> Nat] /\ held[g] \in Nat /\ pins[g] \in Nat
      /\ m.generations[g] = pins[g] + 1 /\ q[g] = pins[g] + 1
      /\ \A d \in Ids : d # g => q[d] = pins[d]
      /\ g < next /\ g \notin m.freed
    BY DEF Counted, Ids, One
<1>2. /\ r \in Memories /\ r.generations[g] = pins[g] + 2
      /\ \A d \in Ids : d # g => r.generations[d] = m.generations[d]
      /\ r.configs = m.configs
      /\ r.freed = m.freed /\ r.runtime = m.runtime /\ r.singleton = m.singleton
      /\ r.runtime_freed = m.runtime_freed
      /\ r.active_rule_generations = m.active_rule_generations
    BY <1>1 DEF Memories
<1>3. AliveIn(r) = AliveIn(m)
    BY <1>1, <1>2 DEF AliveIn
<1>4. \A d \in Ids :
        /\ r.configs[d] = held[d]
        /\ r.generations[d] = q[d] + One(held[d] # 0)
        /\ d >= next => held[d] = 0 /\ q[d] = 0
        /\ d \in r.freed <=> d < next /\ r.generations[d] = 0
    BY <1>1, <1>2 DEF Counted, One, Ids
<1> QED
    BY <1>1, <1>2, <1>3, <1>4 DEF Counted, PinGeneration

\* A configuration that is held gets n more holders.
LEMMA HoldCounted ==
    ASSUME NEW m, NEW held, NEW pins, NEW next \in Nat, Counted(m, held, pins, next),
           NEW c \in Ids, held[c] > 0, NEW n \in Nat
    PROVE  Counted(HoldConfig(m, c, n), [held EXCEPT ![c] = @ + n], pins, next)
<1> DEFINE h == [held EXCEPT ![c] = @ + n]
           r == [m EXCEPT !.configs[c] = @ + n]
<1>1. /\ m \in Memories /\ h \in [Ids -> Nat] /\ held[c] \in Nat
      /\ m.configs[c] = held[c] /\ h[c] = held[c] + n
      /\ \A d \in Ids : d # c => h[d] = held[d]
      /\ c < next
    BY DEF Counted, Ids
<1>2. /\ r \in Memories /\ r.configs[c] = held[c] + n
      /\ \A d \in Ids : d # c => r.configs[d] = m.configs[d]
      /\ r.generations = m.generations
      /\ r.freed = m.freed /\ r.runtime = m.runtime /\ r.singleton = m.singleton
      /\ r.runtime_freed = m.runtime_freed
      /\ r.active_rule_generations = m.active_rule_generations
    BY <1>1 DEF Memories
<1>3. AliveIn(r) = AliveIn(m) /\ HeldIn(h) = HeldIn(held)
    BY <1>1, <1>2 DEF AliveIn, HeldIn
<1>4. \A d \in Ids :
        /\ r.configs[d] = h[d]
        /\ r.generations[d] = pins[d] + One(h[d] # 0)
        /\ d >= next => h[d] = 0 /\ pins[d] = 0
        /\ d \in r.freed <=> d < next /\ r.generations[d] = 0
    BY <1>1, <1>2 DEF Counted, One, Ids
<1> QED
    BY <1>1, <1>2, <1>3, <1>4 DEF Counted, HoldConfig

-----------------------------------------------------------------------------
(***************************************************************************)
(* Who holds what.                                                         *)
(***************************************************************************)

CountOf(D, f, c) == Cardinality({x \in D : f[x] = c})

PostedTo(c) == {w \in Workers : \E i \in DOMAIN posted[w] : posted[w][i] = c}

ConfigOf == [s \in Streams |-> stream[s].config]
PinOf == [s \in Streams |-> stream[s].pinned]

\* How many hold each configuration: the frame of makeConfig, the callbacks of
\* the threads, those posted, and the streams.
Held ==
    [c \in Ids |->
        One(making.step = "made" /\ making.generation = c) + CountOf(Threads, callback, c)
        + Cardinality(PostedTo(c)) + CountOf(Streams, ConfigOf, c)]

\* How many hold each generation besides its configuration.
Pins ==
    [c \in Ids |->
        One(making.step = "compiled" /\ making.generation = c) + CountOf(Streams, PinOf, c)]

MemoryOK == Counted(memory, Held, Pins, next_generation_id)

\* The sets that are counted are finite, and empty when nothing is in them.
LEMMA CountIsNat ==
    ASSUME NEW D, IsFiniteSet(D), NEW f, NEW c
    PROVE  /\ CountOf(D, f, c) \in Nat
           /\ CountOf(D, f, c) = 0 <=> \A x \in D : f[x] # c
<1>1. IsFiniteSet({x \in D : f[x] = c})
    BY FS_Subset
<1> QED
    BY <1>1, FS_CardinalityType, FS_EmptySet DEF CountOf

\* So are the workers that a configuration is posted to.
LEMMA PostedToIsNat ==
    ASSUME NEW c
    PROVE  /\ IsFiniteSet(PostedTo(c)) /\ Cardinality(PostedTo(c)) \in Nat
           /\ Cardinality(PostedTo(c)) = 0 <=> PostedTo(c) = {}
<1>1. IsFiniteSet(PostedTo(c))
    BY FS_Subset, WorkersAssumption DEF PostedTo
<1> QED
    BY <1>1, FS_CardinalityType, FS_EmptySet

\* A server has finitely many threads.
LEMMA ThreadsFinite == IsFiniteSet(Threads)
    BY FS_AddElement, WorkersAssumption DEF Threads

\* The counts are numbers, and positive where somebody holds.
LEMMA HeldIsHeld ==
    /\ Held \in [Ids -> Nat] /\ Pins \in [Ids -> Nat]
    /\ \A c \in Ids :
        /\ Held[c] # 0 <=>
            \/ making.step = "made" /\ making.generation = c
            \/ \E t \in Threads : callback[t] = c
            \/ \E w \in Workers : \E i \in DOMAIN posted[w] : posted[w][i] = c
            \/ \E s \in Streams : stream[s].config = c
        /\ Pins[c] # 0 <=>
            \/ making.step = "compiled" /\ making.generation = c
            \/ \E s \in Streams : stream[s].pinned = c
<1> SUFFICES ASSUME NEW c \in Ids
             PROVE  /\ Held[c] \in Nat /\ Pins[c] \in Nat
                    /\ Held[c] # 0 <=>
                        \/ making.step = "made" /\ making.generation = c
                        \/ \E t \in Threads : callback[t] = c
                        \/ \E w \in Workers : \E i \in DOMAIN posted[w] : posted[w][i] = c
                        \/ \E s \in Streams : stream[s].config = c
                    /\ Pins[c] # 0 <=>
                        \/ making.step = "compiled" /\ making.generation = c
                        \/ \E s \in Streams : stream[s].pinned = c
    BY DEF Held, Pins
<1>1. /\ CountOf(Threads, callback, c) \in Nat
      /\ CountOf(Threads, callback, c) = 0 <=> \A t \in Threads : callback[t] # c
    BY CountIsNat, ThreadsFinite
<1>2. /\ CountOf(Streams, ConfigOf, c) \in Nat
      /\ CountOf(Streams, ConfigOf, c) = 0 <=> \A s \in Streams : ConfigOf[s] # c
      /\ CountOf(Streams, PinOf, c) \in Nat
      /\ CountOf(Streams, PinOf, c) = 0 <=> \A s \in Streams : PinOf[s] # c
    BY CountIsNat, StreamsAssumption
<1>3. /\ Cardinality(PostedTo(c)) \in Nat
      /\ Cardinality(PostedTo(c)) = 0 <=>
            \A w \in Workers : \A i \in DOMAIN posted[w] : posted[w][i] # c
    BY PostedToIsNat DEF PostedTo
<1>4. \A s \in Streams : ConfigOf[s] = stream[s].config /\ PinOf[s] = stream[s].pinned
    BY DEF ConfigOf, PinOf
<1>5. /\ Held[c] = One(making.step = "made" /\ making.generation = c)
                   + CountOf(Threads, callback, c) + Cardinality(PostedTo(c))
                   + CountOf(Streams, ConfigOf, c)
      /\ Pins[c] = One(making.step = "compiled" /\ making.generation = c)
                   + CountOf(Streams, PinOf, c)
    BY DEF Held, Pins
<1>6. Held[c] \in Nat /\ Pins[c] \in Nat
    BY <1>1, <1>2, <1>3, <1>5 DEF One
<1>7. /\ Held[c] # 0 <=>
            \/ making.step = "made" /\ making.generation = c
            \/ CountOf(Threads, callback, c) # 0
            \/ Cardinality(PostedTo(c)) # 0
            \/ CountOf(Streams, ConfigOf, c) # 0
      /\ Pins[c] # 0 <=>
            \/ making.step = "compiled" /\ making.generation = c
            \/ CountOf(Streams, PinOf, c) # 0
    <2> DEFINE made == making.step = "made" /\ making.generation = c
               compiled == making.step = "compiled" /\ making.generation = c
               x == CountOf(Threads, callback, c)
               y == Cardinality(PostedTo(c))
               z == CountOf(Streams, ConfigOf, c)
               p == CountOf(Streams, PinOf, c)
    <2>1. x \in Nat /\ y \in Nat /\ z \in Nat /\ p \in Nat
        BY <1>1, <1>2, <1>3
    <2>2. Held[c] = One(made) + x + y + z /\ Pins[c] = One(compiled) + p
        BY <1>5
    <2> HIDE DEF made, compiled, x, y, z, p
    <2>3. Held[c] # 0 <=> made \/ x # 0 \/ y # 0 \/ z # 0
        BY <2>1, <2>2 DEF One
    <2>4. Pins[c] # 0 <=> compiled \/ p # 0
        BY <2>1, <2>2 DEF One
    <2> QED
        BY <2>3, <2>4 DEF made, compiled, x, y, z, p
<1> QED
    BY <1>1, <1>2, <1>3, <1>4, <1>6, <1>7

\* One element that goes from a value to another.
LEMMA OneMoves ==
    \A D, f, g, x, c :
        IsFiniteSet(D) /\ x \in D /\ (\A y \in D : y # x => g[y] = f[y]) =>
            CountOf(D, g, c) = CountOf(D, f, c) + Same(g[x], c) - Same(f[x], c)
<1> SUFFICES ASSUME NEW D, IsFiniteSet(D), NEW f, NEW g, NEW x \in D, NEW c,
                    \A y \in D : y # x => g[y] = f[y]
             PROVE  CountOf(D, g, c) = CountOf(D, f, c) + Same(g[x], c) - Same(f[x], c)
    OBVIOUS
<1> DEFINE S == {y \in D : f[y] = c}
           T == {y \in D : g[y] = c}
<1>1. CountOf(D, f, c) = Cardinality(S) /\ CountOf(D, g, c) = Cardinality(T)
    BY DEF CountOf
<1>2. IsFiniteSet(S) /\ Cardinality(S) \in Nat
    BY FS_Subset, FS_CardinalityType
<1>3. CASE g[x] = c /\ f[x] # c
    <2>1. T = S \cup {x} /\ x \notin S
        BY <1>3
    <2>2. Cardinality(T) = Cardinality(S) + 1
        BY <1>2, <2>1, FS_AddElement
    <2> QED
        BY <1>1, <1>2, <1>3, <2>2 DEF Same
<1>4. CASE g[x] # c /\ f[x] = c
    <2>1. T = S \ {x} /\ x \in S
        BY <1>4
    <2>2. Cardinality(T) = Cardinality(S) - 1
        BY <1>2, <2>1, FS_RemoveElement
    <2> QED
        BY <1>1, <1>2, <1>4, <2>2 DEF Same
<1>5. CASE g[x] = c <=> f[x] = c
    <2>1. T = S
        BY <1>5
    <2> HIDE DEF S, T
    <2> QED
        BY <1>1, <1>2, <1>5, <2>1 DEF Same
<1> QED
    BY <1>3, <1>4, <1>5

\* g are the counts f after one holder of a holds b instead; 0 is nothing.
Moved(f, g, a, b) ==
    /\ f \in [Ids -> Nat] /\ g = [c \in Ids |-> g[c]]
    /\ a \in Ids \cup {0} /\ b \in Ids \cup {0} /\ (a # 0 => f[a] # 0)
    /\ \A c \in Ids : g[c] = f[c] + Same(b, c) - Same(a, c)

\* Counts that moved are the old ones but for one more or one fewer.
LEMMA OneGoes ==
    ASSUME NEW f, NEW g, NEW a, NEW b, Moved(f, g, a, b)
    PROVE  /\ b = a => g = f
           /\ b = 0 /\ a # 0 => a \in Ids /\ f[a] > 0 /\ g = [f EXCEPT ![a] = @ - 1]
           /\ b # 0 /\ a = 0 => g = [f EXCEPT ![b] = @ + 1]
<1>0. /\ f \in [Ids -> Nat] /\ g = [c \in Ids |-> g[c]]
      /\ a \in Ids \cup {0} /\ b \in Ids \cup {0} /\ (a # 0 => f[a] # 0)
      /\ \A c \in Ids : g[c] = f[c] + Same(b, c) - Same(a, c)
    BY DEF Moved
<1>1. \A c \in Ids : c # 0 /\ f[c] \in Nat
    BY <1>0, MaxGenerationsAssumption DEF Ids
<1>2. CASE b = a
    <2>1. \A c \in Ids : g[c] = f[c]
        BY <1>0, <1>1, <1>2 DEF Same
    <2> QED
        BY <1>0, <1>2, <2>1
<1>3. CASE b = 0 /\ a # 0
    <2>1. a \in Ids /\ f[a] > 0
        BY <1>0, <1>1, <1>3
    <2>2. \A c \in Ids : g[c] = IF c = a THEN f[c] - 1 ELSE f[c]
        BY <1>0, <1>1, <1>3 DEF Same
    <2>3. g = [f EXCEPT ![a] = @ - 1]
        <3> DEFINE k == [f EXCEPT ![a] = @ - 1]
        <3>1. k = [c \in Ids |-> k[c]] /\ \A c \in Ids : k[c] = g[c]
            BY <1>0, <2>1, <2>2
        <3> HIDE DEF k
        <3>2. g = k
            BY <1>0, <3>1
        <3> QED
            BY <3>2 DEF k
    <2> QED
        BY <1>3, <2>1, <2>3
<1>4. CASE b # 0 /\ a = 0
    <2>1. \A c \in Ids : g[c] = IF c = b THEN f[c] + 1 ELSE f[c]
        BY <1>0, <1>1, <1>4 DEF Same
    <2>2. g = [f EXCEPT ![b] = @ + 1]
        <3> DEFINE k == [f EXCEPT ![b] = @ + 1]
        <3>1. k = [c \in Ids |-> k[c]] /\ \A c \in Ids : k[c] = g[c]
            BY <1>0, <1>4, <2>1
        <3> HIDE DEF k
        <3>2. g = k
            BY <1>0, <3>1
        <3> QED
            BY <3>2 DEF k
    <2> QED
        BY <1>4, <2>2
<1>5. CASE b # a /\ ~ (b = 0 /\ a # 0) /\ ~ (b # 0 /\ a = 0)
    BY <1>0, <1>5
<1> QED
    BY <1>2, <1>3, <1>4, <1>5

-----------------------------------------------------------------------------
(* The handlers of a stream *)

\* How the counts follow the stream that a handler replaces.
LEMMA StreamCounts ==
    ASSUME IndInv, NEW s \in Streams, NEW new \in StreamRecords, UpdateStream(s, new)
    PROVE  /\ next_generation_id' = next_generation_id
           /\ new.config = stream[s].config => Held' = Held
           /\ new.config = 0 /\ stream[s].config # 0 =>
                /\ stream[s].config \in Ids /\ Held[stream[s].config] > 0
                /\ Held' = [Held EXCEPT ![stream[s].config] = @ - 1]
           /\ new.config # 0 /\ stream[s].config = 0 =>
                Held' = [Held EXCEPT ![new.config] = @ + 1]
           /\ new.pinned = stream[s].pinned => Pins' = Pins
           /\ new.pinned = 0 /\ stream[s].pinned # 0 =>
                /\ stream[s].pinned \in Ids /\ Pins[stream[s].pinned] > 0
                /\ Pins' = [Pins EXCEPT ![stream[s].pinned] = @ - 1]
           /\ new.pinned # 0 /\ stream[s].pinned = 0 =>
                Pins' = [Pins EXCEPT ![new.pinned] = @ + 1]
<1> DEFINE c0 == stream[s].config
           c1 == new.config
           p0 == stream[s].pinned
           p1 == new.pinned
<1>1. /\ stream' = [stream EXCEPT ![s] = new]
      /\ UNCHANGED <<next_generation_id, making, callback, posted>>
    BY DEF UpdateStream
<1>2. \A x \in Streams : stream'[x] = IF x = s THEN new ELSE stream[x]
    BY <1>1 DEF IndInv, StreamsOK
<1>3. /\ ConfigOf'[s] = c1 /\ ConfigOf[s] = c0
      /\ \A x \in Streams : x # s => ConfigOf'[x] = ConfigOf[x]
      /\ PinOf'[s] = p1 /\ PinOf[s] = p0
      /\ \A x \in Streams : x # s => PinOf'[x] = PinOf[x]
    BY <1>2 DEF ConfigOf, PinOf
<1>4. \A c : /\ CountOf(Streams, ConfigOf', c)
                    = CountOf(Streams, ConfigOf, c) + Same(c1, c) - Same(c0, c)
             /\ CountOf(Streams, PinOf', c)
                    = CountOf(Streams, PinOf, c) + Same(p1, c) - Same(p0, c)
    <2> SUFFICES ASSUME NEW c
                 PROVE  /\ CountOf(Streams, ConfigOf', c)
                            = CountOf(Streams, ConfigOf, c) + Same(c1, c) - Same(c0, c)
                        /\ CountOf(Streams, PinOf', c)
                            = CountOf(Streams, PinOf, c) + Same(p1, c) - Same(p0, c)
        OBVIOUS
    <2> HIDE DEF c0, c1, p0, p1
    <2>1. CountOf(Streams, ConfigOf', c)
            = CountOf(Streams, ConfigOf, c) + Same(ConfigOf'[s], c) - Same(ConfigOf[s], c)
        BY <1>3, OneMoves, StreamsAssumption
    <2>2. CountOf(Streams, PinOf', c)
            = CountOf(Streams, PinOf, c) + Same(PinOf'[s], c) - Same(PinOf[s], c)
        BY <1>3, OneMoves, StreamsAssumption
    <2> QED
        BY <1>3, <2>1, <2>2
<1>5. \A c \in Ids : /\ CountOf(Threads, callback, c) \in Nat
                     /\ CountOf(Streams, ConfigOf, c) \in Nat
                     /\ CountOf(Streams, PinOf, c) \in Nat
                     /\ Cardinality(PostedTo(c)) \in Nat
    BY CountIsNat, ThreadsFinite, StreamsAssumption, PostedToIsNat
<1>6. PostedTo(0)' = PostedTo(0) /\ \A c : PostedTo(c)' = PostedTo(c)
    BY <1>1 DEF PostedTo
<1>7. \A c \in Ids : /\ Held'[c] = Held[c] + Same(c1, c) - Same(c0, c)
                     /\ Pins'[c] = Pins[c] + Same(p1, c) - Same(p0, c)
    <2> SUFFICES ASSUME NEW c \in Ids
                 PROVE  /\ Held'[c] = Held[c] + Same(c1, c) - Same(c0, c)
                        /\ Pins'[c] = Pins[c] + Same(p1, c) - Same(p0, c)
        OBVIOUS
    <2> HIDE DEF c0, c1, p0, p1
    <2>1. Held[c] = One(making.step = "made" /\ making.generation = c)
                    + CountOf(Threads, callback, c) + Cardinality(PostedTo(c))
                    + CountOf(Streams, ConfigOf, c)
        BY DEF Held
    <2>2. Held'[c] = One(making.step = "made" /\ making.generation = c)
                     + CountOf(Threads, callback, c) + Cardinality(PostedTo(c))
                     + CountOf(Streams, ConfigOf', c)
        BY <1>1, <1>6 DEF Held
    <2>3. /\ Pins[c] = One(making.step = "compiled" /\ making.generation = c)
                       + CountOf(Streams, PinOf, c)
          /\ Pins'[c] = One(making.step = "compiled" /\ making.generation = c)
                       + CountOf(Streams, PinOf', c)
        BY <1>1 DEF Pins
    <2> QED
        BY <1>4, <1>5, <2>1, <2>2, <2>3 DEF Same, One
<1>8. Held' = [c \in Ids |-> Held'[c]] /\ Pins' = [c \in Ids |-> Pins'[c]]
    BY DEF Held, Pins
<1>9. Held \in [Ids -> Nat] /\ Pins \in [Ids -> Nat]
    BY HeldIsHeld
<1>10. /\ c0 \in Ids \cup {0} /\ c1 \in Ids \cup {0}
       /\ p0 \in Ids \cup {0} /\ p1 \in Ids \cup {0}
    BY DEF IndInv, StreamsOK, StreamRecords
<1>11. /\ c0 # 0 => Held[c0] # 0
       /\ p0 # 0 => Pins[p0] # 0
    BY <1>10, HeldIsHeld
<1> HIDE DEF c0, c1, p0, p1
<1>12. /\ c1 = c0 => Held' = Held
       /\ c1 = 0 /\ c0 # 0 => /\ c0 \in Ids /\ Held[c0] > 0
                              /\ Held' = [Held EXCEPT ![c0] = @ - 1]
       /\ c1 # 0 /\ c0 = 0 => Held' = [Held EXCEPT ![c1] = @ + 1]
    <2>1. \A c \in Ids : Held'[c] = Held[c] + Same(c1, c) - Same(c0, c)
        BY <1>7
    <2>2. Moved(Held, Held', c0, c1)
        BY <1>8, <1>9, <1>10, <1>11, <2>1 DEF Moved
    <2> QED
        BY <1>10, <1>11, <2>2, OneGoes
<1>13. /\ p1 = p0 => Pins' = Pins
       /\ p1 = 0 /\ p0 # 0 => /\ p0 \in Ids /\ Pins[p0] > 0
                              /\ Pins' = [Pins EXCEPT ![p0] = @ - 1]
       /\ p1 # 0 /\ p0 = 0 => Pins' = [Pins EXCEPT ![p1] = @ + 1]
    <2>1. \A c \in Ids : Pins'[c] = Pins[c] + Same(p1, c) - Same(p0, c)
        BY <1>7
    <2>2. Moved(Pins, Pins', p0, p1)
        BY <1>8, <1>9, <1>10, <1>11, <2>1 DEF Moved
    <2> QED
        BY <1>10, <1>11, <2>2, OneGoes
<1> QED
    BY <1>1, <1>12, <1>13 DEF c0, c1, p0, p1

\* A stream that opens is one more holder of what its worker holds.
LEMMA OpenStreamCounted ==
    ASSUME IndInv, MemoryOK, NEW s \in Streams, NEW w \in Workers, OpenStream(s, w)
    PROVE  MemoryOK'
<1> DEFINE new == [NoStream EXCEPT
            !.step = "opened", !.worker = w, !.config = callback[w],
            !.rule_engine_mode = contents[callback[w]].rule_engine_mode]
<1>1. /\ callback[w] # 0 /\ stream[s].step = "none" /\ UpdateStream(s, new)
      /\ memory' = HoldConfig(memory, callback[w], 1)
    BY DEF OpenStream
<1>2. callback[w] \in Ids /\ contents[callback[w]].rule_engine_mode \in RuleEngineModes
    BY <1>1, AcceptedIsGood DEF IndInv, CallbacksOK, Threads, Update
<1>3. new \in StreamRecords /\ new.config = callback[w] /\ new.pinned = 0
    BY <1>2 DEF StreamRecords, NoStream, Threads
<1>4. stream[s].config = 0 /\ stream[s].pinned = 0
    BY <1>1 DEF IndInv, StreamsOK, StreamOK
<1>5. Held[callback[w]] > 0
    BY <1>2, HeldIsHeld DEF Threads
<1> HIDE DEF new
<1>6. Held' = [Held EXCEPT ![callback[w]] = @ + 1] /\ Pins' = Pins
      /\ next_generation_id' = next_generation_id
    BY <1>1, <1>3, <1>4, StreamCounts
<1>7. next_generation_id \in Nat
    BY MaxGenerationsAssumption DEF IndInv, ContentsOK
<1>8. Counted(HoldConfig(memory, callback[w], 1), [Held EXCEPT ![callback[w]] = @ + 1], Pins,
              next_generation_id)
    BY <1>2, <1>5, <1>7, HoldCounted DEF MemoryOK
<1> QED
    BY <1>1, <1>6, <1>8 DEF MemoryOK

\* The other handlers keep account of what their stream holds.
LEMMA StreamCounted ==
    ASSUME IndInv, MemoryOK, NEW s \in Streams,
           \/ Disable(s) \/ CreateTransaction(s) \/ TransactionFails(s) \/ ResetConfig(s)
           \/ Release(s) \/ Unpin(s) \/ OnDestroy(s) \/ DeleteFilter(s)
    PROVE  MemoryOK'
<1> DEFINE c0 == stream[s].config
           p0 == stream[s].pinned
<1>1. stream[s] \in StreamRecords /\ StreamOK(stream[s])
    BY DEF IndInv, StreamsOK
<1>2. next_generation_id \in Nat
    BY MaxGenerationsAssumption DEF IndInv, ContentsOK
<1>3. ASSUME NEW new \in StreamRecords, UpdateStream(s, new),
             new.config = c0, new.pinned = p0, UNCHANGED memory
      PROVE  MemoryOK'
    BY <1>3, StreamCounts DEF MemoryOK
<1>4. ASSUME NEW new \in StreamRecords, UpdateStream(s, new),
             new.config = 0, new.pinned = p0, memory' = DropConfig(memory, c0)
      PROVE  MemoryOK'
    <2>1. CASE c0 = 0
        <3>1. memory' = memory
            BY <1>4, <2>1 DEF DropConfig
        <3> QED
            BY <1>3, <1>4, <2>1, <3>1
    <2>2. CASE c0 # 0
        <3>1. /\ c0 \in Ids /\ Held[c0] > 0 /\ Held' = [Held EXCEPT ![c0] = @ - 1]
              /\ Pins' = Pins /\ next_generation_id' = next_generation_id
            BY <1>4, <2>2, StreamCounts
        <3>2. Counted(DropConfig(memory, c0), [Held EXCEPT ![c0] = @ - 1], Pins,
                      next_generation_id)
            BY <1>2, <3>1, DropConfigCounted DEF MemoryOK
        <3> QED
            BY <1>4, <3>1, <3>2 DEF MemoryOK
    <2> QED
        BY <2>1, <2>2
<1>5. CASE Disable(s)
    <2> DEFINE new == [stream[s] EXCEPT !.step = "done", !.config = 0]
    <2>1. UpdateStream(s, new) /\ memory' = DropConfig(memory, c0)
        BY <1>5 DEF Disable
    <2>2. new \in StreamRecords /\ new.config = 0 /\ new.pinned = p0
        BY <1>1 DEF StreamRecords
    <2> QED
        BY <1>4, <2>1, <2>2
<1>6. CASE CreateTransaction(s)
    <2> DEFINE new == [stream[s] EXCEPT !.step = "creating", !.rule_generation_id = c0,
                                        !.native = c0, !.pinned = c0]
    <2>1. /\ stream[s].step = "opened" /\ UpdateStream(s, new)
          /\ memory' = PinGeneration(memory, c0)
        BY <1>6 DEF CreateTransaction
    <2>2. new \in StreamRecords /\ new.config = c0 /\ new.pinned = c0
        BY <1>1 DEF StreamRecords
    <2>3. c0 \in Ids /\ c0 # 0 /\ p0 = 0
        BY <1>1, <2>1 DEF StreamRecords, StreamOK
    <2>4. Held[c0] > 0
        BY <2>3, HeldIsHeld
    <2> HIDE DEF new
    <2>5. Held' = Held /\ Pins' = [Pins EXCEPT ![c0] = @ + 1]
          /\ next_generation_id' = next_generation_id
        BY <2>1, <2>2, <2>3, StreamCounts
    <2>6. Counted(PinGeneration(memory, c0), Held, [Pins EXCEPT ![c0] = @ + 1],
                  next_generation_id)
        BY <1>2, <2>3, <2>4, PinCounted DEF MemoryOK
    <2> QED
        BY <2>1, <2>5, <2>6 DEF MemoryOK
<1>7. CASE TransactionFails(s)
    <2> DEFINE new == [stream[s] EXCEPT !.step = "creating", !.rule_generation_id = c0]
    <2>1. UpdateStream(s, new) /\ UNCHANGED memory
        BY <1>7 DEF TransactionFails
    <2>2. new \in StreamRecords /\ new.config = c0 /\ new.pinned = p0
        BY <1>1 DEF StreamRecords
    <2> QED
        BY <1>3, <2>1, <2>2
<1>8. CASE ResetConfig(s)
    <2> DEFINE new == [stream[s] EXCEPT
                !.step = IF stream[s].native = 0 THEN "done" ELSE "inspecting", !.config = 0]
    <2>1. UpdateStream(s, new) /\ memory' = DropConfig(memory, c0)
        BY <1>8 DEF ResetConfig
    <2>2. new \in StreamRecords /\ new.config = 0 /\ new.pinned = p0
        BY <1>1 DEF StreamRecords
    <2> QED
        BY <1>4, <2>1, <2>2
<1>9. CASE Release(s)
    <2> DEFINE new == [stream[s] EXCEPT !.step = "releasing", !.native = 0]
    <2>1. UpdateStream(s, new) /\ UNCHANGED memory
        BY <1>9 DEF Release
    <2>2. new \in StreamRecords /\ new.config = c0 /\ new.pinned = p0
        BY <1>1 DEF StreamRecords
    <2> QED
        BY <1>3, <2>1, <2>2
<1>10. CASE Unpin(s)
    <2> DEFINE new == [stream[s] EXCEPT !.step = "done", !.pinned = 0]
    <2>1. /\ stream[s].step = "releasing" /\ UpdateStream(s, new)
          /\ memory' = DropGeneration(memory, p0)
        BY <1>10 DEF Unpin
    <2>2. new \in StreamRecords /\ new.config = c0 /\ new.pinned = 0
        BY <1>1 DEF StreamRecords
    <2>3. p0 # 0
        BY <1>1, <2>1, AcceptedIsGood DEF StreamOK, IndInv
    <2> HIDE DEF new
    <2>4. /\ p0 \in Ids /\ Pins[p0] > 0 /\ Pins' = [Pins EXCEPT ![p0] = @ - 1]
          /\ Held' = Held /\ next_generation_id' = next_generation_id
        BY <2>1, <2>2, <2>3, StreamCounts
    <2>5. Counted(DropGeneration(memory, p0), Held, [Pins EXCEPT ![p0] = @ - 1],
                  next_generation_id)
        BY <1>2, <2>4, DropGenerationCounted DEF MemoryOK
    <2> QED
        BY <2>1, <2>4, <2>5 DEF MemoryOK
<1>11. CASE OnDestroy(s)
    <2> DEFINE new == [stream[s] EXCEPT !.destroyed = TRUE]
    <2>1. UpdateStream(s, new) /\ UNCHANGED memory
        BY <1>11 DEF OnDestroy
    <2>2. new \in StreamRecords /\ new.config = c0 /\ new.pinned = p0
        BY <1>1 DEF StreamRecords
    <2> QED
        BY <1>3, <2>1, <2>2
<1>12. CASE DeleteFilter(s)
    <2>1. /\ stream[s].destroyed /\ UpdateStream(s, NoStream)
          /\ memory' = DropConfig(memory, c0)
        BY <1>12 DEF DeleteFilter
    <2>2. NoStream \in StreamRecords /\ NoStream.config = 0 /\ NoStream.pinned = 0
        BY DEF NoStream, StreamRecords, Threads, RuleEngineModes
    <2>3. p0 = 0
        BY <1>1, <2>1 DEF StreamOK
    <2> QED
        BY <1>4, <2>1, <2>2, <2>3
<1> QED
    BY <1>5, <1>6, <1>7, <1>8, <1>9, <1>10, <1>11, <1>12

-----------------------------------------------------------------------------
(* The workers and the main thread *)

\* What a count of the configuration's holders consists of.
LEMMA HeldParts ==
    /\ Held = [c \in Ids |-> Held[c]] /\ Pins = [c \in Ids |-> Pins[c]]
    /\ \A c \in Ids :
        /\ Held[c] = One(making.step = "made" /\ making.generation = c)
                     + CountOf(Threads, callback, c) + Cardinality(PostedTo(c))
                     + CountOf(Streams, ConfigOf, c)
        /\ Pins[c] = One(making.step = "compiled" /\ making.generation = c)
                     + CountOf(Streams, PinOf, c)
        /\ CountOf(Threads, callback, c) \in Nat /\ Cardinality(PostedTo(c)) \in Nat
        /\ CountOf(Streams, ConfigOf, c) \in Nat /\ CountOf(Streams, PinOf, c) \in Nat
    BY CountIsNat, PostedToIsNat, ThreadsFinite, StreamsAssumption DEF Held, Pins

\* Where streams are left alone, so are their counts.
LEMMA SameStreams ==
    ASSUME UNCHANGED stream
    PROVE  /\ ConfigOf' = ConfigOf /\ PinOf' = PinOf
           /\ UNCHANGED making => Pins' = Pins
<1>1. ConfigOf' = ConfigOf /\ PinOf' = PinOf
    BY DEF ConfigOf, PinOf
<1> QED
    BY <1>1 DEF Pins

\* A callback moves from a worker's queue to the worker, and the one before it
\* is dropped.
LEMMA WorkerCounted ==
    ASSUME IndInv, MemoryOK, NEW w \in Workers, WorkerTakes(w)
    PROVE  MemoryOK'
<1> DEFINE g == Head(posted[w])
           c0 == callback[w]
<1>1. /\ posted[w] # <<>>
      /\ callback' = [callback EXCEPT ![w] = g]
      /\ posted' = [posted EXCEPT ![w] = Tail(@)]
      /\ memory' = DropConfig(memory, c0)
      /\ UNCHANGED <<next_generation_id, making, contents, stream>>
    BY DEF WorkerTakes
<1>2. /\ posted[w] \in Seq(Ids) /\ 1 \in DOMAIN posted[w] /\ g = posted[w][1]
      /\ Len(posted[w]) \in Nat /\ DOMAIN posted[w] = 1..Len(posted[w])
      /\ DOMAIN Tail(posted[w]) = 1..(Len(posted[w]) - 1)
      /\ \A k \in 1..(Len(posted[w]) - 1) : Tail(posted[w])[k] = posted[w][k + 1]
    BY <1>1, HeadTailProperties, LenProperties DEF IndInv, CallbacksOK
<1>3. c0 \in Ids \cup {0}
    BY DEF IndInv, CallbacksOK, Threads
<1>4. /\ callback'[w] = g
      /\ \A t \in Threads : t # w => callback'[t] = callback[t]
    BY <1>1 DEF IndInv, CallbacksOK, Threads
<1>5. \A c : CountOf(Threads, callback', c)
                = CountOf(Threads, callback, c) + Same(g, c) - Same(c0, c)
    <2>1. w \in Threads
        BY DEF Threads
    <2>2. \A c : CountOf(Threads, callback', c)
                = CountOf(Threads, callback, c) + Same(callback'[w], c) - Same(callback[w], c)
        BY <1>4, <2>1, OneMoves, ThreadsFinite
    <2> QED
        BY <1>4, <2>2
<1>6. /\ posted'[w] = Tail(posted[w])
      /\ \A v \in Workers : v # w => posted'[v] = posted[v]
    BY <1>1 DEF IndInv, CallbacksOK
<1>7. ASSUME NEW c \in Ids
      PROVE  (\E i \in DOMAIN posted'[w] : posted'[w][i] = c)
                <=> c # g /\ (\E i \in DOMAIN posted[w] : posted[w][i] = c)
    <2>1. ASSUME NEW i \in DOMAIN posted'[w], posted'[w][i] = c
          PROVE  c # g /\ (\E j \in DOMAIN posted[w] : posted[w][j] = c)
        <3>1. i \in 1..(Len(posted[w]) - 1) /\ i + 1 \in DOMAIN posted[w] /\ 1 < i + 1
              /\ posted[w][i + 1] = c
            BY <1>2, <1>6, <2>1
        <3>2. g < c
            BY <1>2, <3>1 DEF IndInv, CallbacksOK
        <3> QED
            BY <3>1, <3>2, MaxGenerationsAssumption DEF Ids
    <2>2. ASSUME c # g, NEW i \in DOMAIN posted[w], posted[w][i] = c
          PROVE  \E j \in DOMAIN posted'[w] : posted'[w][j] = c
        <3>1. i # 1
            BY <1>2, <2>2
        <3>2. i - 1 \in 1..(Len(posted[w]) - 1) /\ (i - 1) + 1 = i
            BY <1>2, <3>1
        <3> QED
            BY <1>2, <1>6, <2>2, <3>2
    <2> QED
        BY <2>1, <2>2
<1>8. ASSUME NEW c \in Ids
      PROVE  Cardinality(PostedTo(c)') = Cardinality(PostedTo(c)) - Same(g, c)
    <2>1. IsFiniteSet(PostedTo(c)) /\ Cardinality(PostedTo(c)) \in Nat
        BY PostedToIsNat
    <2>2. CASE c = g
        <3>1. PostedTo(c)' = PostedTo(c) \ {w} /\ w \in PostedTo(c)
            <4>1. w \in PostedTo(c) /\ w \notin PostedTo(c)'
                BY <1>2, <1>7, <2>2 DEF PostedTo
            <4>2. \A v \in Workers : v # w => (v \in PostedTo(c)' <=> v \in PostedTo(c))
                BY <1>6 DEF PostedTo
            <4>3. PostedTo(c)' \subseteq Workers /\ PostedTo(c) \subseteq Workers
                BY DEF PostedTo
            <4> QED
                BY <4>1, <4>2, <4>3
        <3>2. Cardinality(PostedTo(c)') = Cardinality(PostedTo(c)) - 1
            BY <2>1, <3>1, FS_RemoveElement
        <3> QED
            BY <2>2, <3>2 DEF Same
    <2>3. CASE c # g
        <3>1. PostedTo(c)' = PostedTo(c)
            <4>1. w \in PostedTo(c)' <=> w \in PostedTo(c)
                BY <1>7, <2>3 DEF PostedTo
            <4>2. \A v \in Workers : v # w => (v \in PostedTo(c)' <=> v \in PostedTo(c))
                BY <1>6 DEF PostedTo
            <4>3. PostedTo(c)' \subseteq Workers /\ PostedTo(c) \subseteq Workers
                BY DEF PostedTo
            <4> QED
                BY <4>1, <4>2, <4>3
        <3> QED
            BY <2>1, <2>3, <3>1 DEF Same
    <2> QED
        BY <2>2, <2>3
<1> HIDE DEF g, c0
<1>9. ASSUME NEW c \in Ids
      PROVE  Held'[c] = Held[c] + Same(0, c) - Same(c0, c)
    <2>1. c # 0
        BY MaxGenerationsAssumption DEF Ids
    <2>2. Held'[c] = One(making.step = "made" /\ making.generation = c)
                     + CountOf(Threads, callback', c) + Cardinality(PostedTo(c)')
                     + CountOf(Streams, ConfigOf, c)
        BY <1>1, SameStreams DEF Held
    <2> DEFINE made == One(making.step = "made" /\ making.generation = c)
    <2>3. made \in Nat
        BY DEF One
    <2>4. /\ Held[c] = made + CountOf(Threads, callback, c) + Cardinality(PostedTo(c))
                       + CountOf(Streams, ConfigOf, c)
          /\ Held'[c] = made + CountOf(Threads, callback', c) + Cardinality(PostedTo(c)')
                        + CountOf(Streams, ConfigOf, c)
          /\ CountOf(Threads, callback, c) \in Nat /\ Cardinality(PostedTo(c)) \in Nat
          /\ CountOf(Streams, ConfigOf, c) \in Nat
        BY <2>2, HeldParts
    <2>5. /\ Same(g, c) \in Nat /\ Same(c0, c) \in Nat /\ Same(0, c) = 0
        BY <2>1 DEF Same
    <2>6. /\ CountOf(Threads, callback', c)
                = CountOf(Threads, callback, c) + Same(g, c) - Same(c0, c)
          /\ Cardinality(PostedTo(c)') = Cardinality(PostedTo(c)) - Same(g, c)
        BY <1>5, <1>8
    <2> HIDE DEF made
    <2> QED
        BY <2>3, <2>4, <2>5, <2>6
<1>10. Held' = [c \in Ids |-> Held'[c]]
    BY DEF Held
<1>11. Pins' = Pins /\ next_generation_id' = next_generation_id
    BY <1>1, SameStreams
<1>12. Held \in [Ids -> Nat] /\ (c0 # 0 => Held[c0] # 0)
    BY <1>3, HeldIsHeld DEF c0, Threads
<1>13. next_generation_id \in Nat
    BY MaxGenerationsAssumption DEF IndInv, ContentsOK
<1>14. Moved(Held, Held', c0, 0)
    BY <1>3, <1>9, <1>10, <1>12 DEF Moved
<1>15. CASE c0 = 0
    <2>1. Held' = Held
        BY <1>15, <1>14, OneGoes
    <2>2. memory' = memory
        BY <1>1, <1>15 DEF DropConfig
    <2> QED
        BY <1>11, <2>1, <2>2 DEF MemoryOK
<1>16. CASE c0 # 0
    <2>1. c0 \in Ids /\ Held[c0] > 0 /\ Held' = [Held EXCEPT ![c0] = @ - 1]
        BY <1>16, <1>14, OneGoes
    <2>2. Counted(DropConfig(memory, c0), [Held EXCEPT ![c0] = @ - 1], Pins,
                  next_generation_id)
        BY <1>13, <2>1, DropConfigCounted DEF MemoryOK
    <2> QED
        BY <1>1, <1>11, <2>1, <2>2 DEF MemoryOK
<1> QED
    BY <1>15, <1>16

\* A generation that is alive keeps the runtime alive.
LEMMA AliveNeedsRuntime ==
    ASSUME NEW m, NEW held, NEW pins, NEW next, Counted(m, held, pins, next),
           NEW g \in Ids, m.generations[g] # 0
    PROVE  m.runtime > 0 /\ ~ m.runtime_freed /\ g \notin m.freed
<1>1. g \in AliveIn(m) /\ AliveIn(m) \in SUBSET Ids
    BY DEF AliveIn
<1>2. Cardinality(AliveIn(m)) \in Nat /\ Cardinality(AliveIn(m)) >= 1
    BY <1>1, IdsFinite, OneFewerId
<1>3. m.runtime = One(m.singleton) + Cardinality(AliveIn(m)) /\ (m.runtime_freed <=> m.runtime = 0)
      /\ g \notin m.freed
    BY DEF Counted
<1>4. m.runtime > 0
    BY <1>2, <1>3 DEF One
<1> QED
    BY <1>3, <1>4

\* A candidate is a new generation that only its maker holds.
LEMMA CompileCounted ==
    ASSUME NEW m, NEW held, NEW pins, NEW n \in Ids, Counted(m, held, pins, n),
           m.runtime > 0
    PROVE  Counted([m EXCEPT !.generations[n] = 1, !.runtime = @ + 1], held,
                   [pins EXCEPT ![n] = 1], n + 1)
<1> DEFINE r == [m EXCEPT !.generations[n] = 1, !.runtime = @ + 1]
           q == [pins EXCEPT ![n] = 1]
<1>1. /\ m \in Memories /\ held \in [Ids -> Nat] /\ q \in [Ids -> Nat] /\ n \in Nat
      /\ held[n] = 0 /\ pins[n] = 0 /\ m.generations[n] = 0 /\ n \notin m.freed
      /\ q[n] = 1 /\ \A d \in Ids : d # n => q[d] = pins[d]
    BY DEF Counted, Ids, One
<1>2. /\ r \in Memories /\ r.generations[n] = 1
      /\ \A d \in Ids : d # n => r.generations[d] = m.generations[d]
      /\ r.configs = m.configs /\ r.freed = m.freed /\ r.runtime = m.runtime + 1
      /\ r.singleton = m.singleton /\ r.runtime_freed = m.runtime_freed
      /\ r.active_rule_generations = m.active_rule_generations
    <2>1. m.runtime + 1 \in Nat /\ [m.generations EXCEPT ![n] = 1] \in [Ids -> Nat]
        BY <1>1 DEF Memories
    <2> QED
        BY <1>1, <2>1 DEF Memories
<1>3. AliveIn(r) = AliveIn(m) \cup {n} /\ n \notin AliveIn(m) /\ AliveIn(m) \in SUBSET Ids
    BY <1>1, <1>2 DEF AliveIn
<1>4. /\ Cardinality(AliveIn(r)) = Cardinality(AliveIn(m)) + 1
      /\ Cardinality(AliveIn(m)) \in Nat
    BY <1>3, OneMoreId, IdsFinite
<1>5. /\ r.runtime = One(r.singleton) + Cardinality(AliveIn(r))
      /\ r.runtime_freed <=> r.runtime = 0
    <2>1. /\ m.runtime = One(m.singleton) + Cardinality(AliveIn(m))
          /\ ~ m.runtime_freed
        BY <1>1 DEF Counted, Memories
    <2>2. m.runtime \in Nat
        BY <1>1 DEF Memories
    <2>3. r.runtime = One(r.singleton) + Cardinality(AliveIn(r)) /\ r.runtime # 0
        BY <1>2, <1>4, <2>1, <2>2 DEF One
    <2>4. ~ r.runtime_freed
        BY <1>2, <2>1
    <2> QED
        BY <2>3, <2>4
<1>6. \A d \in Ids :
        /\ r.configs[d] = held[d]
        /\ r.generations[d] = q[d] + One(held[d] # 0)
        /\ d >= n + 1 => held[d] = 0 /\ q[d] = 0
        /\ d \in r.freed <=> d < n + 1 /\ r.generations[d] = 0
    <2> SUFFICES ASSUME NEW d \in Ids
                 PROVE  /\ r.configs[d] = held[d]
                        /\ r.generations[d] = q[d] + One(held[d] # 0)
                        /\ d >= n + 1 => held[d] = 0 /\ q[d] = 0
                        /\ d \in r.freed <=> d < n + 1 /\ r.generations[d] = 0
        OBVIOUS
    <2> HIDE DEF r, q
    <2>1. /\ m.configs[d] = held[d]
          /\ m.generations[d] = pins[d] + One(held[d] # 0)
          /\ d >= n => held[d] = 0 /\ pins[d] = 0
          /\ d \in m.freed <=> d < n /\ m.generations[d] = 0
          /\ d \in Nat
        BY DEF Counted, Ids
    <2>2. CASE d = n
        BY <1>1, <1>2, <2>1, <2>2 DEF One
    <2>3. CASE d # n
        BY <1>1, <1>2, <2>1, <2>3
    <2> QED
        BY <2>2, <2>3
<1> QED
    BY <1>1, <1>2, <1>5, <1>6 DEF Counted

\* A configuration takes the candidate over.
LEMMA MakeCounted ==
    ASSUME NEW m, NEW held, NEW pins, NEW next \in Nat, Counted(m, held, pins, next),
           NEW g \in Ids, held[g] = 0, pins[g] = 1
    PROVE  Counted([m EXCEPT !.configs[g] = 1, !.active_rule_generations = @ + 1],
                   [held EXCEPT ![g] = 1], [pins EXCEPT ![g] = 0], next)
<1> DEFINE r == [m EXCEPT !.configs[g] = 1, !.active_rule_generations = @ + 1]
           h == [held EXCEPT ![g] = 1]
           q == [pins EXCEPT ![g] = 0]
<1>1. /\ m \in Memories /\ h \in [Ids -> Nat] /\ q \in [Ids -> Nat]
      /\ h[g] = 1 /\ q[g] = 0 /\ m.generations[g] = 1 /\ g < next
      /\ \A d \in Ids : d # g => h[d] = held[d] /\ q[d] = pins[d]
    BY DEF Counted, Ids, One
<1>2. /\ r \in Memories /\ r.configs[g] = 1
      /\ \A d \in Ids : d # g => r.configs[d] = m.configs[d]
      /\ r.generations = m.generations
      /\ r.freed = m.freed /\ r.runtime = m.runtime /\ r.singleton = m.singleton
      /\ r.runtime_freed = m.runtime_freed
      /\ r.active_rule_generations = m.active_rule_generations + 1
    <2>1. /\ m.active_rule_generations + 1 \in Nat
          /\ [m.configs EXCEPT ![g] = 1] \in [Ids -> Nat]
        BY <1>1 DEF Memories
    <2> QED
        BY <1>1, <2>1 DEF Memories
<1>3. AliveIn(r) = AliveIn(m)
    BY <1>2 DEF AliveIn
<1>4. HeldIn(h) = HeldIn(held) \cup {g} /\ g \notin HeldIn(held) /\ HeldIn(held) \in SUBSET Ids
    BY <1>1 DEF HeldIn
<1>5. r.active_rule_generations = Cardinality(HeldIn(h))
    <2>1. Cardinality(HeldIn(h)) = Cardinality(HeldIn(held)) + 1
        BY <1>4, OneMoreId
    <2> QED
        BY <1>2, <2>1 DEF Counted
<1>6. \A d \in Ids :
        /\ r.configs[d] = h[d]
        /\ r.generations[d] = q[d] + One(h[d] # 0)
        /\ d >= next => h[d] = 0 /\ q[d] = 0
        /\ d \in r.freed <=> d < next /\ r.generations[d] = 0
    BY <1>1, <1>2 DEF Counted, One, Ids
<1> QED
    BY <1>1, <1>2, <1>3, <1>5, <1>6 DEF Counted

\* The singleton manager drops the runtime.
LEMMA ServerExitsCounted ==
    ASSUME NEW m, NEW held, NEW pins, NEW next \in Nat, Counted(m, held, pins, next),
           m.singleton
    PROVE  Counted(DropRuntime([m EXCEPT !.singleton = FALSE]), held, pins, next)
<1> DEFINE r == [m EXCEPT !.singleton = FALSE, !.runtime = @ - 1,
                          !.runtime_freed = (m.runtime = 1)]
<1>1. m \in Memories /\ AliveIn(m) \in SUBSET Ids
    BY DEF Counted, AliveIn
<1>2. Cardinality(AliveIn(m)) \in Nat
    BY <1>1, IdsFinite
<1>3. m.runtime = 1 + Cardinality(AliveIn(m))
    BY DEF Counted, One
<1>4. m.runtime - 1 \in Nat /\ m.runtime \in Nat
    BY <1>2, <1>3
<1>5. DropRuntime([m EXCEPT !.singleton = FALSE]) = r
    BY <1>1 DEF DropRuntime, Memories
<1>6. /\ r \in Memories /\ r.configs = m.configs /\ r.generations = m.generations
      /\ r.freed = m.freed /\ r.runtime = m.runtime - 1 /\ r.singleton = FALSE
      /\ r.runtime_freed = (m.runtime = 1)
      /\ r.active_rule_generations = m.active_rule_generations
    BY <1>1, <1>4 DEF Memories
<1>7. AliveIn(r) = AliveIn(m)
    BY <1>6 DEF AliveIn
<1>8. r.runtime = One(r.singleton) + Cardinality(AliveIn(r))
    BY <1>2, <1>3, <1>6, <1>7 DEF One
<1>9. r.runtime_freed <=> r.runtime = 0
    <2>1. r.runtime = 0 <=> m.runtime = 1
        BY <1>4, <1>6
    <2> QED
        BY <1>6, <2>1, Zenon
<1>10. \A d \in Ids :
        /\ r.configs[d] = held[d]
        /\ r.generations[d] = pins[d] + One(held[d] # 0)
        /\ d >= next => held[d] = 0 /\ pins[d] = 0
        /\ d \in r.freed <=> d < next /\ r.generations[d] = 0
    BY <1>6 DEF Counted
<1>11. /\ r \in Memories /\ held \in [Ids -> Nat] /\ pins \in [Ids -> Nat]
       /\ r.active_rule_generations = Cardinality(HeldIn(held))
    BY <1>6 DEF Counted
<1> HIDE DEF r
<1> QED
    BY <1>5, <1>8, <1>9, <1>10, <1>11 DEF Counted

\* Nothing but the end of the server touches the singleton.
LEMMA SingletonKept ==
    ASSUME NEW m \in Memories, NEW c, NEW n
    PROVE  /\ DropGeneration(m, c).singleton = m.singleton
           /\ DropConfig(m, c).singleton = m.singleton
           /\ PinGeneration(m, c).singleton = m.singleton
           /\ HoldConfig(m, c, n).singleton = m.singleton
    BY DEF Memories, DropGeneration, DropRuntime, DropConfig, PinGeneration, HoldConfig

\* After the end of the server the main thread's callback keeps the runtime.
MainHolds == memory.singleton \/ callback[Main] # 0

\* So it is alive whenever rules are compiled.
LEMMA RuntimeAlive ==
    ASSUME IndInv, MemoryOK, MainHolds
    PROVE  memory.runtime > 0
<1>1. /\ memory \in Memories /\ AliveIn(memory) \in SUBSET Ids
      /\ memory.runtime = One(memory.singleton) + Cardinality(AliveIn(memory))
    BY DEF MemoryOK, Counted, AliveIn
<1>2. Cardinality(AliveIn(memory)) \in Nat
    BY <1>1, IdsFinite
<1>3. CASE memory.singleton
    BY <1>1, <1>2, <1>3 DEF One
<1>4. CASE callback[Main] # 0
    <2>1. callback[Main] \in Ids
        BY <1>4 DEF IndInv, CallbacksOK, Threads
    <2>2. Held[callback[Main]] # 0 /\ Pins \in [Ids -> Nat]
        BY <2>1, HeldIsHeld DEF Threads
    <2>3. memory.generations[callback[Main]] # 0
        BY <2>1, <2>2 DEF MemoryOK, Counted, One
    <2> QED
        BY <2>1, <2>3, AliveNeedsRuntime DEF MemoryOK
<1> QED
    BY <1>3, <1>4 DEF MainHolds

\* Before a configuration is made its identifier has no holder but its maker.
LEMMA CandidateIsUnheld ==
    ASSUME IndInv, making.step = "compiled"
    PROVE  /\ making.generation \in Ids
           /\ Held[making.generation] = 0 /\ Pins[making.generation] = 1
<1> DEFINE g == making.generation
<1>1. g \in Ids /\ g # 0 /\ g \notin Accepted
    BY MaxGenerationsAssumption DEF IndInv, MakingOK, Accepted, Ids
<1>2. /\ \A t \in Threads : callback[t] # g
      /\ \A w \in Workers : \A i \in DOMAIN posted[w] : posted[w][i] # g
      /\ \A s \in Streams : stream[s].config # g /\ stream[s].pinned # g
    <2>1. \A t \in Threads : callback[t] # g
        BY <1>1 DEF IndInv, CallbacksOK
    <2>2. \A w \in Workers : \A i \in DOMAIN posted[w] : posted[w][i] # g
        BY <1>1 DEF IndInv, CallbacksOK
    <2>3. \A s \in Streams : stream[s].config # g /\ stream[s].pinned # g
        BY <1>1 DEF IndInv, StreamsOK, StreamOK
    <2> QED
        BY <2>1, <2>2, <2>3
<1>3. Held[g] = 0
    BY <1>1, <1>2, HeldIsHeld
<1>4. CountOf(Streams, PinOf, g) = 0
    <2>1. \A s \in Streams : PinOf[s] # g
        BY <1>2 DEF PinOf
    <2> QED
        BY <2>1, CountIsNat, StreamsAssumption
<1>5. Pins[g] = 1
    BY <1>1, <1>4 DEF Pins, One
<1> QED
    BY <1>1, <1>3, <1>5

\* The counts change by what makeConfig's frame holds.
LEMMA MakerCounts ==
    ASSUME IndInv, UNCHANGED <<callback, posted, stream>>
    PROVE  \A c \in Ids :
            /\ Held'[c] = Held[c] + One(making'.step = "made" /\ making'.generation = c)
                                  - One(making.step = "made" /\ making.generation = c)
            /\ Pins'[c] = Pins[c] + One(making'.step = "compiled" /\ making'.generation = c)
                                  - One(making.step = "compiled" /\ making.generation = c)
<1> SUFFICES ASSUME NEW c \in Ids
             PROVE  /\ Held'[c] = Held[c] + One(making'.step = "made" /\ making'.generation = c)
                                          - One(making.step = "made" /\ making.generation = c)
                    /\ Pins'[c] = Pins[c] + One(making'.step = "compiled" /\ making'.generation = c)
                                          - One(making.step = "compiled" /\ making.generation = c)
    OBVIOUS
<1> DEFINE a == One(making.step = "made" /\ making.generation = c)
           b == One(making'.step = "made" /\ making'.generation = c)
           d == One(making.step = "compiled" /\ making.generation = c)
           e == One(making'.step = "compiled" /\ making'.generation = c)
           n == CountOf(Threads, callback, c) + Cardinality(PostedTo(c))
                + CountOf(Streams, ConfigOf, c)
           k == CountOf(Streams, PinOf, c)
<1>1. a \in Nat /\ b \in Nat /\ d \in Nat /\ e \in Nat
    BY DEF One
<1>2. n \in Nat /\ k \in Nat /\ Held[c] = a + n /\ Pins[c] = d + k
    <2>1. /\ Held[c] = a + CountOf(Threads, callback, c) + Cardinality(PostedTo(c))
                       + CountOf(Streams, ConfigOf, c)
          /\ Pins[c] = d + k
          /\ CountOf(Threads, callback, c) \in Nat /\ Cardinality(PostedTo(c)) \in Nat
          /\ CountOf(Streams, ConfigOf, c) \in Nat /\ k \in Nat
        BY HeldParts
    <2> HIDE DEF a, d, k
    <2> QED
        BY <1>1, <2>1
<1>3. Held'[c] = b + n /\ Pins'[c] = e + k
    <2>1. PostedTo(c)' = PostedTo(c)
        BY DEF PostedTo
    <2>2. /\ Held'[c] = b + CountOf(Threads, callback, c) + Cardinality(PostedTo(c))
                        + CountOf(Streams, ConfigOf, c)
          /\ Pins'[c] = e + k
        BY <2>1, SameStreams DEF Held, Pins
    <2>3. /\ CountOf(Threads, callback, c) \in Nat /\ Cardinality(PostedTo(c)) \in Nat
          /\ CountOf(Streams, ConfigOf, c) \in Nat
        BY HeldParts
    <2> HIDE DEF b, e, k
    <2> QED
        BY <1>1, <2>2, <2>3
<1> HIDE DEF a, b, d, e, n, k
<1>4. Held'[c] = Held[c] + b - a /\ Pins'[c] = Pins[c] + e - d
    BY <1>1, <1>2, <1>3
<1> QED
    BY <1>4 DEF a, b, d, e

\* makeConfig up to the publication.
LEMMA MakingCounted ==
    ASSUME IndInv, MemoryOK, MainHolds,
           ReceiveUpdate \/ Reject \/ Compile \/ DiscardCandidate \/ MakeConfig
    PROVE  MemoryOK' /\ MainHolds'
<1> DEFINE g == making.generation
           n == next_generation_id
<1>1. /\ UNCHANGED <<callback, posted, stream>>
      /\ n \in Nat /\ memory \in Memories
      /\ Held \in [Ids -> Nat] /\ Pins \in [Ids -> Nat]
      /\ Held' = [c \in Ids |-> Held'[c]] /\ Pins' = [c \in Ids |-> Pins'[c]]
    <2>1. UNCHANGED <<callback, posted, stream>>
        BY UnpublishedIsUnseen
    <2>2. Held' = [c \in Ids |-> Held'[c]] /\ Pins' = [c \in Ids |-> Pins'[c]]
        BY DEF Held, Pins
    <2> QED
        BY <2>1, <2>2, HeldIsHeld, MaxGenerationsAssumption
            DEF IndInv, ContentsOK, MemoryOK, Counted
<1>2. \A c \in Ids :
        /\ Held'[c] = Held[c] + One(making'.step = "made" /\ making'.generation = c)
                              - One(making.step = "made" /\ making.generation = c)
        /\ Pins'[c] = Pins[c] + One(making'.step = "compiled" /\ making'.generation = c)
                              - One(making.step = "compiled" /\ making.generation = c)
    BY <1>1, MakerCounts
<1>3. CASE ReceiveUpdate \/ Reject
    <2>1. /\ making.step \in {"idle", "received"} /\ making'.step \in {"idle", "received"}
          /\ UNCHANGED <<next_generation_id, memory>>
        BY <1>3 DEF ReceiveUpdate, Reject, Idle
    <2>2. \A c \in Ids : Held'[c] = Held[c] /\ Pins'[c] = Pins[c]
        BY <1>1, <1>2, <2>1 DEF One
    <2>3. Held' = Held /\ Pins' = Pins
        BY <1>1, <2>2
    <2> QED
        BY <1>1, <2>1, <2>3 DEF MemoryOK, MainHolds
<1>4. CASE Compile
    <2>1. /\ making.step = "received" /\ making'.step = "compiled" /\ making'.generation = n
          /\ n <= MaxGenerations /\ n' = n + 1
          /\ memory' = [memory EXCEPT !.generations[n] = 1, !.runtime = @ + 1]
        BY <1>4 DEF Compile, IndInv, MakingOK
    <2>2. n \in Ids
        BY <2>1, MaxGenerationsAssumption DEF IndInv, ContentsOK, Ids
    <2>3. Pins[n] = 0
        BY <2>2 DEF MemoryOK, Counted, Ids
    <2>4. \A c \in Ids : Held'[c] = Held[c] /\ Pins'[c] = IF c = n THEN 1 ELSE Pins[c]
        BY <1>1, <1>2, <2>1, <2>3 DEF One
    <2>5. Held' = Held /\ Pins' = [Pins EXCEPT ![n] = 1]
        BY <1>1, <2>2, <2>4
    <2>6. Counted(memory', Held, [Pins EXCEPT ![n] = 1], n + 1)
        BY <2>1, <2>2, CompileCounted, RuntimeAlive DEF MemoryOK
    <2>7. memory'.singleton = memory.singleton
        BY <1>1, <2>1 DEF Memories
    <2> QED
        BY <1>1, <2>1, <2>5, <2>6, <2>7 DEF MemoryOK, MainHolds
<1>5. CASE DiscardCandidate
    <2>1. /\ making.step = "compiled" /\ making'.step = "idle" /\ n' = n
          /\ memory' = DropGeneration(memory, g)
        BY <1>5 DEF DiscardCandidate, Idle
    <2>2. g \in Ids /\ Pins[g] = 1
        BY <2>1, CandidateIsUnheld
    <2>3. \A c \in Ids : Held'[c] = Held[c] /\ Pins'[c] = IF c = g THEN Pins[c] - 1 ELSE Pins[c]
        BY <1>1, <1>2, <2>1 DEF One
    <2>4. Held' = Held /\ Pins' = [Pins EXCEPT ![g] = @ - 1]
        BY <1>1, <2>2, <2>3
    <2>5. Counted(DropGeneration(memory, g), Held, [Pins EXCEPT ![g] = @ - 1], n)
        <3>1. n \in Nat /\ g \in Ids /\ Pins[g] > 0 /\ Counted(memory, Held, Pins, n)
            BY <1>1, <2>2 DEF MemoryOK
        <3> QED
            BY <3>1, DropGenerationCounted
    <2>6. memory'.singleton = memory.singleton
        BY <1>1, <2>1, SingletonKept
    <2> QED
        BY <1>1, <2>1, <2>4, <2>5, <2>6 DEF MemoryOK, MainHolds
<1>6. CASE MakeConfig
    <2>1. /\ making.step = "compiled" /\ making'.step = "made" /\ making'.generation = g
          /\ n' = n
          /\ memory' = [memory EXCEPT !.configs[g] = 1, !.active_rule_generations = @ + 1]
        BY <1>6 DEF MakeConfig, IndInv, MakingOK
    <2>2. g \in Ids /\ Pins[g] = 1 /\ Held[g] = 0
        BY <2>1, CandidateIsUnheld
    <2>3. \A c \in Ids : /\ Held'[c] = IF c = g THEN 1 ELSE Held[c]
                         /\ Pins'[c] = IF c = g THEN 0 ELSE Pins[c]
        BY <1>1, <1>2, <2>1, <2>2 DEF One
    <2>4. Held' = [Held EXCEPT ![g] = 1] /\ Pins' = [Pins EXCEPT ![g] = 0]
        BY <1>1, <2>2, <2>3
    <2>5. Counted(memory', [Held EXCEPT ![g] = 1], [Pins EXCEPT ![g] = 0], n)
        BY <1>1, <2>1, <2>2, MakeCounted DEF MemoryOK
    <2>6. memory'.singleton = memory.singleton
        BY <1>1, <2>1 DEF Memories
    <2> QED
        BY <1>1, <2>1, <2>4, <2>5, <2>6 DEF MemoryOK, MainHolds
<1> QED
    BY <1>3, <1>4, <1>5, <1>6

\* The publication hands the configuration to every thread, and drops the one
\* the main thread had.
LEMMA PublishCounted ==
    ASSUME IndInv, MemoryOK, Publish
    PROVE  MemoryOK' /\ MainHolds'
<1> DEFINE g == making.generation
           c0 == callback[Main]
           N == Cardinality(Workers)
           h == [Held EXCEPT ![g] = @ + N]
           m == HoldConfig(memory, g, N)
<1>1. /\ making.step = "made" /\ making' = Idle
      /\ callback' = [callback EXCEPT ![Main] = g]
      /\ posted' = [w \in Workers |-> Append(posted[w], g)]
      /\ memory' = DropConfig(m, c0)
      /\ UNCHANGED <<next_generation_id, contents, stream>>
    BY DEF Publish
<1>2. /\ g \in Ids /\ g # 0 /\ c0 \in Ids \cup {0} /\ c0 # g
      /\ \A c \in Ids : c # 0
    <2>1. g \in Ids /\ \A c \in Accepted : c < g
        BY PublishAccepts
    <2>2. c0 \in Ids \cup {0} /\ (c0 # 0 => c0 \in Accepted)
        BY DEF IndInv, CallbacksOK, Threads
    <2> QED
        BY <2>1, <2>2, MaxGenerationsAssumption DEF Ids
<1>3. callback'[Main] = g /\ \A t \in Threads : t # Main => callback'[t] = callback[t]
    BY <1>1 DEF IndInv, CallbacksOK, Threads
<1>4. \A c : CountOf(Threads, callback', c)
                = CountOf(Threads, callback, c) + Same(g, c) - Same(c0, c)
    <2>1. Main \in Threads
        BY DEF Threads
    <2>2. \A c : CountOf(Threads, callback', c)
                = CountOf(Threads, callback, c) + Same(callback'[Main], c)
                    - Same(callback[Main], c)
        BY <1>3, <2>1, OneMoves, ThreadsFinite
    <2> QED
        BY <1>3, <2>2
<1>5. N \in Nat
    BY WorkersAssumption, FS_CardinalityType
<1>6. ASSUME NEW c \in Ids
      PROVE  Cardinality(PostedTo(c)') = Cardinality(PostedTo(c)) + (IF c = g THEN N ELSE 0)
    <2>1. ASSUME NEW w \in Workers
          PROVE  w \in PostedTo(c)' <=> w \in PostedTo(c) \/ c = g
        <3>1. posted[w] \in Seq(Ids) /\ posted'[w] = Append(posted[w], g)
            BY <1>1 DEF IndInv, CallbacksOK
        <3>2. /\ DOMAIN posted'[w] = 1..(Len(posted[w]) + 1) /\ Len(posted[w]) \in Nat
              /\ \A k \in 1..Len(posted[w]) : posted'[w][k] = posted[w][k]
              /\ posted'[w][Len(posted[w]) + 1] = g
              /\ DOMAIN posted[w] = 1..Len(posted[w])
            BY <1>2, <3>1, AppendProperties, LenProperties
        <3> QED
            BY <3>2 DEF PostedTo
    <2>2. PostedTo(c)' \subseteq Workers /\ PostedTo(c) \subseteq Workers
        BY DEF PostedTo
    <2>3. CASE c = g
        <3>1. PostedTo(c)' = Workers
            BY <2>1, <2>2, <2>3
        <3>2. PostedTo(c) = {}
            <4>1. \A d \in Accepted : d < g
                BY PublishAccepts
            <4>2. ASSUME NEW w \in Workers, NEW i \in DOMAIN posted[w]
                  PROVE  posted[w][i] # g
                <5>1. posted[w][i] \in Accepted
                    BY DEF IndInv, CallbacksOK
                <5> QED
                    BY <1>2, <4>1, <5>1, MaxGenerationsAssumption DEF Ids
            <4> QED
                BY <2>3, <4>2 DEF PostedTo
        <3>3. Cardinality(PostedTo(c)) = 0
            BY <3>2, FS_EmptySet
        <3> QED
            BY <1>5, <2>3, <3>1, <3>3
    <2>4. CASE c # g
        <3>1. PostedTo(c)' = PostedTo(c)
            BY <2>1, <2>2, <2>4
        <3> QED
            BY <2>4, <3>1, PostedToIsNat
    <2> QED
        BY <2>3, <2>4
<1>7. Held \in [Ids -> Nat] /\ Held[g] > 0 /\ (c0 # 0 => Held[c0] > 0)
    <2>1. Held \in [Ids -> Nat] /\ Held[g] # 0 /\ (c0 # 0 => Held[c0] # 0)
        BY <1>1, <1>2, HeldIsHeld DEF Threads
    <2> QED
        BY <1>2, <2>1
<1>8. h \in [Ids -> Nat] /\ \A c \in Ids : h[c] = Held[c] + (IF c = g THEN N ELSE 0)
    BY <1>2, <1>5, <1>7
<1> HIDE DEF h, g, c0, N, m
<1>9. ASSUME NEW c \in Ids
      PROVE  Held'[c] = h[c] + Same(0, c) - Same(c0, c)
    <2> DEFINE a == One(making.step = "made" /\ making.generation = c)
               x == CountOf(Threads, callback, c)
               y == Cardinality(PostedTo(c))
               z == CountOf(Streams, ConfigOf, c)
               x1 == CountOf(Threads, callback', c)
               y1 == Cardinality(PostedTo(c)')
    <2>1. Held[c] = a + x + y + z /\ x \in Nat /\ y \in Nat /\ z \in Nat
        BY HeldParts
    <2>2. Held'[c] = One(making'.step = "made" /\ making'.generation = c) + x1 + y1 + z
        BY <1>1, SameStreams DEF Held
    <2>3. One(making'.step = "made" /\ making'.generation = c) = 0
        BY <1>1 DEF One, Idle
    <2>4. a = Same(g, c)
        BY <1>1 DEF One, Same, g
    <2>5. x1 = x + Same(g, c) - Same(c0, c) /\ y1 = y + (IF c = g THEN N ELSE 0)
        BY <1>4, <1>6
    <2>6. Same(g, c) \in Nat /\ Same(c0, c) \in Nat /\ Same(0, c) = 0
        BY <1>2 DEF Same
    <2>7. h[c] = Held[c] + (IF c = g THEN N ELSE 0)
        BY <1>8
    <2> HIDE DEF a, x, y, z, x1, y1
    <2>8. Held'[c] = 0 + x1 + y1 + z
        BY <2>2, <2>3
    <2> QED
        BY <1>5, <2>1, <2>4, <2>5, <2>6, <2>7, <2>8
<1>10. Held' = [c \in Ids |-> Held'[c]]
    BY DEF Held
<1>11. Pins' = Pins
    <2>1. \A c \in Ids : One(making'.step = "compiled" /\ making'.generation = c)
                            = One(making.step = "compiled" /\ making.generation = c)
        BY <1>1 DEF One, Idle
    <2> QED
        BY <1>1, <2>1, SameStreams DEF Pins
<1>12. next_generation_id \in Nat /\ next_generation_id' = next_generation_id
    BY <1>1, MaxGenerationsAssumption DEF IndInv, ContentsOK
<1>13. Counted(m, h, Pins, next_generation_id)
    BY <1>2, <1>5, <1>7, <1>12, HoldCounted DEF MemoryOK, h, m
<1>14. c0 # 0 => h[c0] # 0 /\ h[c0] > 0
    BY <1>2, <1>7, <1>8, <1>5
<1>15. MainHolds'
    BY <1>2, <1>3 DEF MainHolds
<1>16. Moved(h, Held', c0, 0)
    BY <1>2, <1>8, <1>9, <1>10, <1>14 DEF Moved
<1>17. CASE c0 = 0
    <2>1. Held' = h
        BY <1>17, <1>16, OneGoes
    <2>2. memory' = m
        BY <1>1, <1>17 DEF DropConfig
    <2>3. Counted(memory', Held', Pins', next_generation_id')
        BY <1>11, <1>12, <1>13, <2>1, <2>2
    <2>4. MemoryOK'
        BY <2>3 DEF MemoryOK
    <2> QED
        BY <2>4, <1>15
<1>18. CASE c0 # 0
    <2>1. Held' = [h EXCEPT ![c0] = @ - 1] /\ c0 \in Ids
        BY <1>18, <1>16, OneGoes
    <2>2. Counted(DropConfig(m, c0), [h EXCEPT ![c0] = @ - 1], Pins, next_generation_id)
        BY <1>12, <1>13, <1>14, <1>18, <2>1, DropConfigCounted
    <2>3. Counted(memory', Held', Pins', next_generation_id')
        BY <1>1, <1>11, <1>12, <2>1, <2>2
    <2>4. MemoryOK'
        BY <2>3 DEF MemoryOK
    <2> QED
        BY <2>4, <1>15
<1> QED
    BY <1>17, <1>18

\* Streams and workers leave alone what keeps the runtime.
LEMMA OthersHold ==
    ASSUME IndInv, MemoryOK, MainHolds,
           \/ \E w \in Workers : WorkerTakes(w)
           \/ \E s \in Streams : StreamNext(s)
    PROVE  MainHolds'
<1>1. memory \in Memories
    BY DEF MemoryOK, Counted
<1>2. CASE \E w \in Workers : WorkerTakes(w)
    <2>1. PICK w \in Workers : WorkerTakes(w)
        BY <1>2
    <2>2. memory'.singleton = memory.singleton /\ callback'[Main] = callback[Main]
        BY <1>1, <2>1, SingletonKept, WorkersAssumption
            DEF WorkerTakes, IndInv, CallbacksOK, Threads
    <2> QED
        BY <2>2 DEF MainHolds
<1>3. CASE \E s \in Streams : StreamNext(s)
    <2>1. PICK s \in Streams : StreamNext(s)
        BY <1>3
    <2>2. callback' = callback
        BY <2>1 DEF StreamNext, OpenStream, Disable, CreateTransaction, TransactionFails,
                    ResetConfig, Release, Unpin, OnDestroy, DeleteFilter, UpdateStream
    <2>3. \/ memory' = memory
          \/ \E c : \/ memory' = DropConfig(memory, c) \/ memory' = DropGeneration(memory, c)
                    \/ memory' = PinGeneration(memory, c) \/ memory' = HoldConfig(memory, c, 1)
        BY <2>1 DEF StreamNext, OpenStream, Disable, CreateTransaction, TransactionFails,
                    ResetConfig, Release, Unpin, OnDestroy, DeleteFilter
    <2>4. memory'.singleton = memory.singleton
        BY <1>1, <2>3, SingletonKept
    <2> QED
        BY <2>2, <2>4 DEF MainHolds
<1> QED
    BY <1>2, <1>3

-----------------------------------------------------------------------------
(* The theorems *)

RefInv == IndInv /\ MemoryOK /\ MainHolds

\* Nobody holds anything at the start but the singleton manager the runtime.
LEMMA InitCounted == Init => RefInv
<1> SUFFICES ASSUME Init PROVE RefInv
    OBVIOUS
<1>1. IndInv
    BY InitInv
<1>2. \A c \in Ids : c # 0
    BY MaxGenerationsAssumption DEF Ids
<1>3. \A c \in Ids : Held[c] = 0 /\ Pins[c] = 0
    <2> SUFFICES ASSUME NEW c \in Ids
                 PROVE  Held[c] = 0 /\ Pins[c] = 0
        OBVIOUS
    <2>1. /\ \A t \in Threads : callback[t] # c
          /\ \A s \in Streams : stream[s].config # c /\ stream[s].pinned # c
          /\ making.step = "idle"
        BY <1>2 DEF Init, NoStream, Idle
    <2>2. \A w \in Workers : DOMAIN posted[w] = {}
        BY DEF Init
    <2> QED
        BY <2>1, <2>2, HeldIsHeld
<1>4. Held \in [Ids -> Nat] /\ Pins \in [Ids -> Nat]
    BY HeldIsHeld
<1>5. /\ memory \in Memories /\ memory.runtime = 1 /\ memory.singleton
      /\ ~ memory.runtime_freed /\ memory.freed = {}
      /\ memory.active_rule_generations = 0 /\ next_generation_id = 1
      /\ \A c \in Ids : memory.configs[c] = 0 /\ memory.generations[c] = 0
    BY DEF Init, Memories
<1>6. HeldIn(Held) = {} /\ AliveIn(memory) = {}
    BY <1>3, <1>5 DEF HeldIn, AliveIn
<1>7. /\ memory.active_rule_generations = Cardinality(HeldIn(Held))
      /\ memory.runtime = One(memory.singleton) + Cardinality(AliveIn(memory))
    BY <1>5, <1>6, FS_EmptySet DEF One
<1>8. \A c \in Ids :
        /\ memory.configs[c] = Held[c]
        /\ memory.generations[c] = Pins[c] + One(Held[c] # 0)
        /\ c >= next_generation_id => Held[c] = 0 /\ Pins[c] = 0
        /\ c \in memory.freed <=> c < next_generation_id /\ memory.generations[c] = 0
    BY <1>3, <1>5 DEF One, Ids
<1>9. memory.runtime_freed <=> memory.runtime = 0
    BY <1>5
<1>10. MemoryOK
    BY <1>4, <1>5, <1>7, <1>8, <1>9 DEF MemoryOK, Counted
<1>11. MainHolds
    BY <1>5 DEF MainHolds
<1> QED
    BY <1>1, <1>10, <1>11 DEF RefInv

\* Every step keeps account of every reference.
LEMMA NextCounted == RefInv /\ [Next]_vars => RefInv'
<1> SUFFICES ASSUME IndInv, MemoryOK, MainHolds, [Next]_vars
             PROVE  MemoryOK' /\ MainHolds'
    BY NextInv DEF RefInv
<1>1. CASE ReceiveUpdate \/ Reject \/ Compile \/ DiscardCandidate \/ MakeConfig
    BY <1>1, MakingCounted
<1>2. CASE Publish
    BY <1>2, PublishCounted
<1>3. CASE ServerExits
    <2>1. /\ memory.singleton /\ callback[Main] # 0
          /\ memory' = DropRuntime([memory EXCEPT !.singleton = FALSE])
          /\ UNCHANGED <<next_generation_id, making, callback, posted, stream>>
        BY <1>3 DEF ServerExits
    <2>2. Held' = Held /\ Pins' = Pins
        <3>1. \A c : PostedTo(c)' = PostedTo(c)
            BY <2>1 DEF PostedTo
        <3> QED
            BY <2>1, <3>1, SameStreams DEF Held
    <2>3. next_generation_id \in Nat
        BY MaxGenerationsAssumption DEF IndInv, ContentsOK
    <2>4. Counted(memory', Held, Pins, next_generation_id)
        BY <2>1, <2>3, ServerExitsCounted DEF MemoryOK
    <2>5. MemoryOK'
        BY <2>1, <2>2, <2>4 DEF MemoryOK
    <2>6. MainHolds'
        BY <2>1 DEF MainHolds
    <2> QED
        BY <2>5, <2>6
<1>4. ASSUME NEW w \in Workers, WorkerTakes(w)
      PROVE  MemoryOK' /\ MainHolds'
    BY <1>4, WorkerCounted, OthersHold
<1>5. ASSUME NEW s \in Streams, StreamNext(s)
      PROVE  MemoryOK' /\ MainHolds'
    BY <1>5, OpenStreamCounted, StreamCounted, OthersHold DEF StreamNext
<1>6. CASE UNCHANGED vars
    <2>1. UNCHANGED <<next_generation_id, making, memory, callback, posted, stream>>
        BY <1>6 DEF vars
    <2>2. Held' = Held /\ Pins' = Pins
        <3>1. \A c : PostedTo(c)' = PostedTo(c)
            BY <2>1 DEF PostedTo
        <3> QED
            BY <2>1, <3>1, SameStreams DEF Held
    <2>3. MemoryOK' /\ MainHolds'
        BY <2>1, <2>2 DEF MemoryOK, MainHolds
    <2> QED
        BY <2>3
<1> QED
    BY <1>1, <1>2, <1>3, <1>4, <1>5, <1>6 DEF Next, MainNext

\* The counts are exact in every behavior.
LEMMA References == Spec => []RefInv
    BY InitCounted, NextCounted, PTL DEF Spec

\* A native transaction never outlives the rules or the runtime it points
\* into: it is destroyed before the generation that its TransactionImpl pins,
\* whichever thread drops the last of the other references.
THEOREM NativeNeverDangles == Spec => []NativeAlive
<1>1. ASSUME RefInv, NEW s \in Streams, stream[s].native # 0
      PROVE  stream[s].native \notin memory.freed /\ ~ memory.runtime_freed
    <2>1. /\ stream[s].native \in Ids /\ stream[s].pinned = stream[s].native
        BY <1>1 DEF RefInv, IndInv, StreamsOK, StreamOK, StreamRecords
    <2>2. Pins[stream[s].native] # 0 /\ Pins \in [Ids -> Nat]
        BY <2>1, HeldIsHeld
    <2>3. memory.generations[stream[s].native] # 0
        BY <1>1, <2>1, <2>2 DEF RefInv, MemoryOK, Counted, One
    <2> QED
        BY <1>1, <2>1, <2>3, AliveNeedsRuntime DEF RefInv, MemoryOK
<1>2. RefInv => NativeAlive
    BY <1>1 DEF NativeAlive
<1> QED
    BY <1>2, References, PTL

\* Every count is the number of its holders: the gauge active_rule_generations
\* counts the configurations that a stream can still start with, and a
\* generation is destroyed exactly when nobody needs it.
THEOREM CountsAreExact == Spec => []ReferencesExact
<1>1. ASSUME RefInv
      PROVE  TypeOK
    <2>1. memory \in Memories
        BY <1>1 DEF RefInv, MemoryOK, Counted
    <2>2. /\ next_generation_id \in 1..MaxGenerations + 1
          /\ contents \in [Ids -> Update] /\ posted \in [Workers -> Seq(Ids)]
          /\ making.step \in {"idle", "received", "compiled", "made"}
          /\ Updating => making.update \in Update
        BY <1>1 DEF RefInv, IndInv, MakingOK, ContentsOK, CallbacksOK, Updating
    <2>3. Ids \cup {0} = 0..MaxGenerations
        BY MaxGenerationsAssumption DEF Ids
    <2>4. /\ making.generation \in 0..MaxGenerations
          /\ callback \in [Threads -> 0..MaxGenerations]
        BY <1>1, <2>3 DEF RefInv, IndInv, MakingOK, CallbacksOK
    <2>5. stream \in [Streams ->
            [step : {"none", "opened", "creating", "inspecting", "releasing", "done"},
             worker : Threads, config : 0..MaxGenerations, native : 0..MaxGenerations,
             pinned : 0..MaxGenerations, rule_generation_id : 0..MaxGenerations,
             rule_engine_mode : RuleEngineModes, destroyed : BOOLEAN]]
        BY <1>1, <2>3 DEF RefInv, IndInv, StreamsOK, StreamRecords
    <2> QED
        BY <2>1, <2>2, <2>4, <2>5 DEF TypeOK, Memories
<1>2. ASSUME RefInv
      PROVE  HeldIn(Held) = Usable
    <2>1. \A s \in Streams : stream[s].config # 0 <=> stream[s].step \in {"opened", "creating"}
        BY <1>2 DEF RefInv, IndInv, StreamsOK, StreamOK, StreamRecords
    <2>2. ASSUME NEW c \in Ids
          PROVE  c \in HeldIn(Held) <=> c \in Usable
        <3>1. c # 0
            BY MaxGenerationsAssumption DEF Ids
        <3> QED
            BY <2>1, <3>1, HeldIsHeld DEF HeldIn, Usable
    <2> QED
        BY <2>2 DEF HeldIn, Usable
<1>3. ASSUME RefInv, NEW g \in Ids, g < next_generation_id
      PROVE  g \in memory.freed <=> g \notin Needed
    <2>1. g \in memory.freed <=> memory.generations[g] = 0
        BY <1>3 DEF RefInv, MemoryOK, Counted
    <2>2. memory.generations[g] = 0 <=> Held[g] = 0 /\ Pins[g] = 0
        BY <1>3 DEF RefInv, MemoryOK, Counted, One
    <2>3. Held[g] = 0 <=> g \notin Usable
        BY <1>2, <1>3 DEF HeldIn
    <2>4. Pins[g] = 0 <=>
            /\ g \notin {stream[s].pinned : s \in Streams}
            /\ g \notin IF making.step = "compiled" THEN {making.generation} ELSE {}
        BY HeldIsHeld
    <2> QED
        BY <2>1, <2>2, <2>3, <2>4 DEF Needed
<1>4. RefInv => NothingRetained
    BY <1>2, <1>3 DEF NothingRetained, RefInv, MemoryOK, Counted
<1>5. RefInv => ReferencesExact
    BY <1>1, <1>4 DEF ReferencesExact
<1> QED
    BY <1>5, References, PTL
=============================================================================
