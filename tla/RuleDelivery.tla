---------------------------- MODULE RuleDelivery ----------------------------
(* What ECDS promises the streams of a filter: each is inspected by one     *)
(* accepted version of the rules from its first callback to its last, and   *)
(* each worker moves from one accepted version to a later one.              *)
EXTENDS Naturals

CONSTANTS Workers, Streams, Versions

VARIABLES
    accepted,       \* the versions accepted so far
    onWorker,       \* the version each worker gives to new streams; 0 if none
    onStream        \* the version each stream is inspected by; 0 if none

delivery == <<accepted, onWorker, onStream>>

Init ==
    /\ accepted = {}
    /\ onWorker = [w \in Workers |-> 0]
    /\ onStream = [s \in Streams |-> 0]

\* An update is accepted.  A rejected one leaves no trace.
Accept ==
    /\ \E v \in Versions :
        /\ \A old \in accepted : old < v
        /\ accepted' = accepted \cup {v}
    /\ UNCHANGED <<onWorker, onStream>>

\* A worker gets a later version.
Deliver(w) ==
    /\ \E v \in accepted : v > onWorker[w] /\ onWorker' = [onWorker EXCEPT ![w] = v]
    /\ UNCHANGED <<accepted, onStream>>

Open(s) ==
    /\ onStream[s] = 0
    /\ \E w \in Workers :
        /\ onWorker[w] # 0
        /\ onStream' = [onStream EXCEPT ![s] = onWorker[w]]
    /\ UNCHANGED <<accepted, onWorker>>

Close(s) ==
    /\ onStream[s] # 0
    /\ onStream' = [onStream EXCEPT ![s] = 0]
    /\ UNCHANGED <<accepted, onWorker>>

Next ==
    \/ Accept
    \/ \E w \in Workers : Deliver(w)
    \/ \E s \in Streams : Open(s) \/ Close(s)

Spec == Init /\ [][Next]_delivery
=============================================================================
