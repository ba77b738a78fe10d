-------------------------- MODULE BodyMemoryBudget --------------------------
(***************************************************************************)
(* What the body memory budget promises the streams of one filter          *)
(* configuration: an atomic object.  A reservation takes effect at one     *)
(* instant between its call and its return; it is granted exactly when the *)
(* bytes still fit at that instant and refused exactly when they do not; a *)
(* release gives back everything the stream holds and cannot fail.         *)
(***************************************************************************)
EXTENDS HeldBytes

CONSTANT Requests   \* the byte counts a stream may ask for

VARIABLES
    phase,          \* where the stream's call is
    asked,          \* the byte count of the stream's call
    held            \* the bytes the stream holds

vars == <<phase, asked, held>>

Phases ==
    {"idle", "reserving", "granted", "refused", "releasing", "released"}

TypeOK ==
    /\ phase \in [Streams -> Phases]
    /\ asked \in [Streams -> Nat]
    /\ held \in [Streams -> Amount]

Init ==
    /\ phase = [s \in Streams |-> "idle"]
    /\ asked = [s \in Streams |-> 0]
    /\ held = [s \in Streams |-> 0]

Move(s, from, to) ==
    /\ phase[s] = from
    /\ phase' = [phase EXCEPT ![s] = to]

\* tryReserve(bytes) is called, takes effect, and returns.
CallReserve(s) ==
    /\ Move(s, "idle", "reserving")
    /\ \E bytes \in Requests : asked' = [asked EXCEPT ![s] = bytes]
    /\ UNCHANGED held

Grant(s) ==
    /\ Move(s, "reserving", "granted")
    /\ Total(held) + asked[s] <= Limit
    /\ held' = [held EXCEPT ![s] = @ + asked[s]]
    /\ UNCHANGED asked

Refuse(s) ==
    /\ Move(s, "reserving", "refused")
    /\ Total(held) + asked[s] > Limit
    /\ UNCHANGED <<asked, held>>

Return(s) ==
    /\ phase[s] \in {"granted", "refused", "released"}
    /\ phase' = [phase EXCEPT ![s] = "idle"]
    /\ UNCHANGED <<asked, held>>

\* release(bytes) is called with everything the stream holds.
CallRelease(s) ==
    /\ Move(s, "idle", "releasing")
    /\ held[s] # 0
    /\ asked' = [asked EXCEPT ![s] = held[s]]
    /\ UNCHANGED held

Release(s) ==
    /\ Move(s, "releasing", "released")
    /\ held' = [held EXCEPT ![s] = 0]
    /\ UNCHANGED asked

Next ==
    \E s \in Streams :
        \/ CallReserve(s) \/ Grant(s) \/ Refuse(s)
        \/ CallRelease(s) \/ Release(s)
        \/ Return(s)

Spec == Init /\ [][Next]_vars

\* The bytes held by all streams together never exceed the configured limit.
WithinLimit == Total(held) <= Limit
=============================================================================
