------------------------ MODULE BodyMemoryBudgetCas ------------------------
(***************************************************************************)
(* The body memory budget as the code implements it: one atomic uint64     *)
(* counter and two compare-and-swap loops, run by streams that live on     *)
(* different worker threads.  compare_exchange_weak may fail spuriously;   *)
(* when it fails it reloads the expected value.  Every load, every CAS and *)
(* every bookkeeping step of the calling stream is an action of its own.   *)
(***************************************************************************)
EXTENDS HeldBytes

CONSTANTS
    Requests,       \* the byte counts a stream may ask for
    Modulus         \* 2^64 in the build: the range of uint64_t

ASSUME RequestsAssumption == Requests \subseteq Nat
ASSUME ModulusAssumption == Modulus \in Nat /\ Limit < Modulus

VARIABLES
    used,           \* BodyMemoryBudget::used_
    pc,             \* where the stream's thread is
    bytes,          \* the argument of its call
    current,        \* the local variable of its loop
    charged         \* Filter::charged_body_bytes_

vars == <<used, pc, bytes, current, charged>>

Locations ==
    {"idle",
     "load", "check", "swap", "granted", "refused",     \* tryReserve
     "rload", "assert", "rswap", "released", "aborted"} \* release

TypeOK ==
    /\ used \in 0..Modulus-1
    /\ pc \in [Streams -> Locations]
    /\ bytes \in [Streams -> Nat]
    /\ current \in [Streams -> 0..Modulus-1]
    /\ charged \in [Streams -> Amount]

Init ==
    /\ used = 0
    /\ pc = [s \in Streams |-> "idle"]
    /\ bytes = [s \in Streams |-> 0]
    /\ current = [s \in Streams |-> 0]
    /\ charged = [s \in Streams |-> 0]

Goto(s, from, to) ==
    /\ pc[s] = from
    /\ pc' = [pc EXCEPT ![s] = to]

\* uint64_t arithmetic.  The arguments are naturals below Modulus.
Plus(x, y) == (x + y) % Modulus
Minus(x, y) == (x + (Modulus - y)) % Modulus

\* Fault: the sum is compared with the limit after it has wrapped.
FitsWrapped(cur, n) == Plus(cur, n) <= Limit

\* The loop condition of tryReserve, negated: neither
\* "current > limit_" nor "bytes > limit_ - current".
Fits(cur, n) == cur <= Limit /\ n <= Limit - cur

-----------------------------------------------------------------------------
(* tryReserve *)

CallReserve(s) ==
    /\ Goto(s, "idle", "load")
    /\ \E n \in Requests : bytes' = [bytes EXCEPT ![s] = n]
    /\ UNCHANGED <<used, current, charged>>

Load(s, from, to) ==
    /\ Goto(s, from, to)
    /\ current' = [current EXCEPT ![s] = used]
    /\ UNCHANGED <<used, bytes, charged>>

LoadUsed(s) == Load(s, "load", "check")

Check(s) ==
    /\ Goto(s, "check", IF Fits(current[s], bytes[s]) THEN "swap" ELSE "refused")
    /\ UNCHANGED <<used, bytes, current, charged>>

\* Fault: the sum is stored whatever the counter has become.
SwapBlindly(s) ==
    /\ Goto(s, "swap", "granted")
    /\ used' = Plus(current[s], bytes[s])
    /\ UNCHANGED <<bytes, current, charged>>

Swap(s) ==
    /\ used = current[s]
    /\ Goto(s, "swap", "granted")
    /\ used' = Plus(current[s], bytes[s])
    /\ UNCHANGED <<bytes, current, charged>>

\* Fault: the value reloaded by a failed swap is not checked again.
SwapRetries(s) == Load(s, "swap", "swap")

\* The counter moved, or the weak CAS failed although it did not.
SwapFails(s) == Load(s, "swap", "check")

\* reserveBodyBytes records the admitted bytes in the stream.
Charge(s) ==
    /\ Goto(s, "granted", "idle")
    /\ charged' = [charged EXCEPT ![s] = @ + bytes[s]]
    /\ UNCHANGED <<used, bytes, current>>

Refused(s) ==
    /\ Goto(s, "refused", "idle")
    /\ UNCHANGED <<used, bytes, current, charged>>

-----------------------------------------------------------------------------
(* release, called by releaseResources with everything the stream holds *)

CallRelease(s) ==
    /\ Goto(s, "idle", "rload")
    /\ charged[s] # 0
    /\ bytes' = [bytes EXCEPT ![s] = charged[s]]
    /\ UNCHANGED <<used, current, charged>>

LoadForRelease(s) == Load(s, "rload", "assert")

\* RELEASE_ASSERT(current >= bytes) aborts the process when it fails.
CheckBytes(s) ==
    /\ Goto(s, "assert", IF current[s] >= bytes[s] THEN "rswap" ELSE "aborted")
    /\ UNCHANGED <<used, bytes, current, charged>>

ReleaseSwap(s) ==
    /\ used = current[s]
    /\ Goto(s, "rswap", "released")
    /\ used' = Minus(current[s], bytes[s])
    /\ UNCHANGED <<bytes, current, charged>>

ReleaseSwapFails(s) == Load(s, "rswap", "assert")

\* Fault: the stream forgets that it has given its bytes back.
DischargeForgotten(s) ==
    /\ Goto(s, "released", "idle")
    /\ UNCHANGED <<used, bytes, current, charged>>

Discharge(s) ==
    /\ Goto(s, "released", "idle")
    /\ charged' = [charged EXCEPT ![s] = 0]
    /\ UNCHANGED <<used, bytes, current>>

-----------------------------------------------------------------------------

Reserving(s) ==
    \/ CallReserve(s) \/ LoadUsed(s) \/ Check(s) \/ Swap(s) \/ SwapFails(s)
    \/ Charge(s) \/ Refused(s)

Releasing(s) ==
    \/ CallRelease(s) \/ LoadForRelease(s) \/ CheckBytes(s) \/ ReleaseSwap(s)
    \/ ReleaseSwapFails(s) \/ Discharge(s)

Next == \E s \in Streams : Reserving(s) \/ Releasing(s)

Spec == Init /\ [][Next]_vars

-----------------------------------------------------------------------------
(* The refinement mapping: a swap takes effect before the stream has       *)
(* written it down, and a reservation is refused when it loads a value it  *)
(* does not fit, although it finds out one step later.                     *)

heldBar ==
    [s \in Streams |->
        CASE pc[s] = "granted"  -> charged[s] + bytes[s]
          [] pc[s] = "released" -> 0
          [] OTHER              -> charged[s]]

phaseBar ==
    [s \in Streams |->
        CASE pc[s] \in {"idle", "granted", "refused", "released"} -> pc[s]
          [] pc[s] \in {"load", "swap"} -> "reserving"
          [] pc[s] = "check" ->
                IF Fits(current[s], bytes[s]) THEN "reserving" ELSE "refused"
          [] OTHER -> "releasing"]

Budget == INSTANCE BodyMemoryBudget
            WITH phase <- phaseBar, asked <- bytes, held <- heldBar

\* The loops implement the atomic budget: whatever the interleaving, every
\* reservation is granted or refused as if tryReserve and release were atomic.
ImplementsBudget == Budget!Spec

-----------------------------------------------------------------------------
(* Safety *)

\* The shared counter is the number of bytes the streams hold, also while
\* some of them are between their CAS and their own bookkeeping, and it
\* never exceeds body_memory_budget_bytes.
UsedIsHeld == used = Total(heldBar) /\ used <= Limit

\* The RELEASE_ASSERT of release never aborts the process.
NoUnderflow == \A s \in Streams : pc[s] # "aborted"
=============================================================================
