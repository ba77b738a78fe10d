---------------------- MODULE BodyMemoryBudget_proofs ----------------------
(***************************************************************************)
(* The compare-and-swap loops keep the budget and implement the atomic     *)
(* object, for every finite set of streams, every limit and every counter  *)
(* width.                                                                  *)
(***************************************************************************)
EXTENDS BodyMemoryBudgetCas, FiniteSetTheorems, TLAPS

-----------------------------------------------------------------------------
(* Facts about Total: it is a natural number, it starts at zero, it grows  *)
(* by what one stream adds, shrinks by what one stream gives back, and is  *)
(* never below the share of any stream.                                    *)

Holdings == [Streams -> Amount]

\* The bytes of any holdings are a finite set, so that Total counts them.
LEMMA BytesFinite ==
    ASSUME NEW h
    PROVE  IsFiniteSet(Bytes(h)) /\ Total(h) \in Nat
<1>1. IsFiniteSet(Streams)
    BY StreamsAssumption
<1>2. IsFiniteSet(1..Limit)
    BY LimitAssumption, FS_Interval
<1>3. IsFiniteSet(Streams \X (1..Limit))
    BY <1>1, <1>2, FS_Product
<1>4. Bytes(h) \in SUBSET (Streams \X (1..Limit))
    BY DEF Bytes
<1>5. IsFiniteSet(Bytes(h))
    BY <1>3, <1>4, FS_Subset
<1>6. QED
    BY <1>5, FS_CardinalityType DEF Total

\* Nothing is held when each stream holds nothing.
LEMMA TotalZero ==
    Total([s \in Streams |-> 0]) = 0
<1>1. Bytes([s \in Streams |-> 0]) = {}
    BY LimitAssumption DEF Bytes
<1>2. QED
    BY <1>1, FS_EmptySet DEF Total

\* The n bytes a stream that holds a bytes reserves next.
Segment(s, a, n) == {s} \X ((a + 1)..(a + n))

\* A segment has as many bytes as its length says.
LEMMA SegmentCardinality ==
    ASSUME NEW s, NEW a \in Nat, NEW n \in Nat
    PROVE  IsFiniteSet(Segment(s, a, n)) /\ Cardinality(Segment(s, a, n)) = n
<1>1. IsFiniteSet({s}) /\ Cardinality({s}) = 1
    BY FS_Singleton
<1>2. /\ IsFiniteSet((a + 1)..(a + n))
      /\ Cardinality((a + 1)..(a + n)) = n
    <2>1. a + 1 \in Int /\ a + n \in Int
        OBVIOUS
    <2>2. Cardinality((a + 1)..(a + n)) =
            IF a + 1 > a + n THEN 0 ELSE (a + n) - (a + 1) + 1
        BY <2>1, FS_Interval
    <2>3. QED
        BY <2>1, <2>2, FS_Interval
<1>3. /\ IsFiniteSet(Segment(s, a, n))
      /\ Cardinality(Segment(s, a, n)) = 1 * n
    <2> DEFINE I == (a + 1)..(a + n)
               P == {s} \X I
    <2>1. IsFiniteSet(I) /\ Cardinality(I) = n
        BY <1>2
    <2>2. IsFiniteSet(P) /\ Cardinality(P) = Cardinality({s}) * Cardinality(I)
        <3> HIDE DEF I
        <3>1. QED
            BY <1>1, <2>1, FS_Product
    <2>3. Segment(s, a, n) = P
        BY DEF Segment
    <2>4. Cardinality(P) = 1 * n
        BY <1>1, <2>1, <2>2
    <2>5. QED
        BY <2>2, <2>3, <2>4
<1>4. QED
    BY <1>3

\* What one stream adds is added to the total.
LEMMA TotalGrows ==
    ASSUME NEW h \in Holdings, NEW s \in Streams, NEW n \in Nat,
           h[s] + n <= Limit
    PROVE  Total([h EXCEPT ![s] = @ + n]) = Total(h) + n
<1> DEFINE g == [h EXCEPT ![s] = @ + n]
           Added == Segment(s, h[s], n)
<1>1. h[s] \in Nat /\ Limit \in Nat
    BY LimitAssumption DEF Holdings, Amount
<1>2. g = [t \in Streams |-> IF t = s THEN h[s] + n ELSE h[t]]
    BY DEF Holdings
<1>3. Bytes(g) = Bytes(h) \cup Added
    <2>1. ASSUME NEW b \in Bytes(g) PROVE b \in Bytes(h) \cup Added
        <3>1. b \in Streams \X (1..Limit) /\ b[2] <= g[b[1]]
            BY <2>1 DEF Bytes
        <3>2. CASE b[1] # s
            BY <3>1, <3>2, <1>2 DEF Bytes
        <3>3. CASE b[1] = s /\ b[2] <= h[s]
            BY <3>1, <3>3 DEF Bytes
        <3>4. CASE b[1] = s /\ b[2] > h[s]
            <4>1. b[2] \in (h[s] + 1)..(h[s] + n)
                BY <3>1, <3>4, <1>1, <1>2
            <4>2. b = <<b[1], b[2]>>
                BY <3>1
            <4>3. QED
                BY <4>1, <4>2, <3>4 DEF Segment
        <3>5. b[2] \in Nat
            BY <3>1, <1>1
        <3>6. QED
            BY <3>2, <3>3, <3>4, <3>5, <1>1
    <2>2. ASSUME NEW b \in Bytes(h) PROVE b \in Bytes(g)
        <3>1. b \in Streams \X (1..Limit) /\ b[2] <= h[b[1]]
            BY <2>2 DEF Bytes
        <3>2. CASE b[1] # s
            BY <3>1, <3>2, <1>2 DEF Bytes
        <3>3. CASE b[1] = s
            <4>1. b[2] \in Nat /\ b[2] <= h[s] + n
                BY <3>1, <3>3, <1>1
            <4>2. QED
                BY <4>1, <3>1, <3>3, <1>2 DEF Bytes
        <3>4. QED
            BY <3>2, <3>3
    <2>3. ASSUME NEW b \in Added PROVE b \in Bytes(g)
        <3>1. b = <<s, b[2]>> /\ b[2] \in (h[s] + 1)..(h[s] + n)
            BY <2>3 DEF Segment
        <3>2. b \in Streams \X (1..Limit)
            BY <3>1, <1>1
        <3>3. b[2] <= g[b[1]]
            BY <3>1, <1>1, <1>2
        <3>4. QED
            BY <3>2, <3>3 DEF Bytes
    <2>4. QED
        BY <2>1, <2>2, <2>3
<1>4. Bytes(h) \cap Added = {}
    <2>1. ASSUME NEW b \in Bytes(h) \cap Added PROVE FALSE
        <3>1. b[1] = s /\ b[2] \in (h[s] + 1)..(h[s] + n)
            BY <2>1 DEF Segment
        <3>2. b[2] <= h[s]
            BY <2>1, <3>1 DEF Bytes
        <3>3. QED
            BY <3>1, <3>2, <1>1
    <2>2. QED
        BY <2>1
<1>5. IsFiniteSet(Added) /\ Cardinality(Added) = n
    BY <1>1, SegmentCardinality
<1>6. Cardinality(Bytes(h) \cup Added) =
        Cardinality(Bytes(h)) + Cardinality(Added) - Cardinality(Bytes(h) \cap Added)
    BY <1>5, BytesFinite, FS_Union
<1>7. Cardinality(Bytes(h) \cap Added) = 0
    BY <1>4, FS_EmptySet
<1>8. Cardinality(Bytes(h)) \in Nat
    BY BytesFinite DEF Total
<1>9. Cardinality(Bytes(g)) = Cardinality(Bytes(h)) + n
    <2> HIDE DEF g, Added
    <2>1. QED
        BY <1>3, <1>5, <1>6, <1>7, <1>8
<1>10. QED
    BY <1>9 DEF Total

\* What one stream gives back is taken from the total.
LEMMA TotalDrops ==
    ASSUME NEW h \in Holdings, NEW s \in Streams
    PROVE  Total(h) = Total([h EXCEPT ![s] = 0]) + h[s]
<1> DEFINE g == [h EXCEPT ![s] = 0]
<1>1. h[s] \in Nat /\ h[s] <= Limit /\ Limit \in Nat
    BY LimitAssumption DEF Holdings, Amount
<1>2. g \in Holdings /\ g[s] = 0
    BY <1>1 DEF Holdings, Amount
<1>3. [g EXCEPT ![s] = @ + h[s]] = h
    <2>1. [g EXCEPT ![s] = @ + h[s]] =
            [t \in Streams |-> IF t = s THEN 0 + h[s] ELSE h[t]]
        BY DEF Holdings
    <2>2. h = [t \in Streams |-> h[t]]
        BY DEF Holdings
    <2>3. 0 + h[s] = h[s]
        BY <1>1
    <2>4. QED
        BY <2>1, <2>2, <2>3
<1>4. Total([g EXCEPT ![s] = @ + h[s]]) = Total(g) + h[s]
    <2> HIDE DEF g
    <2>1. g[s] + h[s] <= Limit
        BY <1>1, <1>2
    <2>2. QED
        BY <1>1, <1>2, <2>1, TotalGrows
<1>5. QED
    BY <1>3, <1>4

\* No stream holds more than all together.
LEMMA ShareBelowTotal ==
    ASSUME NEW h \in Holdings, NEW s \in Streams
    PROVE  h[s] <= Total(h)
<1>1. h[s] \in Nat
    BY LimitAssumption DEF Holdings, Amount
<1>2. Total([h EXCEPT ![s] = 0]) \in Nat
    BY BytesFinite
<1>3. QED
    BY <1>1, <1>2, TotalDrops

-----------------------------------------------------------------------------
(* uint64_t arithmetic does not wrap where the loops use it. *)

\* A sum within the limit does not wrap.
LEMMA PlusExact ==
    ASSUME NEW x \in Nat, NEW y \in Nat, x + y <= Limit
    PROVE  Plus(x, y) = x + y
BY LimitAssumption, ModulusAssumption DEF Plus

\* A difference of a larger and a smaller counter does not wrap.
LEMMA MinusExact ==
    ASSUME NEW x \in 0..Modulus-1, NEW y \in Nat, y <= x
    PROVE  Minus(x, y) = x - y
BY ModulusAssumption DEF Minus

-----------------------------------------------------------------------------
(* The inductive invariant.  UsedIsHeld alone is not inductive: a swap     *)
(* installs what its loop computed from an earlier load, so the invariant  *)
(* also says what each loop knows about the value it loaded.               *)

\* A loop about to swap in a reservation has checked the value it loaded.
SwapChecked ==
    \A s \in Streams : pc[s] = "swap" => Fits(current[s], bytes[s])

\* A releasing stream gives back everything it holds ...
ReleasesAll ==
    \A s \in Streams :
        pc[s] \in {"rload", "assert", "rswap", "released"} => bytes[s] = charged[s]

\* ... and has loaded a counter that includes it.
LoadedCoversRelease ==
    \A s \in Streams :
        pc[s] \in {"assert", "rswap"} => bytes[s] <= current[s]

IndInv ==
    /\ TypeOK
    /\ heldBar \in Holdings
    /\ UsedIsHeld
    /\ NoUnderflow
    /\ SwapChecked
    /\ ReleasesAll
    /\ LoadedCoversRelease

\* Initially no stream holds anything.
LEMMA InitHeld == Init => heldBar = [s \in Streams |-> 0]
BY DEF Init, heldBar

\* The invariant holds initially.
LEMMA InitInv == Init => IndInv
<1> SUFFICES ASSUME Init PROVE IndInv
    OBVIOUS
<1>1. 0 \in 0..Modulus-1 /\ 0 \in Amount
    BY LimitAssumption, ModulusAssumption DEF Amount
<1>2. TypeOK
    BY <1>1 DEF Init, TypeOK, Locations
<1>3. heldBar \in Holdings
    BY <1>1, InitHeld DEF Holdings
<1>4. UsedIsHeld
    BY InitHeld, TotalZero, LimitAssumption DEF UsedIsHeld, Init
<1>5. NoUnderflow /\ SwapChecked /\ ReleasesAll /\ LoadedCoversRelease
    BY DEF Init, NoUnderflow, SwapChecked, ReleasesAll, LoadedCoversRelease
<1>6. QED
    BY <1>2, <1>3, <1>4, <1>5 DEF IndInv

-----------------------------------------------------------------------------
(* What each action does to the bytes held. *)

Quiet(s) ==
    \/ CallReserve(s) \/ LoadUsed(s) \/ Check(s) \/ SwapFails(s) \/ Charge(s)
    \/ Refused(s) \/ CallRelease(s) \/ LoadForRelease(s) \/ CheckBytes(s)
    \/ ReleaseSwapFails(s) \/ Discharge(s)

\* A step that is no swap leaves the counter and the holdings alone.
LEMMA QuietHolds ==
    ASSUME IndInv, NEW s \in Streams, Quiet(s)
    PROVE  heldBar' = heldBar /\ used' = used
<1> USE DEF Goto
<1>1. pc \in [Streams -> Locations] /\ charged \in [Streams -> Amount]
    BY DEF IndInv, TypeOK
<1>2. ASSUME CallReserve(s) \/ CallRelease(s) \/ Refused(s)
      PROVE  heldBar' = heldBar /\ used' = used
    <2>1. /\ charged' = charged /\ used' = used
          /\ \A t \in Streams : t # s => pc'[t] = pc[t] /\ bytes'[t] = bytes[t]
          /\ pc[s] \in {"idle", "refused"} /\ pc'[s] \in {"idle", "load", "rload"}
        BY <1>1, <1>2 DEF CallReserve, CallRelease, Refused, IndInv, TypeOK
    <2>2. QED
        BY <2>1 DEF heldBar
<1>3. ASSUME LoadUsed(s) \/ SwapFails(s) \/ LoadForRelease(s) \/ ReleaseSwapFails(s)
      PROVE  heldBar' = heldBar /\ used' = used
    BY <1>1, <1>3
    DEF LoadUsed, SwapFails, LoadForRelease, ReleaseSwapFails, Load, heldBar
<1>4. ASSUME Check(s) \/ CheckBytes(s)
      PROVE  heldBar' = heldBar /\ used' = used
    BY <1>1, <1>4 DEF Check, CheckBytes, heldBar
<1>5. ASSUME Charge(s)
      PROVE  heldBar' = heldBar /\ used' = used
    BY <1>1, <1>5 DEF Charge, heldBar
<1>6. ASSUME Discharge(s)
      PROVE  heldBar' = heldBar /\ used' = used
    BY <1>1, <1>6 DEF Discharge, heldBar
<1>7. QED
    BY <1>2, <1>3, <1>4, <1>5, <1>6 DEF Quiet

\* A swap that reserves adds the same to the counter and to the holdings.
LEMMA SwapHolds ==
    ASSUME IndInv, NEW s \in Streams, Swap(s)
    PROVE  /\ bytes[s] \in Nat
           /\ heldBar[s] + bytes[s] <= Limit
           /\ used + bytes[s] <= Limit
           /\ used' = used + bytes[s]
           /\ heldBar' = [heldBar EXCEPT ![s] = @ + bytes[s]]
<1> USE DEF Swap, Goto
<1>1. /\ pc \in [Streams -> Locations] /\ charged \in [Streams -> Amount]
      /\ bytes[s] \in Nat /\ used \in Nat /\ Limit \in Nat
    BY LimitAssumption, ModulusAssumption DEF IndInv, TypeOK
<1>2. used + bytes[s] <= Limit
    BY <1>1 DEF IndInv, SwapChecked, Fits
<1>3. used' = used + bytes[s]
    BY <1>1, <1>2, PlusExact
<1>4. heldBar[s] <= used /\ heldBar[s] \in Nat
    <2>1. heldBar \in Holdings /\ used = Total(heldBar)
        BY DEF IndInv, UsedIsHeld
    <2>2. heldBar[s] \in Nat
        BY <2>1, LimitAssumption DEF Holdings, Amount
    <2>3. QED
        BY <2>1, <2>2, ShareBelowTotal
<1>5. heldBar' = [heldBar EXCEPT ![s] = @ + bytes[s]]
    BY <1>1 DEF heldBar
<1>6. QED
    BY <1>1, <1>2, <1>3, <1>4, <1>5

\* A swap that releases takes the same from the counter and the holdings.
LEMMA ReleaseSwapHolds ==
    ASSUME IndInv, NEW s \in Streams, ReleaseSwap(s)
    PROVE  /\ used' = used - heldBar[s]
           /\ heldBar[s] \in 0..used
           /\ heldBar' = [heldBar EXCEPT ![s] = 0]
<1> USE DEF ReleaseSwap, Goto
<1>1. /\ pc \in [Streams -> Locations] /\ charged \in [Streams -> Amount]
      /\ bytes[s] \in Nat /\ used \in 0..Modulus-1 /\ Limit \in Nat
    BY LimitAssumption DEF IndInv, TypeOK
<1>2. heldBar[s] = charged[s] /\ bytes[s] = charged[s]
    BY <1>1 DEF heldBar, IndInv, ReleasesAll
<1>3. heldBar[s] <= used /\ heldBar[s] \in Nat
    <2>1. heldBar \in Holdings /\ used = Total(heldBar)
        BY DEF IndInv, UsedIsHeld
    <2>2. heldBar[s] \in Nat
        BY <2>1, LimitAssumption DEF Holdings, Amount
    <2>3. QED
        BY <2>1, <2>2, ShareBelowTotal
<1>4. used' = used - bytes[s]
    BY <1>1, <1>2, <1>3, MinusExact
<1>5. heldBar' = [heldBar EXCEPT ![s] = 0]
    BY <1>1 DEF heldBar
<1>6. QED
    BY <1>1, <1>2, <1>3, <1>4, <1>5, ModulusAssumption

\* The counter stays the total of what the streams hold.
LEMMA HoldsPreserved ==
    ASSUME IndInv, NEW s \in Streams, Reserving(s) \/ Releasing(s)
    PROVE  heldBar' \in Holdings /\ UsedIsHeld'
<1>1. CASE Quiet(s)
    BY <1>1, QuietHolds DEF IndInv, UsedIsHeld
<1>2. CASE Swap(s)
    <2>1. heldBar \in Holdings /\ used = Total(heldBar) /\ Limit \in Nat
        BY LimitAssumption DEF IndInv, UsedIsHeld
    <2>2. heldBar' \in Holdings
        BY <1>2, <2>1, SwapHolds DEF Holdings, Amount
    <2>3. Total(heldBar') = Total(heldBar) + bytes[s]
        BY <1>2, <2>1, SwapHolds, TotalGrows
    <2>4. QED
        BY <1>2, <2>1, <2>2, <2>3, SwapHolds DEF UsedIsHeld
<1>3. CASE ReleaseSwap(s)
    <2>1. heldBar \in Holdings /\ used = Total(heldBar) /\ Limit \in Nat /\ used <= Limit
        BY LimitAssumption DEF IndInv, UsedIsHeld
    <2>2. heldBar' \in Holdings
        BY <1>3, <2>1, ReleaseSwapHolds DEF Holdings, Amount
    <2>3. Total(heldBar) = Total(heldBar') + heldBar[s]
        BY <1>3, <2>1, ReleaseSwapHolds, TotalDrops
    <2>4. Total(heldBar') \in Nat /\ Total(heldBar) \in Nat
        BY BytesFinite
    <2>5. used' = Total(heldBar') /\ used' <= Limit
        BY <1>3, <2>1, <2>3, <2>4, ReleaseSwapHolds
    <2>6. QED
        BY <2>2, <2>5 DEF UsedIsHeld
<1>4. QED
    BY <1>1, <1>2, <1>3 DEF Quiet, Reserving, Releasing

-----------------------------------------------------------------------------
(* The other conjuncts. *)

\* Every step keeps the types.
LEMMA TypePreserved ==
    ASSUME IndInv, NEW s \in Streams, Reserving(s) \/ Releasing(s)
    PROVE  TypeOK'
<1> USE DEF TypeOK, Goto, Load, Locations
<1>1. TypeOK /\ Limit \in Nat /\ Modulus \in Nat /\ Limit < Modulus
    BY LimitAssumption, ModulusAssumption DEF IndInv
<1>2. CASE CallReserve(s)
    BY <1>1, <1>2, RequestsAssumption DEF CallReserve
<1>3. CASE LoadUsed(s) \/ SwapFails(s) \/ LoadForRelease(s) \/ ReleaseSwapFails(s)
    BY <1>1, <1>3 DEF LoadUsed, SwapFails, LoadForRelease, ReleaseSwapFails
<1>4. CASE Check(s) \/ CheckBytes(s)
    BY <1>1, <1>4 DEF Check, CheckBytes
<1>5. CASE Swap(s)
    <2>1. used' = used + bytes[s] /\ used + bytes[s] <= Limit
        BY <1>5, SwapHolds
    <2>2. used' \in 0..Modulus-1
        BY <1>1, <2>1
    <2>3. QED
        BY <1>1, <1>5, <2>2 DEF Swap
<1>6. CASE Charge(s)
    <2>1. heldBar[s] = charged[s] + bytes[s] /\ heldBar[s] \in Amount
        BY <1>6 DEF Charge, heldBar, IndInv, Holdings
    <2>2. QED
        BY <1>1, <1>6, <2>1 DEF Charge
<1>7. CASE Refused(s)
    BY <1>1, <1>7 DEF Refused
<1>8. CASE CallRelease(s)
    BY <1>1, <1>8 DEF CallRelease, Amount
<1>9. CASE ReleaseSwap(s)
    <2>1. used' = used - heldBar[s] /\ heldBar[s] \in 0..used
        BY <1>9, ReleaseSwapHolds
    <2>2. used' \in 0..Modulus-1
        BY <1>1, <2>1
    <2>3. QED
        BY <1>1, <1>9, <2>2 DEF ReleaseSwap
<1>10. CASE Discharge(s)
    BY <1>1, <1>10 DEF Discharge, Amount
<1>11. QED
    BY <1>2, <1>3, <1>4, <1>5, <1>6, <1>7, <1>8, <1>9, <1>10
    DEF Reserving, Releasing

\* A release loads a counter that includes the bytes it gives back.
LEMMA LoadCovers ==
    ASSUME IndInv, NEW s \in Streams, pc[s] \in {"rload", "assert", "rswap"}
    PROVE  bytes[s] <= used
<1>1. heldBar \in Holdings /\ used = Total(heldBar)
    BY DEF IndInv, UsedIsHeld
<1>2. heldBar[s] <= used
    BY <1>1, ShareBelowTotal
<1>3. heldBar[s] = bytes[s]
    BY DEF heldBar, IndInv, ReleasesAll
<1>4. QED
    BY <1>2, <1>3

\* Every step keeps what the loops know of what they loaded.
LEMMA LoopsPreserved ==
    ASSUME IndInv, NEW s \in Streams, Reserving(s) \/ Releasing(s)
    PROVE  /\ NoUnderflow'
           /\ SwapChecked'
           /\ ReleasesAll'
           /\ LoadedCoversRelease'
<1> DEFINE Known == NoUnderflow' /\ SwapChecked' /\ ReleasesAll' /\ LoadedCoversRelease'
<1> USE DEF NoUnderflow, SwapChecked, ReleasesAll, LoadedCoversRelease, Goto, Load
<1>1. /\ TypeOK /\ NoUnderflow /\ SwapChecked /\ ReleasesAll /\ LoadedCoversRelease
      /\ Limit \in Nat /\ Modulus \in Nat
    BY LimitAssumption, ModulusAssumption DEF IndInv
<1>2. CASE CallReserve(s)
    BY <1>1, <1>2 DEF CallReserve, TypeOK
<1>3. CASE LoadUsed(s) \/ SwapFails(s)
    BY <1>1, <1>3 DEF LoadUsed, SwapFails, TypeOK
<1>4. CASE LoadForRelease(s) \/ ReleaseSwapFails(s)
    <2>1. bytes[s] <= used
        BY <1>4, LoadCovers DEF LoadForRelease, ReleaseSwapFails
    <2>2. QED
        BY <1>1, <1>4, <2>1 DEF LoadForRelease, ReleaseSwapFails, TypeOK
<1>5. CASE Check(s)
    BY <1>1, <1>5 DEF Check, TypeOK
<1>6. CASE CheckBytes(s)
    <2>1. bytes[s] <= current[s] /\ bytes[s] \in Nat /\ current[s] \in Nat
        BY <1>1, <1>6 DEF CheckBytes, TypeOK
    <2>2. QED
        BY <1>1, <1>6, <2>1 DEF CheckBytes, TypeOK
<1>7. CASE Swap(s) \/ Charge(s) \/ Refused(s)
    BY <1>1, <1>7 DEF Swap, Charge, Refused, TypeOK
<1>8. CASE CallRelease(s)
    BY <1>1, <1>8 DEF CallRelease, TypeOK
<1>9. CASE ReleaseSwap(s) \/ Discharge(s)
    BY <1>1, <1>9 DEF ReleaseSwap, Discharge, TypeOK
<1>10. QED
    BY <1>2, <1>3, <1>4, <1>5, <1>6, <1>7, <1>8, <1>9 DEF Reserving, Releasing

-----------------------------------------------------------------------------
(* The theorems. *)

\* The invariant is inductive.
LEMMA InvPreserved == IndInv /\ [Next]_vars => IndInv'
<1> SUFFICES ASSUME IndInv, [Next]_vars PROVE IndInv'
    OBVIOUS
<1>1. CASE Next
    <2>1. PICK s \in Streams : Reserving(s) \/ Releasing(s)
        BY <1>1 DEF Next
    <2>2. QED
        BY <2>1, TypePreserved, HoldsPreserved, LoopsPreserved DEF IndInv
<1>2. CASE UNCHANGED vars
    BY <1>2
    DEF vars, IndInv, TypeOK, UsedIsHeld, NoUnderflow, SwapChecked, ReleasesAll,
        LoadedCoversRelease, heldBar
<1>3. QED
    BY <1>1, <1>2

\* The variables keep their types: in particular the counter never leaves
\* the range of uint64_t.
THEOREM TypeCorrect == Spec => []TypeOK
<1>1. IndInv => TypeOK
    BY DEF IndInv
<1>2. QED
    BY <1>1, InitInv, InvPreserved, PTL DEF Spec

\* used_ is exactly what the streams hold and never exceeds the limit,
\* for any number of streams, any limit and any interleaving of the loops.
THEOREM BudgetKept == Spec => []UsedIsHeld
<1>1. IndInv => UsedIsHeld
    BY DEF IndInv
<1>2. QED
    BY <1>1, InitInv, InvPreserved, PTL DEF Spec

\* The RELEASE_ASSERT of BodyMemoryBudget::release never fires.
THEOREM NeverAborts == Spec => []NoUnderflow
<1>1. IndInv => NoUnderflow
    BY DEF IndInv
<1>2. QED
    BY <1>1, InitInv, InvPreserved, PTL DEF Spec

-----------------------------------------------------------------------------
(* Refinement: each step of a loop is a step of the atomic budget or no    *)
(* step at all.                                                            *)

\* The abstract object counts the bytes held as the loops do.
LEMMA SameTotal == \A h : Budget!Total(h) = Total(h)
BY DEF Budget!Total, Budget!Bytes, Total, Bytes, Budget!Cardinality, Cardinality

\* The loops begin where the atomic object does.
LEMMA InitRefines == Init => Budget!Init
<1> SUFFICES ASSUME Init PROVE Budget!Init
    OBVIOUS
<1>1. phaseBar = [s \in Streams |-> "idle"]
    BY DEF Init, phaseBar
<1>2. QED
    BY <1>1, InitHeld DEF Init, Budget!Init

\* The phase of a stream after a load: a reservation that does not fit the
\* loaded value has been refused.
LEMMA LoadRefines ==
    ASSUME IndInv, NEW s \in Streams, LoadUsed(s) \/ SwapFails(s)
    PROVE  Budget!Refuse(s) \/ UNCHANGED Budget!vars
<1>1. /\ pc[s] \in {"load", "swap"} /\ pc' = [pc EXCEPT ![s] = "check"]
      /\ current' = [current EXCEPT ![s] = used] /\ bytes' = bytes
    BY DEF LoadUsed, SwapFails, Load, Goto
<1>2. /\ heldBar' = heldBar /\ used = Total(heldBar) /\ used <= Limit
      /\ bytes[s] \in Nat /\ used \in Nat /\ Limit \in Nat
    BY QuietHolds, LimitAssumption, ModulusAssumption
    DEF Quiet, IndInv, UsedIsHeld, TypeOK
<1>3. pc \in [Streams -> Locations] /\ current \in [Streams -> 0..Modulus-1]
    BY DEF IndInv, TypeOK
<1>4. phaseBar[s] = "reserving"
    BY <1>1 DEF phaseBar
<1>5. phaseBar' = [phaseBar EXCEPT ![s] =
                      IF Fits(used, bytes[s]) THEN "reserving" ELSE "refused"]
    BY <1>1, <1>3 DEF phaseBar
<1>6. CASE Fits(used, bytes[s])
    <2>1. phaseBar' = phaseBar
        BY <1>4, <1>5, <1>6 DEF phaseBar
    <2>2. QED
        BY <1>1, <1>2, <2>1 DEF Budget!vars
<1>7. CASE ~ Fits(used, bytes[s])
    <2>1. Total(heldBar) + bytes[s] > Limit
        BY <1>2, <1>7 DEF Fits
    <2>2. QED
        BY <1>1, <1>2, <1>4, <1>5, <1>7, <2>1, SameTotal
        DEF Budget!Refuse, Budget!Move
<1>8. QED
    BY <1>6, <1>7

\* Every step of a loop is a step of the atomic object or none of its own.
LEMMA StepRefines ==
    ASSUME IndInv, NEW s \in Streams, Reserving(s) \/ Releasing(s)
    PROVE  Budget!Next \/ UNCHANGED Budget!vars
<1> USE DEF Goto, Budget!Move
<1>1. /\ pc \in [Streams -> Locations] /\ bytes \in [Streams -> Nat]
      /\ current \in [Streams -> 0..Modulus-1]
    BY DEF IndInv, TypeOK
<1>2. CASE CallReserve(s)
    <2>1. heldBar' = heldBar
        BY <1>2, QuietHolds DEF Quiet
    <2>2. phaseBar[s] = "idle" /\ phaseBar' = [phaseBar EXCEPT ![s] = "reserving"]
        BY <1>1, <1>2 DEF CallReserve, phaseBar
    <2>3. Budget!CallReserve(s)
        BY <1>2, <2>1, <2>2 DEF CallReserve, Budget!CallReserve
    <2>4. QED
        BY <2>3 DEF Budget!Next
<1>3. CASE LoadUsed(s) \/ SwapFails(s)
    BY <1>3, LoadRefines DEF Budget!Next
<1>4. CASE Check(s)
    <2>1. heldBar' = heldBar
        BY <1>4, QuietHolds DEF Quiet
    <2>2. phaseBar' = phaseBar
        BY <1>1, <1>4 DEF Check, phaseBar
    <2>3. QED
        BY <1>4, <2>1, <2>2 DEF Check, Budget!vars
<1>5. CASE Swap(s)
    <2>1. Total(heldBar) + bytes[s] <= Limit /\ heldBar' = [heldBar EXCEPT ![s] = @ + bytes[s]]
        BY <1>5, SwapHolds DEF IndInv, UsedIsHeld
    <2>2. phaseBar[s] = "reserving" /\ phaseBar' = [phaseBar EXCEPT ![s] = "granted"]
        BY <1>1, <1>5 DEF Swap, phaseBar
    <2>3. Budget!Grant(s)
        BY <1>5, <2>1, <2>2, SameTotal DEF Swap, Budget!Grant
    <2>4. QED
        BY <2>3 DEF Budget!Next
<1>6. CASE Charge(s) \/ Refused(s) \/ Discharge(s)
    <2>1. heldBar' = heldBar
        BY <1>6, QuietHolds DEF Quiet
    <2>2. /\ pc[s] \in {"granted", "refused", "released"}
          /\ pc' = [pc EXCEPT ![s] = "idle"] /\ bytes' = bytes /\ current' = current
        BY <1>6 DEF Charge, Refused, Discharge
    <2>3. /\ phaseBar[s] \in {"granted", "refused", "released"}
          /\ phaseBar' = [phaseBar EXCEPT ![s] = "idle"]
        BY <1>1, <2>2 DEF phaseBar
    <2>4. Budget!Return(s)
        BY <2>1, <2>2, <2>3 DEF Budget!Return
    <2>5. QED
        BY <2>4 DEF Budget!Next
<1>7. CASE CallRelease(s)
    <2>1. heldBar' = heldBar
        BY <1>7, QuietHolds DEF Quiet
    <2>2. heldBar[s] = charged[s]
        BY <1>7 DEF CallRelease, heldBar
    <2>3. phaseBar[s] = "idle" /\ phaseBar' = [phaseBar EXCEPT ![s] = "releasing"]
        BY <1>1, <1>7 DEF CallRelease, phaseBar
    <2>4. Budget!CallRelease(s)
        BY <1>7, <2>1, <2>2, <2>3 DEF CallRelease, Budget!CallRelease
    <2>5. QED
        BY <2>4 DEF Budget!Next
<1>8. CASE LoadForRelease(s) \/ ReleaseSwapFails(s) \/ CheckBytes(s)
    <2>1. heldBar' = heldBar
        BY <1>8, QuietHolds DEF Quiet
    <2>2. /\ pc[s] \in {"rload", "assert", "rswap"} /\ bytes' = bytes
          /\ \E l \in {"assert", "rswap", "aborted"} : pc' = [pc EXCEPT ![s] = l]
          /\ \A t \in Streams \ {s} : current'[t] = current[t]
        BY <1>1, <1>8 DEF LoadForRelease, ReleaseSwapFails, CheckBytes, Load
    <2>3. phaseBar' = phaseBar
        BY <1>1, <2>2 DEF phaseBar
    <2>4. QED
        BY <2>1, <2>2, <2>3 DEF Budget!vars
<1>9. CASE ReleaseSwap(s)
    <2>1. heldBar' = [heldBar EXCEPT ![s] = 0]
        BY <1>9, ReleaseSwapHolds
    <2>2. phaseBar[s] = "releasing" /\ phaseBar' = [phaseBar EXCEPT ![s] = "released"]
        BY <1>1, <1>9 DEF ReleaseSwap, phaseBar
    <2>3. Budget!Release(s)
        BY <1>9, <2>1, <2>2 DEF ReleaseSwap, Budget!Release
    <2>4. QED
        BY <2>3 DEF Budget!Next
<1>10. QED
    BY <1>2, <1>3, <1>4, <1>5, <1>6, <1>7, <1>8, <1>9 DEF Reserving, Releasing

\* The loops implement the atomic budget: every interleaving of their loads,
\* failed and successful swaps is, seen from the streams, an interleaving of
\* atomic reservations and releases.
THEOREM Refinement == Spec => ImplementsBudget
<1>1. IndInv /\ [Next]_vars => [Budget!Next]_(Budget!vars)
    <2> SUFFICES ASSUME IndInv, [Next]_vars PROVE [Budget!Next]_(Budget!vars)
        OBVIOUS
    <2>1. CASE Next
        <3>1. PICK s \in Streams : Reserving(s) \/ Releasing(s)
            BY <2>1 DEF Next
        <3>2. QED
            BY <3>1, StepRefines
    <2>2. CASE UNCHANGED vars
        BY <2>2 DEF vars, Budget!vars, phaseBar, heldBar
    <2>3. QED
        BY <2>1, <2>2
<1>2. QED
    BY <1>1, InitRefines, InitInv, InvPreserved, PTL
    DEF Spec, ImplementsBudget, Budget!Spec
=============================================================================
