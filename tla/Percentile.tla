----------------------------- MODULE Percentile -----------------------------
(***************************************************************************)
(* percentile() of tools/qualification-benchmark.py and of                 *)
(* tools/crs-compatibility-report.py, over latencies of which only the     *)
(* class matters: within the limit for representative traffic, within the  *)
(* limit for pathological requests, or beyond both.                        *)
(***************************************************************************)
EXTENDS Integers

Classes == {"fast", "middling", "slow"}

Latencies == [Classes -> Nat]

NoLatencies == [class \in Classes |-> 0]

Number(latencies) == latencies["fast"] + latencies["middling"] + latencies["slow"]

\* How many latencies are beyond the limit of a class.
Beyond(latencies, limit) ==
    CASE limit = "fast" -> latencies["middling"] + latencies["slow"]
      [] limit = "middling" -> latencies["slow"]
      [] OTHER -> 0

\* The position from 1, in the sorted values, of the one that is returned:
\* min(len - 1, max(0, int(len * fraction) - 1)) + 1.
Rank(n, percent) ==
    LET truncated == (n * percent) \div 100 IN
    IF truncated > n THEN n ELSE IF truncated > 1 THEN truncated ELSE 1

\* The class of that value.
percentile(latencies, percent) ==
    LET rank == Rank(Number(latencies), percent) IN
    IF rank <= latencies["fast"] THEN "fast"
    ELSE IF rank <= latencies["fast"] + latencies["middling"] THEN "middling"
    ELSE "slow"

\* value > limit, for a value of a class and the limit of a class.
Exceeds(class, limit) ==
    \/ class = "slow" /\ limit # "slow"
    \/ class = "middling" /\ limit = "fast"
=============================================================================
