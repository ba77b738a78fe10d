----------------------------- MODULE HeldBytes -----------------------------
(***************************************************************************)
(* The bytes a set of streams holds against one body memory budget.        *)
(*                                                                         *)
(* The code keeps one number per stream (Filter::charged_body_bytes_) and  *)
(* one number for the filter configuration (BodyMemoryBudget::used_).  To  *)
(* relate them, each held byte is a pair <<stream, index>>, so that the    *)
(* sum over the streams is the cardinality of a set, which is what the     *)
(* proofs reason about.                                                    *)
(***************************************************************************)
EXTENDS Naturals, FiniteSets

CONSTANTS
    Streams,        \* the streams created from one filter configuration
    Limit           \* body_memory_budget_bytes, BodyMemoryBudget::limit_

ASSUME StreamsAssumption == IsFiniteSet(Streams)
ASSUME LimitAssumption == Limit \in Nat

Amount == 0..Limit

Bytes(held) == {b \in Streams \X (1..Limit) : b[2] <= held[b[1]]}

Total(held) == Cardinality(Bytes(held))
=============================================================================
