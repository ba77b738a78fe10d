------------------------ MODULE MCBodyMemoryBudget -------------------------
(* Three streams on three workers contend for a budget of four bytes held  *)
(* in a counter of eight values, so that a request near the top of the     *)
(* range overflows it.                                                     *)
EXTENDS BodyMemoryBudgetCas, TLC

MCRequests == {0, 2, 3, 7}

Symmetry == Permutations(Streams)
=============================================================================
