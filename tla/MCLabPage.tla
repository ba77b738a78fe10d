------------------------------ MODULE MCLabPage ------------------------------
(* Three requests and a history of two, so that an entry is dropped.         *)
EXTENDS LabPage, TLC

Symmetry == Permutations(Requests)
=============================================================================
