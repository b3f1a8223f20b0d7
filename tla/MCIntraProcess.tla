--------------------------- MODULE MCIntraProcess ---------------------------
(* IntraProcess for TLC: readers and slots are interchangeable.             *)
EXTENDS IntraProcess, TLC

Symmetry == Permutations(Reader) \cup Permutations(Slot)
=============================================================================
