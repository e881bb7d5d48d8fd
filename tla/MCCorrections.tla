--------------------------- MODULE MCCorrections ---------------------------
(* Small instances of Corrections.                                         *)
EXTENDS Corrections, TLC

Symmetric == Permutations(Entries) \cup Permutations(Requests)

\* Any proposal: either end, both, in any order, or neither.
AnyProposal == [start : -1 .. MaxTime, end : -1 .. MaxTime]
=============================================================================
