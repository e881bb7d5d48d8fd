------------------------ MODULE MCCorrectionRequests ------------------------
(* Small instances of CorrectionRequests.                                  *)
EXTENDS CorrectionRequests, TLC

Symmetric == Permutations(Slots) \cup Permutations(Requests)
                \cup Permutations(Entries)

EndOnly == {[start |-> NoStamp, end |-> t] : t \in 0 .. MaxTime}
=============================================================================
