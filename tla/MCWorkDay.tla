----------------------------- MODULE MCWorkDay -----------------------------
(* A small instance of WorkDay for TLC.  Ids are interchangeable.          *)
EXTENDS WorkDay, Reconciliation, TLC

Symmetric == Permutations(Sessions) \cup Permutations(Breaks)
               \cup Permutations(Entries) \cup Permutations(Tasks)
               \cup Permutations(Users)
=============================================================================
