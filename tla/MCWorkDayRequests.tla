------------------------- MODULE MCWorkDayRequests -------------------------
(* Small instances of WorkDayRequests for TLC.                             *)
EXTENDS WorkDayRequests, TLC

\* pause and stop close the timer as switch does, and resume is start after one
\* more query: they add no order of writes, only states.
RacingKinds == AllKinds \ {"pause", "stop", "resume", "update"}

Symmetric == Permutations(Sessions) \cup Permutations(Breaks)
               \cup Permutations(Entries) \cup Permutations(Slots)
               \cup Permutations(Tasks)
=============================================================================
