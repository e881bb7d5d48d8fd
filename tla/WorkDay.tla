------------------------------ MODULE WorkDay ------------------------------
(***************************************************************************)
(* What AttendanceService, BreaksService and TaskTimerService promise: each *)
(* of a user's requests takes effect in one step, on the record as it is   *)
(* at that step, with one server timestamp.  WorkDayRequests is the same   *)
(* code one database call at a time; it implements this module when a user *)
(* has one request in flight at a time, and does not when there are two.   *)
(*                                                                         *)
(* Requests the handlers refuse change nothing and are not actions here.   *)
(* The task table is left out: any task may turn out to be eligible.       *)
(***************************************************************************)
EXTENDS TimeRecords

vars == <<now, session, brk, entry>>

\* The stamp of a request of user u was read from the server clock when no
\* other request of u was being served, so nothing u's record holds is later.
StampFor(u, t) ==
    /\ t =< now
    /\ \A s \in Sessions : session[s].userId = u =>
          session[s].clockInAt =< t /\ session[s].clockOutAt =< t
    /\ \A b \in Breaks : brk[b].status # "ABSENT" /\ BreakOwner(b) = u =>
          brk[b].startAt =< t /\ brk[b].endAt =< t
    /\ \A e \in Entries : entry[e].userId = u =>
          entry[e].startAt =< t /\ entry[e].endAt =< t

Init == RecordsInit

ClockIn(u, t) ==
    /\ OpenSessions(u) = {}
    /\ \E s \in Sessions :
          /\ session[s].status = "ABSENT"
          /\ session' = [session EXCEPT ![s] = NewSession(u, t)]
    /\ UNCHANGED <<now, brk, entry>>

\* Mutant: the transaction without the update of the break.
ClockOutLeavesBreak(u, t) ==
    \E s \in OpenSessions(u) :
       /\ entry' = ClosedEntries(RunningEntries(u), t)
       /\ session' = ClockedOut(s, t)
       /\ UNCHANGED <<now, brk>>

\* With confirm, or with nothing to resolve (BR-007).
ClockOut(u, t) ==
    \E s \in OpenSessions(u) :
       /\ entry' = ClosedEntries(RunningEntries(u), t)
       /\ brk' = EndedBreaks(ActiveBreaks(s), t)
       /\ session' = ClockedOut(s, t)
       /\ UNCHANGED now

\* Mutant: the running timer is not paused.
StartBreakLeavesTimer(u, t) ==
    \E s \in SessionsIn(u, {"ACTIVE"}), b \in Breaks :
       /\ brk[b].status = "ABSENT"
       /\ brk' = [brk EXCEPT ![b] = NewBreak(s, t)]
       /\ session' = [session EXCEPT ![s].status = "ON_BREAK"]
       /\ UNCHANGED <<now, entry>>

StartBreak(u, t) ==
    \E s \in SessionsIn(u, {"ACTIVE"}), b \in Breaks :
       /\ brk[b].status = "ABSENT"
       /\ brk' = [brk EXCEPT ![b] = NewBreak(s, t)]
       /\ session' = [session EXCEPT ![s].status = "ON_BREAK"]
       /\ entry' = ClosedEntries(RunningEntries(u), t)
       /\ UNCHANGED now

EndBreak(u, t) ==
    \E s \in SessionsIn(u, {"ON_BREAK"}) :
       /\ ActiveBreaks(s) # {}
       /\ brk' = EndedBreaks(ActiveBreaks(s), t)
       /\ session' = [session EXCEPT ![s].status = "ACTIVE"]
       /\ UNCHANGED <<now, entry>>

\* Mutants: start accepts a session on break, or a second running timer.
StartTimerOnBreak(u, k, t) ==
    \E s \in OpenSessions(u), e \in Entries :
       /\ RunningEntries(u) = {}
       /\ entry[e].status = "ABSENT"
       /\ entry' = [entry EXCEPT ![e] = NewEntry(u, k, s, t)]
       /\ UNCHANGED <<now, session, brk>>
StartTimerTwice(u, k, t) ==
    \E s \in SessionsIn(u, {"ACTIVE"}), e \in Entries :
       /\ entry[e].status = "ABSENT"
       /\ entry' = [entry EXCEPT ![e] = NewEntry(u, k, s, t)]
       /\ UNCHANGED <<now, session, brk>>

\* start, and resume, which is start for a task with an earlier segment.
StartTimer(u, k, t) ==
    \E s \in SessionsIn(u, {"ACTIVE"}), e \in Entries :
       /\ RunningEntries(u) = {}
       /\ entry[e].status = "ABSENT"
       /\ entry' = [entry EXCEPT ![e] = NewEntry(u, k, s, t)]
       /\ UNCHANGED <<now, session, brk>>

\* Mutant: updateMany by user, with no status in the where clause.
StopAllTimers(u, t) ==
    /\ RunningEntries(u) # {}
    /\ entry' = ClosedEntries({e \in Entries : entry[e].userId = u}, t)
    /\ UNCHANGED <<now, session, brk>>

\* pause and stop, which differ only in what they are called.
StopTimer(u, t) ==
    /\ RunningEntries(u) # {}
    /\ entry' = ClosedEntries(RunningEntries(u), t)
    /\ UNCHANGED <<now, session, brk>>

SwitchTask(u, k, t) ==
    \E s \in SessionsIn(u, {"ACTIVE"}), e \in Entries :
       /\ RunningEntries(u) # {}
       /\ \A f \in RunningEntries(u) : entry[f].taskId # k
       /\ entry[e].status = "ABSENT"
       /\ entry' = [ClosedEntries(RunningEntries(u), t)
                      EXCEPT ![e] = NewEntry(u, k, s, t)]
       /\ UNCHANGED <<now, session, brk>>

ServeAt(u, t) ==
    \/ ClockIn(u, t)
    \/ ClockOut(u, t)
    \/ StartBreak(u, t)
    \/ EndBreak(u, t)
    \/ StopTimer(u, t)
    \/ \E k \in Tasks : StartTimer(u, k, t) \/ SwitchTask(u, k, t)

Serve(u) == \E t \in 0 .. now : StampFor(u, t) /\ ServeAt(u, t)

PassTime == Tick /\ UNCHANGED tables

Next == PassTime \/ \E u \in Users : Serve(u)

Spec == Init /\ [][Next]_vars

----------------------------------------------------------------------------
(* The inductive invariant.                                                *)

\* Nothing recorded lies in the future, and what is absent holds nothing.
StampsPast ==
    /\ \A s \in Sessions :
          /\ session[s].clockInAt =< now
          /\ session[s].clockOutAt =< now
          /\ session[s].status # "ABSENT" => session[s].clockInAt \in Nat
          /\ session[s].status = "ABSENT" => session[s] = NoSession
    /\ \A b \in Breaks :
          /\ brk[b].startAt =< now
          /\ brk[b].endAt =< now
          /\ brk[b].status # "ABSENT" => brk[b].startAt \in Nat
          /\ brk[b].status = "ABSENT" => brk[b] = NoBreak
    /\ \A e \in Entries :
          /\ entry[e].startAt =< now
          /\ entry[e].endAt =< now
          /\ entry[e].status # "ABSENT" => entry[e].startAt \in Nat
          /\ entry[e].status = "ABSENT" => entry[e] = NoEntry

TypeOK == RecordsTypeOK

IInv ==
    /\ TypeOK
    /\ StampsPast
    /\ OneOpenPerOwner
    /\ OwnersAgree
    /\ EndMeansClosed
    /\ ClockOutMeansCompleted
    /\ OnBreakMeansActiveBreak
    /\ TimerOnlyWhileWorking
    /\ EndsAfterStart
    /\ SegmentsApart
    /\ SegmentsOutsideBreaks
    /\ WithinSession
=============================================================================
