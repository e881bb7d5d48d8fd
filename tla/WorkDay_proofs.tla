--------------------------- MODULE WorkDay_proofs ---------------------------
(***************************************************************************)
(* WorkDay keeps the record consistent, for any number of users, sessions, *)
(* breaks, segments and tasks.  Each request is shown to keep every part   *)
(* of the inductive invariant IInv; a part whose step is not a restatement *)
(* is split into the rows the request wrote and the rows it left alone.    *)
(* From it and from the order of a user's breaks and sessions: the sums of *)
(* Reconciliation count every minute once, and the gaps of a timeline are  *)
(* the idle minutes.                                                       *)
(***************************************************************************)
EXTENDS WorkDay, Reconciliation, FiniteSetTheorems, WellFoundedInduction, TLAPS

\* Closing segments at t touches their end and status only, and only theirs.
LEMMA EntryUpdate ==
  ASSUME RecordsTypeOK, NEW ids, NEW t \in Nat
  PROVE  /\ ClosedEntries(ids, t) \in [Entries -> EntryRow]
         /\ \A e \in Entries :
               /\ ClosedEntries(ids, t)[e].taskId = entry[e].taskId
               /\ ClosedEntries(ids, t)[e].userId = entry[e].userId
               /\ ClosedEntries(ids, t)[e].attendanceSessionId
                     = entry[e].attendanceSessionId
               /\ ClosedEntries(ids, t)[e].startAt = entry[e].startAt
         /\ \A e \in Entries : e \in ids =>
               /\ ClosedEntries(ids, t)[e].endAt = t
               /\ ClosedEntries(ids, t)[e].status = "CLOSED"
         /\ \A e \in Entries : e \notin ids => ClosedEntries(ids, t)[e] = entry[e]
  BY ZenonT(60) DEF ClosedEntries, RecordsTypeOK, EntryRow, Stamp

\* Completing breaks at t touches their end and status only, and only theirs.
LEMMA BreakUpdate ==
  ASSUME RecordsTypeOK, NEW ids, NEW t \in Nat
  PROVE  /\ EndedBreaks(ids, t) \in [Breaks -> BreakRow]
         /\ \A b \in Breaks :
               /\ EndedBreaks(ids, t)[b].attendanceSessionId
                     = brk[b].attendanceSessionId
               /\ EndedBreaks(ids, t)[b].startAt = brk[b].startAt
         /\ \A b \in Breaks : b \in ids =>
               /\ EndedBreaks(ids, t)[b].endAt = t
               /\ EndedBreaks(ids, t)[b].status = "COMPLETED"
         /\ \A b \in Breaks : b \notin ids => EndedBreaks(ids, t)[b] = brk[b]
  BY ZenonT(60) DEF EndedBreaks, RecordsTypeOK, BreakRow, Stamp

\* The empty tables are consistent.
LEMMA InitIInv == Init => IInv
  <1> SUFFICES ASSUME Init PROVE IInv
    OBVIOUS
  <1> USE NoneAssumption DEF Init, RecordsInit, NoSession, NoBreak, NoEntry,
            NoStamp, Stamp
  <1>1. TypeOK
    BY DEF TypeOK, RecordsTypeOK, SessionRow, BreakRow, EntryRow
  <1>2. StampsPast
    BY DEF StampsPast
  <1>3. OneOpenPerOwner /\ OwnersAgree /\ OnBreakMeansActiveBreak
        /\ TimerOnlyWhileWorking
    BY DEF OneOpenPerOwner, OwnersAgree, OnBreakMeansActiveBreak,
           TimerOnlyWhileWorking, Open
  <1>4. EndMeansClosed /\ ClockOutMeansCompleted /\ EndsAfterStart
    BY DEF EndMeansClosed, ClockOutMeansCompleted, EndsAfterStart, Open
  <1>5. SegmentsApart /\ SegmentsOutsideBreaks /\ WithinSession
    BY DEF SegmentsApart, SegmentsOutsideBreaks, WithinSession
  <1>6. QED
    BY <1>1, <1>2, <1>3, <1>4, <1>5 DEF IInv

\* clockIn keeps the record consistent.
LEMMA ClockInIInv ==
  ASSUME IInv, NEW u \in Users, NEW t \in 0 .. now, StampFor(u, t), ClockIn(u, t)
  PROVE  IInv'
  <1> PICK s \in Sessions : /\ session[s].status = "ABSENT"
                            /\ session' = [session EXCEPT ![s] = NewSession(u, t)]
    BY DEF ClockIn
  <1> UNCHANGED <<now, brk, entry>> /\ OpenSessions(u) = {}
    BY DEF ClockIn
  <1> USE NoneAssumption
  <1>a. /\ NewSession(u, t) \in SessionRow
        /\ NewSession(u, t).status = "ACTIVE"
        /\ NewSession(u, t).userId = u
        /\ NewSession(u, t).clockInAt = t
        /\ NewSession(u, t).clockOutAt = NoStamp
    BY DEF NewSession, SessionRow, Stamp, IInv, TypeOK, RecordsTypeOK
  <1>1. TypeOK'
    BY <1>a DEF IInv, TypeOK, RecordsTypeOK
  <1>2. StampsPast'
    BY <1>a DEF IInv, StampsPast, TypeOK, RecordsTypeOK, NoStamp
  <1>3. OneOpenPerOwner'
    BY <1>a DEF IInv, OneOpenPerOwner, OpenSessions, SessionsIn, TypeOK, RecordsTypeOK, Open
  <1>4. OwnersAgree'
    BY <1>a DEF IInv, OwnersAgree, TypeOK, RecordsTypeOK
  <1>5. EndMeansClosed'
    BY DEF IInv, EndMeansClosed
  <1>6. ClockOutMeansCompleted'
    BY <1>a DEF IInv, ClockOutMeansCompleted, TypeOK, RecordsTypeOK
  <1>7. OnBreakMeansActiveBreak'
    BY <1>a DEF IInv, OnBreakMeansActiveBreak, ActiveBreaks, TypeOK, RecordsTypeOK, OwnersAgree
  <1>8. TimerOnlyWhileWorking'
    BY <1>a DEF IInv, TimerOnlyWhileWorking, TypeOK, RecordsTypeOK, OwnersAgree
  <1>9. EndsAfterStart'
    BY <1>a DEF IInv, EndsAfterStart, TypeOK, RecordsTypeOK, NoStamp
  <1>10. SegmentsApart'
    BY DEF IInv, SegmentsApart, OverBy
  <1>11. SegmentsOutsideBreaks'
    BY <1>a DEF IInv, SegmentsOutsideBreaks, OverBy, BreakOwner, TypeOK, RecordsTypeOK, OwnersAgree
  <1>12. WithinSession'
    BY <1>a DEF IInv, WithinSession, TypeOK, RecordsTypeOK, OwnersAgree
  <1>13. QED
    BY <1>1, <1>2, <1>3, <1>4, <1>5, <1>6, <1>7, <1>8, <1>9, <1>10, <1>11,
       <1>12 DEF IInv

\* pause and stop keep the record consistent.
LEMMA StopTimerIInv ==
  ASSUME IInv, NEW u \in Users, NEW t \in 0 .. now, StampFor(u, t),
         StopTimer(u, t)
  PROVE  IInv'
  <1> USE NoneAssumption
  <1>t. t \in Nat /\ t =< now /\ now \in Nat
    BY DEF IInv, TypeOK, RecordsTypeOK
  <1>e. /\ entry' = ClosedEntries(RunningEntries(u), t)
        /\ UNCHANGED <<now, session, brk>>
    BY DEF StopTimer
  <1>c. /\ entry' \in [Entries -> EntryRow]
        /\ \A e \in Entries :
              /\ entry'[e].taskId = entry[e].taskId
              /\ entry'[e].userId = entry[e].userId
              /\ entry'[e].attendanceSessionId = entry[e].attendanceSessionId
              /\ entry'[e].startAt = entry[e].startAt
              /\ \/ /\ entry[e].userId = u
                    /\ entry[e].status = "RUNNING"
                    /\ entry'[e].endAt = t
                    /\ entry'[e].status = "CLOSED"
                 \/ /\ ~(entry[e].userId = u /\ entry[e].status = "RUNNING")
                    /\ entry'[e] = entry[e]
    BY <1>e, <1>t, EntryUpdate DEF IInv, TypeOK, RunningEntries
  <1>1. TypeOK'
    BY <1>t, <1>e, <1>c DEF IInv, TypeOK, RecordsTypeOK
  <1>2. StampsPast'
    BY <1>t, <1>e, <1>c DEF IInv, StampsPast, NoStamp, TypeOK, RecordsTypeOK
  <1>3. OneOpenPerOwner'
    BY <1>t, <1>e, <1>c DEF IInv, OneOpenPerOwner, Open, TypeOK, RecordsTypeOK
  <1>4. OwnersAgree'
    BY <1>t, <1>e, <1>c DEF IInv, OwnersAgree, TypeOK, RecordsTypeOK
  <1>5. EndMeansClosed'
    BY <1>t, <1>e, <1>c DEF IInv, EndMeansClosed, NoStamp, TypeOK, RecordsTypeOK
  <1>6. ClockOutMeansCompleted'
    BY <1>t, <1>e, <1>c DEF IInv, ClockOutMeansCompleted, Open, NoStamp, TypeOK, RecordsTypeOK
  <1>7. OnBreakMeansActiveBreak'
    BY <1>t, <1>e, <1>c DEF IInv, OnBreakMeansActiveBreak, ActiveBreaks, OwnersAgree, TypeOK, RecordsTypeOK
  <1>8. TimerOnlyWhileWorking'
    BY <1>t, <1>e, <1>c DEF IInv, TimerOnlyWhileWorking, OwnersAgree, TypeOK, RecordsTypeOK
  <1>9. EndsAfterStart'
    BY <1>t, <1>e, <1>c DEF IInv, EndsAfterStart, StampsPast, NoStamp, TypeOK, RecordsTypeOK, StampFor
  <1>10. SegmentsApart'
    BY <1>t, <1>e, <1>c DEF IInv, SegmentsApart, OverBy, OwnersAgree, EndMeansClosed, StampsPast, TypeOK, RecordsTypeOK, StampFor
  <1>11. SegmentsOutsideBreaks'
    BY <1>t, <1>e, <1>c DEF IInv, SegmentsOutsideBreaks, OverBy, BreakOwner, OwnersAgree, TypeOK, RecordsTypeOK, EndMeansClosed
  <1>12. WithinSession'
    BY <1>t, <1>e, <1>c DEF IInv, WithinSession, OwnersAgree, NoStamp, TypeOK, RecordsTypeOK, StampFor, TimerOnlyWhileWorking, ClockOutMeansCompleted, Open
  <1>13. QED
    BY <1>1, <1>2, <1>3, <1>4, <1>5, <1>6, <1>7, <1>8, <1>9, <1>10, <1>11,
       <1>12 DEF IInv

\* start keeps the record consistent: it needs the session to be ACTIVE, so
\* that no break is active, and no timer to be running.
LEMMA StartTimerIInv ==
  ASSUME IInv, NEW u \in Users, NEW t \in 0 .. now, StampFor(u, t),
         NEW k \in Tasks, StartTimer(u, k, t)
  PROVE  IInv'
  <1> USE NoneAssumption
  <1>t. t \in Nat /\ t =< now /\ now \in Nat
    BY DEF IInv, TypeOK, RecordsTypeOK
  <1>p. PICK s \in Sessions, e \in Entries :
           /\ session[s].userId = u /\ session[s].status = "ACTIVE"
           /\ entry[e].status = "ABSENT"
           /\ entry' = [entry EXCEPT ![e] = NewEntry(u, k, s, t)]
    BY DEF StartTimer, SessionsIn
  <1>e. /\ UNCHANGED <<now, session, brk>>
        /\ \A f \in Entries :
              ~(entry[f].userId = u /\ entry[f].status = "RUNNING")
    BY DEF StartTimer, RunningEntries
  <1>c. /\ entry' \in [Entries -> EntryRow]
        /\ \A f \in Entries \ {e} : entry'[f] = entry[f]
        /\ entry'[e].taskId = k
        /\ entry'[e].userId = u
        /\ entry'[e].attendanceSessionId = s
        /\ entry'[e].startAt = t
        /\ entry'[e].endAt = NoStamp
        /\ entry'[e].status = "RUNNING"
    BY <1>t, <1>p DEF IInv, TypeOK, RecordsTypeOK, NewEntry, EntryRow, Stamp
  <1>1. TypeOK'
    BY <1>t, <1>p, <1>e, <1>c DEF IInv, TypeOK, RecordsTypeOK
  <1>2. StampsPast'
    BY <1>t, <1>p, <1>e, <1>c DEF IInv, StampsPast, NoStamp, TypeOK, RecordsTypeOK
  <1>3. OneOpenPerOwner'
    BY <1>t, <1>p, <1>e, <1>c DEF IInv, OneOpenPerOwner, Open, TypeOK, RecordsTypeOK
  <1>4. OwnersAgree'
    BY <1>t, <1>p, <1>e, <1>c DEF IInv, OwnersAgree, TypeOK, RecordsTypeOK
  <1>5. EndMeansClosed'
    BY <1>t, <1>p, <1>e, <1>c DEF IInv, EndMeansClosed, NoStamp, TypeOK, RecordsTypeOK
  <1>6. ClockOutMeansCompleted'
    BY <1>t, <1>p, <1>e, <1>c DEF IInv, ClockOutMeansCompleted, Open, NoStamp, TypeOK, RecordsTypeOK
  <1>7. OnBreakMeansActiveBreak'
    BY <1>t, <1>p, <1>e, <1>c DEF IInv, OnBreakMeansActiveBreak, ActiveBreaks, OwnersAgree, TypeOK, RecordsTypeOK
  <1>8. TimerOnlyWhileWorking'
    BY <1>t, <1>p, <1>e, <1>c DEF IInv, TimerOnlyWhileWorking, OwnersAgree, TypeOK, RecordsTypeOK
  <1>9. EndsAfterStart'
    BY <1>t, <1>p, <1>e, <1>c DEF IInv, EndsAfterStart, StampsPast, NoStamp, TypeOK, RecordsTypeOK
  <1>10. SegmentsApart'
    <2>1. \A f \in Entries \ {e} :
             entry'[f].status # "ABSENT" /\ entry'[f].userId = u =>
                entry'[f].status = "CLOSED" /\ entry'[f].endAt =< t
      BY <1>t, <1>p, <1>e, <1>c DEF IInv, TypeOK, RecordsTypeOK, EntryRow, StampFor
    <2>2. \A f, g \in Entries \ {e} :
             /\ f # g
             /\ entry'[f].status # "ABSENT"
             /\ entry'[g].status # "ABSENT"
             /\ entry'[f].userId = entry'[g].userId
             => OverBy(f, entry[g].startAt)' \/ OverBy(g, entry[f].startAt)'
      BY <1>t, <1>p, <1>e, <1>c DEF IInv, SegmentsApart, OverBy, TypeOK, RecordsTypeOK
    <2>3. QED
      BY <1>t, <1>p, <1>e, <1>c, <2>1, <2>2 DEF SegmentsApart, OverBy
  <1>11. SegmentsOutsideBreaks'
    <2>1. \A b \in Breaks :
             brk[b].status # "ABSENT" /\ BreakOwner(b) = u =>
                brk[b].status = "COMPLETED" /\ brk[b].endAt =< t
      BY <1>t, <1>p, <1>e, <1>c DEF IInv, TypeOK, RecordsTypeOK, BreakRow, StampFor, BreakOwner,
         OwnersAgree, OnBreakMeansActiveBreak, ActiveBreaks, OneOpenPerOwner, Open
    <2>2. \A f \in Entries \ {e}, b \in Breaks :
             /\ entry'[f].status # "ABSENT"
             /\ brk[b].status # "ABSENT"
             /\ BreakOwner(b) = entry'[f].userId
             => \/ OverBy(f, brk[b].startAt)'
                \/ brk[b].status = "COMPLETED" /\ brk[b].endAt =< entry'[f].startAt
      BY <1>t, <1>p, <1>e, <1>c DEF IInv, SegmentsOutsideBreaks, OverBy
    <2>3. QED
      BY <1>t, <1>p, <1>e, <1>c, <2>1, <2>2 DEF SegmentsOutsideBreaks, OverBy, BreakOwner
  <1>12. WithinSession'
    BY <1>t, <1>p, <1>e, <1>c DEF IInv, WithinSession, OwnersAgree, NoStamp, TypeOK, RecordsTypeOK, StampFor, ClockOutMeansCompleted, Open
  <1>13. QED
    BY <1>1, <1>2, <1>3, <1>4, <1>5, <1>6, <1>7, <1>8, <1>9, <1>10, <1>11,
       <1>12 DEF IInv

\* switchTask keeps the record consistent: the old segment ends at the stamp the
\* new one starts with.
LEMMA SwitchTaskIInv ==
  ASSUME IInv, NEW u \in Users, NEW t \in 0 .. now, StampFor(u, t),
         NEW k \in Tasks, SwitchTask(u, k, t)
  PROVE  IInv'
  <1> USE NoneAssumption
  <1>t. t \in Nat /\ t =< now /\ now \in Nat
    BY DEF IInv, TypeOK, RecordsTypeOK
  <1>p. PICK s \in Sessions, e \in Entries :
           /\ session[s].userId = u /\ session[s].status = "ACTIVE"
           /\ entry[e].status = "ABSENT"
           /\ entry' = [ClosedEntries(RunningEntries(u), t)
                          EXCEPT ![e] = NewEntry(u, k, s, t)]
           /\ UNCHANGED <<now, session, brk>>
    BY DEF SwitchTask, SessionsIn
  <1>n. NewEntry(u, k, s, t) \in EntryRow
    BY <1>t DEF NewEntry, EntryRow, Stamp
  <1>m. /\ ClosedEntries(RunningEntries(u), t) \in [Entries -> EntryRow]
        /\ entry' \in [Entries -> EntryRow]
        /\ entry'[e] = NewEntry(u, k, s, t)
        /\ \A f \in Entries \ {e} :
              entry'[f] = ClosedEntries(RunningEntries(u), t)[f]
    BY <1>t, <1>p, <1>n, EntryUpdate DEF IInv, TypeOK
  <1>c. /\ entry' \in [Entries -> EntryRow]
        /\ \A f \in Entries \ {e} :
              /\ entry'[f].taskId = entry[f].taskId
              /\ entry'[f].userId = entry[f].userId
              /\ entry'[f].attendanceSessionId = entry[f].attendanceSessionId
              /\ entry'[f].startAt = entry[f].startAt
              /\ \/ /\ entry[f].userId = u
                    /\ entry[f].status = "RUNNING"
                    /\ entry'[f].endAt = t
                    /\ entry'[f].status = "CLOSED"
                 \/ /\ ~(entry[f].userId = u /\ entry[f].status = "RUNNING")
                    /\ entry'[f] = entry[f]
    BY <1>t, <1>m, EntryUpdate DEF IInv, TypeOK, RunningEntries
  <1>d. /\ entry'[e].taskId = k
        /\ entry'[e].userId = u
        /\ entry'[e].attendanceSessionId = s
        /\ entry'[e].startAt = t
        /\ entry'[e].endAt = NoStamp
        /\ entry'[e].status = "RUNNING"
    BY <1>m DEF NewEntry
  <1>1. TypeOK'
    BY <1>t, <1>p, <1>c, <1>d DEF IInv, TypeOK, RecordsTypeOK
  <1>2. StampsPast'
    BY <1>t, <1>p, <1>c, <1>d DEF IInv, StampsPast, NoStamp, TypeOK, RecordsTypeOK
  <1>3. OneOpenPerOwner'
    BY <1>t, <1>p, <1>c, <1>d DEF IInv, OneOpenPerOwner, Open, TypeOK, RecordsTypeOK
  <1>4. OwnersAgree'
    BY <1>t, <1>p, <1>c, <1>d DEF IInv, OwnersAgree, TypeOK, RecordsTypeOK
  <1>5. EndMeansClosed'
    BY <1>t, <1>p, <1>c, <1>d DEF IInv, EndMeansClosed, NoStamp, TypeOK, RecordsTypeOK
  <1>6. ClockOutMeansCompleted'
    BY <1>t, <1>p, <1>c, <1>d DEF IInv, ClockOutMeansCompleted, Open, NoStamp, TypeOK, RecordsTypeOK
  <1>7. OnBreakMeansActiveBreak'
    BY <1>t, <1>p, <1>c, <1>d DEF IInv, OnBreakMeansActiveBreak, ActiveBreaks, OwnersAgree, TypeOK, RecordsTypeOK
  <1>8. TimerOnlyWhileWorking'
    BY <1>t, <1>p, <1>c, <1>d DEF IInv, TimerOnlyWhileWorking, OwnersAgree, TypeOK, RecordsTypeOK
  <1>9. EndsAfterStart'
    BY <1>t, <1>p, <1>c, <1>d DEF IInv, EndsAfterStart, StampsPast, NoStamp, TypeOK, RecordsTypeOK, StampFor
  <1>10. SegmentsApart'
    <2>1. \A f \in Entries \ {e} :
             entry'[f].status # "ABSENT" /\ entry'[f].userId = u =>
                entry'[f].status = "CLOSED" /\ entry'[f].endAt =< t
      BY <1>t, <1>p, <1>c, <1>d DEF IInv, TypeOK, RecordsTypeOK, EntryRow, StampFor
    <2>2. \A f, g \in Entries \ {e} :
             /\ f # g
             /\ entry'[f].status # "ABSENT"
             /\ entry'[g].status # "ABSENT"
             /\ entry'[f].userId = entry'[g].userId
             => OverBy(f, entry[g].startAt)' \/ OverBy(g, entry[f].startAt)'
      BY <1>t, <1>p, <1>c, <1>d DEF IInv, SegmentsApart, OverBy, TypeOK, RecordsTypeOK
    <2>3. QED
      BY <1>t, <1>p, <1>c, <1>d, <2>1, <2>2 DEF SegmentsApart, OverBy
  <1>11. SegmentsOutsideBreaks'
    <2>1. \A b \in Breaks :
             brk[b].status # "ABSENT" /\ BreakOwner(b) = u =>
                brk[b].status = "COMPLETED" /\ brk[b].endAt =< t
      BY <1>t, <1>p, <1>c, <1>d DEF IInv, TypeOK, RecordsTypeOK, BreakRow, StampFor, BreakOwner,
         OwnersAgree, OnBreakMeansActiveBreak, ActiveBreaks, OneOpenPerOwner, Open
    <2>2. \A f \in Entries \ {e}, b \in Breaks :
             /\ entry'[f].status # "ABSENT"
             /\ brk[b].status # "ABSENT"
             /\ BreakOwner(b) = entry'[f].userId
             => \/ OverBy(f, brk[b].startAt)'
                \/ brk[b].status = "COMPLETED" /\ brk[b].endAt =< entry'[f].startAt
      BY <1>t, <1>p, <1>c, <1>d DEF IInv, SegmentsOutsideBreaks, OverBy
    <2>3. QED
      BY <1>t, <1>p, <1>c, <1>d, <2>1, <2>2 DEF SegmentsOutsideBreaks, OverBy, BreakOwner
  <1>12. WithinSession'
    BY <1>t, <1>p, <1>c, <1>d DEF IInv, WithinSession, OwnersAgree, NoStamp, TypeOK, RecordsTypeOK, StampFor, ClockOutMeansCompleted, TimerOnlyWhileWorking, Open
  <1>13. QED
    BY <1>1, <1>2, <1>3, <1>4, <1>5, <1>6, <1>7, <1>8, <1>9, <1>10, <1>11,
       <1>12 DEF IInv

\* clockOut keeps the record consistent: it needs a session on break to have its
\* one active break, and a running timer to belong to the open session.
LEMMA ClockOutIInv ==
  ASSUME IInv, NEW u \in Users, NEW t \in 0 .. now, StampFor(u, t),
         ClockOut(u, t)
  PROVE  IInv'
  <1> USE NoneAssumption
  <1>t. t \in Nat /\ t =< now /\ now \in Nat
    BY DEF IInv, TypeOK, RecordsTypeOK
  <1>p. PICK s \in Sessions :
           /\ session[s].userId = u /\ session[s].status \in Open
           /\ entry' = ClosedEntries(RunningEntries(u), t)
           /\ brk' = EndedBreaks(ActiveBreaks(s), t)
           /\ session' = ClockedOut(s, t)
           /\ UNCHANGED now
    BY DEF ClockOut, OpenSessions, SessionsIn
  <1>c. /\ entry' \in [Entries -> EntryRow]
        /\ \A e \in Entries :
              /\ entry'[e].taskId = entry[e].taskId
              /\ entry'[e].userId = entry[e].userId
              /\ entry'[e].attendanceSessionId = entry[e].attendanceSessionId
              /\ entry'[e].startAt = entry[e].startAt
              /\ \/ /\ entry[e].userId = u
                    /\ entry[e].status = "RUNNING"
                    /\ entry'[e].endAt = t
                    /\ entry'[e].status = "CLOSED"
                 \/ /\ ~(entry[e].userId = u /\ entry[e].status = "RUNNING")
                    /\ entry'[e] = entry[e]
    BY <1>p, <1>t, EntryUpdate DEF IInv, TypeOK, RunningEntries
  <1>d. /\ brk' \in [Breaks -> BreakRow]
        /\ \A b \in Breaks :
              /\ brk'[b].attendanceSessionId = brk[b].attendanceSessionId
              /\ brk'[b].startAt = brk[b].startAt
              /\ \/ /\ brk[b].attendanceSessionId = s
                    /\ brk[b].status = "ACTIVE"
                    /\ brk'[b].endAt = t
                    /\ brk'[b].status = "COMPLETED"
                 \/ /\ ~(brk[b].attendanceSessionId = s /\ brk[b].status = "ACTIVE")
                    /\ brk'[b] = brk[b]
    BY <1>p, <1>t, BreakUpdate DEF IInv, TypeOK, ActiveBreaks
  <1>e. /\ session' \in [Sessions -> SessionRow]
        /\ \A r \in Sessions \ {s} : session'[r] = session[r]
        /\ session'[s].userId = u
        /\ session'[s].clockInAt = session[s].clockInAt
        /\ session'[s].clockOutAt = t
        /\ session'[s].status = "COMPLETED"
    BY <1>p, <1>t DEF IInv, TypeOK, RecordsTypeOK, ClockedOut, SessionRow, Stamp
  <1>1. TypeOK'
    BY <1>t, <1>p, <1>c, <1>d, <1>e DEF IInv, TypeOK, RecordsTypeOK
  <1>2. StampsPast'
    BY <1>t, <1>p, <1>c, <1>d, <1>e DEF IInv, StampsPast, NoStamp, TypeOK, RecordsTypeOK, Open
  <1>3. OneOpenPerOwner'
    <2>1. OneOpenPerOwner
      BY DEF IInv
    <2>2. \A x, y \in Sessions :
             /\ session'[x].status \in Open
             /\ session'[y].status \in Open
             /\ session'[x].userId = session'[y].userId
             => x = y
      BY <1>e, <2>1 DEF OneOpenPerOwner, Open
    <2>3. \A b, c \in Breaks :
             /\ brk'[b].status = "ACTIVE"
             /\ brk'[c].status = "ACTIVE"
             /\ brk'[b].attendanceSessionId = brk'[c].attendanceSessionId
             => b = c
      BY <1>d, <2>1 DEF OneOpenPerOwner
    <2>4. \A e, f \in Entries :
             /\ entry'[e].status = "RUNNING"
             /\ entry'[f].status = "RUNNING"
             /\ entry'[e].userId = entry'[f].userId
             => e = f
      BY <1>c, <2>1 DEF OneOpenPerOwner
    <2>5. QED
      BY <2>2, <2>3, <2>4 DEF OneOpenPerOwner
  <1>4. OwnersAgree'
    <2>1. OwnersAgree
      BY DEF IInv
    <2>2. \A x \in Sessions :
             /\ session'[x].status # "ABSENT" <=> session[x].status # "ABSENT"
             /\ session'[x].userId = session[x].userId
      BY <1>p, <1>e DEF Open
    <2>3. \A b \in Breaks :
             /\ brk'[b].status # "ABSENT" <=> brk[b].status # "ABSENT"
             /\ brk'[b].attendanceSessionId = brk[b].attendanceSessionId
      BY <1>d
    <2>4. \A e \in Entries :
             /\ entry'[e].status # "ABSENT" <=> entry[e].status # "ABSENT"
             /\ entry'[e].userId = entry[e].userId
             /\ entry'[e].taskId = entry[e].taskId
             /\ entry'[e].attendanceSessionId = entry[e].attendanceSessionId
      BY <1>c
    <2>5. QED
      BY <2>1, <2>2, <2>3, <2>4 DEF OwnersAgree
  <1>5. EndMeansClosed'
    BY <1>t, <1>p, <1>c, <1>d, <1>e DEF IInv, EndMeansClosed, NoStamp, TypeOK, RecordsTypeOK
  <1>6. ClockOutMeansCompleted'
    BY <1>t, <1>p, <1>c, <1>d, <1>e DEF IInv, ClockOutMeansCompleted, Open, NoStamp, TypeOK, RecordsTypeOK
  <1>7. OnBreakMeansActiveBreak'
    BY <1>t, <1>p, <1>c, <1>d, <1>e, SMTT(30) DEF IInv, OnBreakMeansActiveBreak, ActiveBreaks, OwnersAgree, TypeOK, RecordsTypeOK, Open
  <1>8. TimerOnlyWhileWorking'
    BY <1>t, <1>p, <1>c, <1>d, <1>e, SMTT(30) DEF IInv, TimerOnlyWhileWorking, OwnersAgree, TypeOK, RecordsTypeOK, OneOpenPerOwner, Open
  <1>9. EndsAfterStart'
    <2>1. EndsAfterStart /\ StampFor(u, t)
      BY DEF IInv
    <2>2. \A r \in Sessions : session'[r].clockOutAt \in Nat =>
             session'[r].clockInAt =< session'[r].clockOutAt
      BY <1>t, <1>p, <1>e, <2>1 DEF EndsAfterStart, StampFor
    <2>3. \A b \in Breaks : brk'[b].endAt \in Nat =>
             brk'[b].startAt =< brk'[b].endAt
      BY <1>t, <1>p, <1>d, <2>1 DEF EndsAfterStart, StampFor, BreakOwner
    <2>4. \A e \in Entries : entry'[e].endAt \in Nat =>
             entry'[e].startAt =< entry'[e].endAt
      BY <1>t, <1>c, <2>1 DEF EndsAfterStart, StampFor
    <2>5. QED
      BY <2>2, <2>3, <2>4 DEF EndsAfterStart
  <1>10. SegmentsApart'
    BY <1>t, <1>p, <1>c, <1>d, <1>e DEF IInv, SegmentsApart, OverBy, OwnersAgree, EndMeansClosed, StampsPast, TypeOK, RecordsTypeOK, StampFor
  <1>11. SegmentsOutsideBreaks'
    BY <1>t, <1>p, <1>c, <1>d, <1>e DEF IInv, SegmentsOutsideBreaks, OverBy, BreakOwner, OwnersAgree, TypeOK, RecordsTypeOK, StampFor, EndMeansClosed, Open
  <1>12. WithinSession'
    <2>1. ASSUME NEW b \in Breaks, brk'[b].status # "ABSENT"
          PROVE  LET r == brk'[b].attendanceSessionId
                 IN  /\ session'[r].clockInAt =< brk'[b].startAt
                     /\ session'[r].clockOutAt \in Nat =>
                           brk'[b].endAt =< session'[r].clockOutAt
      <3> DEFINE r == brk[b].attendanceSessionId
      <3>1. brk[b].status # "ABSENT" /\ r \in Sessions
        BY <2>1, <1>d DEF IInv, OwnersAgree
      <3>2. CASE r = s
        BY <3>1, <3>2, <1>t, <1>p, <1>d, <1>e
           DEF IInv, WithinSession, StampFor, BreakOwner
      <3>3. CASE r # s
        <4>1. brk'[b] = brk[b] /\ session'[r] = session[r]
          BY <3>1, <3>3, <1>d, <1>e
        <4>2. QED
          BY <3>1, <4>1 DEF IInv, WithinSession
      <3>4. QED
        BY <3>2, <3>3
    <2>2. ASSUME NEW e \in Entries, entry'[e].status # "ABSENT"
          PROVE  LET r == entry'[e].attendanceSessionId
                 IN  /\ session'[r].clockInAt =< entry'[e].startAt
                     /\ session'[r].clockOutAt \in Nat =>
                           entry'[e].endAt =< session'[r].clockOutAt
      <3> DEFINE r == entry[e].attendanceSessionId
      <3>1. entry[e].status # "ABSENT" /\ r \in Sessions
            /\ session[r].userId = entry[e].userId
        BY <2>2, <1>c DEF IInv, OwnersAgree
      <3>2. CASE r = s
        BY <3>1, <3>2, <1>t, <1>p, <1>c, <1>e DEF IInv, WithinSession, StampFor
      <3>3. CASE r # s
        <4>1. session'[r] = session[r]
          BY <3>1, <3>3, <1>e
        <4>2. entry[e].userId = u /\ entry[e].status = "RUNNING" => FALSE
          BY <3>1, <3>3, <1>p
             DEF IInv, TimerOnlyWhileWorking, OneOpenPerOwner, Open
        <4>3. entry'[e] = entry[e]
          BY <4>2, <1>c
        <4>4. QED
          BY <3>1, <4>1, <4>3 DEF IInv, WithinSession
      <3>4. QED
        BY <3>2, <3>3
    <2>3. QED
      BY <2>1, <2>2 DEF WithinSession
  <1>13. QED
    BY <1>1, <1>2, <1>3, <1>4, <1>5, <1>6, <1>7, <1>8, <1>9, <1>10, <1>11,
       <1>12 DEF IInv

\* startBreak keeps the record consistent: it closes the running timer.
LEMMA StartBreakIInv ==
  ASSUME IInv, NEW u \in Users, NEW t \in 0 .. now, StampFor(u, t),
         StartBreak(u, t)
  PROVE  IInv'
  <1> USE NoneAssumption
  <1>t. t \in Nat /\ t =< now /\ now \in Nat
    BY DEF IInv, TypeOK, RecordsTypeOK
  <1>p. PICK s \in Sessions, b \in Breaks :
           /\ session[s].userId = u /\ session[s].status = "ACTIVE"
           /\ brk[b].status = "ABSENT"
           /\ brk' = [brk EXCEPT ![b] = NewBreak(s, t)]
           /\ session' = [session EXCEPT ![s].status = "ON_BREAK"]
           /\ entry' = ClosedEntries(RunningEntries(u), t)
           /\ UNCHANGED now
    BY DEF StartBreak, SessionsIn
  <1>c. /\ entry' \in [Entries -> EntryRow]
        /\ \A e \in Entries :
              /\ entry'[e].taskId = entry[e].taskId
              /\ entry'[e].userId = entry[e].userId
              /\ entry'[e].attendanceSessionId = entry[e].attendanceSessionId
              /\ entry'[e].startAt = entry[e].startAt
              /\ \/ /\ entry[e].userId = u
                    /\ entry[e].status = "RUNNING"
                    /\ entry'[e].endAt = t
                    /\ entry'[e].status = "CLOSED"
                 \/ /\ ~(entry[e].userId = u /\ entry[e].status = "RUNNING")
                    /\ entry'[e] = entry[e]
    BY <1>p, <1>t, EntryUpdate DEF IInv, TypeOK, RunningEntries
  <1>d. /\ brk' \in [Breaks -> BreakRow]
        /\ \A c \in Breaks \ {b} : brk'[c] = brk[c]
        /\ brk'[b].attendanceSessionId = s
        /\ brk'[b].startAt = t
        /\ brk'[b].endAt = NoStamp
        /\ brk'[b].status = "ACTIVE"
    BY <1>p, <1>t DEF IInv, TypeOK, RecordsTypeOK, NewBreak, BreakRow, Stamp
  <1>e. /\ session' \in [Sessions -> SessionRow]
        /\ \A r \in Sessions \ {s} : session'[r] = session[r]
        /\ session'[s].userId = u
        /\ session'[s].clockInAt = session[s].clockInAt
        /\ session'[s].clockOutAt = session[s].clockOutAt
        /\ session'[s].status = "ON_BREAK"
    BY <1>p, <1>t DEF IInv, TypeOK, RecordsTypeOK, SessionRow
  <1>1. TypeOK'
    BY <1>t, <1>p, <1>c, <1>d, <1>e DEF IInv, TypeOK, RecordsTypeOK
  <1>2. StampsPast'
    BY <1>t, <1>p, <1>c, <1>d, <1>e DEF IInv, StampsPast, NoStamp, TypeOK, RecordsTypeOK
  <1>3. OneOpenPerOwner'
    BY <1>t, <1>p, <1>c, <1>d, <1>e DEF IInv, OneOpenPerOwner, Open, TypeOK, RecordsTypeOK, OnBreakMeansActiveBreak, ActiveBreaks
  <1>4. OwnersAgree'
    BY <1>t, <1>p, <1>c, <1>d, <1>e DEF IInv, OwnersAgree, TypeOK, RecordsTypeOK
  <1>5. EndMeansClosed'
    BY <1>t, <1>p, <1>c, <1>d, <1>e DEF IInv, EndMeansClosed, NoStamp, TypeOK, RecordsTypeOK
  <1>6. ClockOutMeansCompleted'
    BY <1>t, <1>p, <1>c, <1>d, <1>e DEF IInv, ClockOutMeansCompleted, Open, NoStamp, TypeOK, RecordsTypeOK
  <1>7. OnBreakMeansActiveBreak'
    BY <1>t, <1>p, <1>c, <1>d, <1>e DEF IInv, OnBreakMeansActiveBreak, ActiveBreaks, OwnersAgree, TypeOK, RecordsTypeOK
  <1>8. TimerOnlyWhileWorking'
    BY <1>t, <1>p, <1>c, <1>d, <1>e DEF IInv, TimerOnlyWhileWorking, OwnersAgree, TypeOK, RecordsTypeOK, OneOpenPerOwner, Open
  <1>9. EndsAfterStart'
    BY <1>t, <1>p, <1>c, <1>d, <1>e DEF IInv, EndsAfterStart, StampsPast, NoStamp, TypeOK, RecordsTypeOK, StampFor
  <1>10. SegmentsApart'
    BY <1>t, <1>p, <1>c, <1>d, <1>e DEF IInv, SegmentsApart, OverBy, OwnersAgree, EndMeansClosed, StampsPast, TypeOK, RecordsTypeOK, StampFor
  <1>11. SegmentsOutsideBreaks'
    <2>1. ASSUME NEW e \in Entries, entry'[e].status # "ABSENT",
                 entry'[e].userId = u
          PROVE  entry'[e].status = "CLOSED" /\ entry'[e].endAt =< t
      BY <2>1, <1>t, <1>c
         DEF IInv, TypeOK, RecordsTypeOK, EntryRow, StampFor
    <2>2. ASSUME NEW e \in Entries, NEW c \in Breaks \ {b},
                 entry'[e].status # "ABSENT", brk'[c].status # "ABSENT",
                 BreakOwner(c)' = entry'[e].userId
          PROVE  \/ OverBy(e, brk[c].startAt)'
                 \/ brk'[c].status = "COMPLETED" /\ brk'[c].endAt =< entry'[e].startAt
      <3>1. brk'[c] = brk[c] /\ brk[c].attendanceSessionId \in Sessions
        BY <2>2, <1>d DEF IInv, OwnersAgree
      <3>2. BreakOwner(c) = entry[e].userId /\ entry[e].status # "ABSENT"
        BY <2>2, <3>1, <1>p, <1>c, <1>e DEF BreakOwner
      <3>3. \/ OverBy(e, brk[c].startAt)
            \/ brk[c].status = "COMPLETED" /\ brk[c].endAt =< entry[e].startAt
        BY <2>2, <3>1, <3>2 DEF IInv, SegmentsOutsideBreaks
      <3>4. QED
        BY <3>1, <3>3, <1>c DEF OverBy
    <2>3. QED
      BY <2>1, <2>2, <1>d, <1>e DEF SegmentsOutsideBreaks, OverBy, BreakOwner
  <1>12. WithinSession'
    BY <1>t, <1>p, <1>c, <1>d, <1>e DEF IInv, WithinSession, OwnersAgree, NoStamp, TypeOK, RecordsTypeOK, StampFor, TimerOnlyWhileWorking, ClockOutMeansCompleted, Open
  <1>13. QED
    BY <1>1, <1>2, <1>3, <1>4, <1>5, <1>6, <1>7, <1>8, <1>9, <1>10, <1>11,
       <1>12 DEF IInv

\* endBreak keeps the record consistent.
LEMMA EndBreakIInv ==
  ASSUME IInv, NEW u \in Users, NEW t \in 0 .. now, StampFor(u, t),
         EndBreak(u, t)
  PROVE  IInv'
  <1> USE NoneAssumption
  <1>t. t \in Nat /\ t =< now /\ now \in Nat
    BY DEF IInv, TypeOK, RecordsTypeOK
  <1>p. PICK s \in Sessions :
           /\ session[s].userId = u /\ session[s].status = "ON_BREAK"
           /\ brk' = EndedBreaks(ActiveBreaks(s), t)
           /\ session' = [session EXCEPT ![s].status = "ACTIVE"]
           /\ UNCHANGED <<now, entry>>
    BY DEF EndBreak, SessionsIn
  <1>d. /\ brk' \in [Breaks -> BreakRow]
        /\ \A b \in Breaks :
              /\ brk'[b].attendanceSessionId = brk[b].attendanceSessionId
              /\ brk'[b].startAt = brk[b].startAt
              /\ \/ /\ brk[b].attendanceSessionId = s
                    /\ brk[b].status = "ACTIVE"
                    /\ brk'[b].endAt = t
                    /\ brk'[b].status = "COMPLETED"
                 \/ /\ ~(brk[b].attendanceSessionId = s /\ brk[b].status = "ACTIVE")
                    /\ brk'[b] = brk[b]
    BY <1>p, <1>t, BreakUpdate DEF IInv, TypeOK, ActiveBreaks
  <1>e. /\ session' \in [Sessions -> SessionRow]
        /\ \A r \in Sessions \ {s} : session'[r] = session[r]
        /\ session'[s].userId = u
        /\ session'[s].clockInAt = session[s].clockInAt
        /\ session'[s].clockOutAt = session[s].clockOutAt
        /\ session'[s].status = "ACTIVE"
    BY <1>p, <1>t DEF IInv, TypeOK, RecordsTypeOK, SessionRow
  <1>1. TypeOK'
    BY <1>t, <1>p, <1>d, <1>e DEF IInv, TypeOK, RecordsTypeOK
  <1>2. StampsPast'
    BY <1>t, <1>p, <1>d, <1>e DEF IInv, StampsPast, NoStamp, TypeOK, RecordsTypeOK
  <1>3. OneOpenPerOwner'
    BY <1>t, <1>p, <1>d, <1>e DEF IInv, OneOpenPerOwner, Open, TypeOK, RecordsTypeOK
  <1>4. OwnersAgree'
    BY <1>t, <1>p, <1>d, <1>e DEF IInv, OwnersAgree, TypeOK, RecordsTypeOK
  <1>5. EndMeansClosed'
    BY <1>t, <1>p, <1>d, <1>e DEF IInv, EndMeansClosed, NoStamp, TypeOK, RecordsTypeOK
  <1>6. ClockOutMeansCompleted'
    BY <1>t, <1>p, <1>d, <1>e DEF IInv, ClockOutMeansCompleted, Open, NoStamp, TypeOK, RecordsTypeOK
  <1>7. OnBreakMeansActiveBreak'
    BY <1>t, <1>p, <1>d, <1>e DEF IInv, OnBreakMeansActiveBreak, ActiveBreaks, OwnersAgree, TypeOK, RecordsTypeOK
  <1>8. TimerOnlyWhileWorking'
    BY <1>t, <1>p, <1>d, <1>e DEF IInv, TimerOnlyWhileWorking, OwnersAgree, TypeOK, RecordsTypeOK
  <1>9. EndsAfterStart'
    BY <1>t, <1>p, <1>d, <1>e DEF IInv, EndsAfterStart, StampsPast, NoStamp, TypeOK, RecordsTypeOK, StampFor, BreakOwner
  <1>10. SegmentsApart'
    BY <1>t, <1>p, <1>d, <1>e DEF IInv, SegmentsApart, OverBy, OwnersAgree, EndMeansClosed, StampsPast, TypeOK, RecordsTypeOK
  <1>11. SegmentsOutsideBreaks'
    BY <1>t, <1>p, <1>d, <1>e DEF IInv, SegmentsOutsideBreaks, OverBy, BreakOwner, OwnersAgree, TypeOK, RecordsTypeOK, StampFor, EndMeansClosed
  <1>12. WithinSession'
    BY <1>t, <1>p, <1>d, <1>e DEF IInv, WithinSession, OwnersAgree, NoStamp, TypeOK, RecordsTypeOK, StampFor, BreakOwner, ClockOutMeansCompleted, Open
  <1>13. QED
    BY <1>1, <1>2, <1>3, <1>4, <1>5, <1>6, <1>7, <1>8, <1>9, <1>10, <1>11,
       <1>12 DEF IInv

\* The clock only moves forward, so what was not in the future stays so.
LEMMA PassTimeIInv ==
  ASSUME IInv, PassTime
  PROVE  IInv'
  <1>1. now \in Nat /\ now' = now + 1 /\ UNCHANGED tables
    BY DEF PassTime, Tick, IInv, TypeOK, RecordsTypeOK
  <1>2. TypeOK'
    BY <1>1 DEF IInv, TypeOK, RecordsTypeOK, tables
  <1>3. StampsPast'
    BY <1>1 DEF IInv, TypeOK, RecordsTypeOK, SessionRow, BreakRow, EntryRow,
       Stamp, NoStamp, StampsPast, tables
  <1>4. OneOpenPerOwner' /\ OwnersAgree' /\ EndMeansClosed'
        /\ ClockOutMeansCompleted'
    BY <1>1 DEF IInv, OneOpenPerOwner, OwnersAgree, EndMeansClosed,
       ClockOutMeansCompleted, tables
  <1>5. OnBreakMeansActiveBreak' /\ TimerOnlyWhileWorking'
    BY <1>1 DEF IInv, OnBreakMeansActiveBreak, ActiveBreaks,
       TimerOnlyWhileWorking, tables
  <1>6. EndsAfterStart' /\ SegmentsApart' /\ SegmentsOutsideBreaks'
        /\ WithinSession'
    BY <1>1 DEF IInv, EndsAfterStart, SegmentsApart, SegmentsOutsideBreaks,
       WithinSession, OverBy, BreakOwner, tables
  <1>7. QED
    BY <1>2, <1>3, <1>4, <1>5, <1>6 DEF IInv

\* What a step does that is not a tick of the clock: a request of one user.
LEMMA ServeCases ==
  ASSUME IInv, NEW u \in Users, Serve(u)
  PROVE  IInv'
  <1>1. PICK t \in 0 .. now : StampFor(u, t) /\ ServeAt(u, t)
    BY DEF Serve
  <1>2. CASE ClockIn(u, t)
    BY <1>1, <1>2, ClockInIInv
  <1>3. CASE ClockOut(u, t)
    BY <1>1, <1>3, ClockOutIInv
  <1>4. CASE StartBreak(u, t)
    BY <1>1, <1>4, StartBreakIInv
  <1>5. CASE EndBreak(u, t)
    BY <1>1, <1>5, EndBreakIInv
  <1>6. CASE StopTimer(u, t)
    BY <1>1, <1>6, StopTimerIInv
  <1>7. ASSUME NEW k \in Tasks, StartTimer(u, k, t)
        PROVE  IInv'
    BY <1>1, <1>7, StartTimerIInv
  <1>8. ASSUME NEW k \in Tasks, SwitchTask(u, k, t)
        PROVE  IInv'
    BY <1>1, <1>8, SwitchTaskIInv
  <1>9. QED
    BY <1>1, <1>2, <1>3, <1>4, <1>5, <1>6, <1>7, <1>8 DEF ServeAt

\* Every reachable record is consistent: the conjunction of all the parts.
THEOREM Consistent == Spec => []IInv
  <1>1. IInv /\ [Next]_vars => IInv'
    <2> SUFFICES ASSUME IInv, [Next]_vars PROVE IInv'
      OBVIOUS
    <2>1. CASE PassTime
      BY <2>1, PassTimeIInv
    <2>2. ASSUME NEW u \in Users, Serve(u) PROVE IInv'
      BY <2>2, ServeCases
    <2>3. CASE UNCHANGED vars
      BY <2>3 DEF vars, IInv, TypeOK, RecordsTypeOK, StampsPast,
         OneOpenPerOwner, OwnersAgree, EndMeansClosed, ClockOutMeansCompleted,
         OnBreakMeansActiveBreak, ActiveBreaks, TimerOnlyWhileWorking,
         EndsAfterStart, SegmentsApart, SegmentsOutsideBreaks, WithinSession,
         OverBy, BreakOwner
    <2>4. QED
      BY <2>1, <2>2, <2>3 DEF Next
  <1>2. QED
    BY <1>1, InitIInv, PTL DEF Spec

\* BR-005, BR-007: a timer runs only while its session is neither on break nor
\* completed.
THEOREM TimerImpliesWorking == Spec => []TimerOnlyWhileWorking
  <1>1. IInv => TimerOnlyWhileWorking
    BY DEF IInv
  <1>2. QED
    BY <1>1, Consistent, PTL

\* BR-009: no two segments of a user overlap.
THEOREM NoOverlap == Spec => []SegmentsApart
  <1>1. IInv => SegmentsApart
    BY DEF IInv
  <1>2. QED
    BY <1>1, Consistent, PTL

\* BR-005, BR-006: no work is recorded during a break, and breaks and segments
\* lie inside their session.
THEOREM WorkOutsideBreaks == Spec => [](SegmentsOutsideBreaks /\ WithinSession)
  <1>1. IInv => SegmentsOutsideBreaks /\ WithinSession
    BY DEF IInv
  <1>2. QED
    BY <1>1, Consistent, PTL

\* endBreak and clockOut find what they have to close.
THEOREM BreakFound == Spec => []OnBreakMeansActiveBreak
  <1>1. IInv => OnBreakMeansActiveBreak
    BY DEF IInv
  <1>2. QED
    BY <1>1, Consistent, PTL

\* A served request leaves every finished row as it is.
LEMMA ServeLeavesHistory ==
  ASSUME IInv, NEW u \in Users, Serve(u)
  PROVE  HistoryUntouched
  <1>1. PICK t \in 0 .. now : StampFor(u, t) /\ ServeAt(u, t)
    BY DEF Serve
  <1> USE DEF IInv, TypeOK, RecordsTypeOK, HistoryUntouched
  <1>2. CASE ClockIn(u, t)
    BY <1>2 DEF ClockIn
  <1>3. CASE ClockOut(u, t)
    BY <1>3 DEF ClockOut, OpenSessions, SessionsIn, Open, ClosedEntries,
       EndedBreaks, ClockedOut, RunningEntries, ActiveBreaks
  <1>4. CASE StartBreak(u, t)
    BY <1>4 DEF StartBreak, SessionsIn, ClosedEntries, RunningEntries
  <1>5. CASE EndBreak(u, t)
    BY <1>5 DEF EndBreak, SessionsIn, EndedBreaks, ActiveBreaks
  <1>6. CASE StopTimer(u, t)
    BY <1>6 DEF StopTimer, ClosedEntries, RunningEntries
  <1>7. ASSUME NEW k \in Tasks, StartTimer(u, k, t)
        PROVE  HistoryUntouched
    BY <1>7 DEF StartTimer
  <1>8. ASSUME NEW k \in Tasks, SwitchTask(u, k, t)
        PROVE  HistoryUntouched
    BY <1>8 DEF SwitchTask, ClosedEntries, RunningEntries
  <1>9. QED
    BY <1>1, <1>2, <1>3, <1>4, <1>5, <1>6, <1>7, <1>8 DEF ServeAt

\* A completed session or break and a closed segment are never rewritten.
THEOREM HistoryKept == Spec => HistoryIsFinal
  <1>1. IInv /\ [Next]_vars => [HistoryUntouched]_tables
    <2> SUFFICES ASSUME IInv, [Next]_vars PROVE [HistoryUntouched]_tables
      OBVIOUS
    <2>1. CASE PassTime
      BY <2>1 DEF PassTime
    <2>2. ASSUME NEW u \in Users, Serve(u) PROVE HistoryUntouched
      BY <2>2, ServeLeavesHistory
    <2>3. CASE UNCHANGED vars
      BY <2>3 DEF vars, tables
    <2>4. QED
      BY <2>1, <2>2, <2>3 DEF Next
  <1>2. QED
    BY <1>1, Consistent, PTL DEF Spec, HistoryIsFinal
----------------------------------------------------------------------------
(* The sums of the record. Two more facts are needed that no request       *)
(* checks: breaks of a session, and sessions of a user, lie one after the  *)
(* other; and a record has finitely many rows, or it would have no sum.    *)

BreakOver(b, t) == brk[b].status = "COMPLETED" /\ brk[b].endAt =< t
BreaksApart ==
    \A b, c \in Breaks :
       /\ b # c
       /\ brk[b].status # "ABSENT"
       /\ brk[c].status # "ABSENT"
       /\ brk[b].attendanceSessionId = brk[c].attendanceSessionId
       => BreakOver(b, brk[c].startAt) \/ BreakOver(c, brk[b].startAt)
SessionOver(s, t) == session[s].status = "COMPLETED" /\ session[s].clockOutAt =< t
SessionsApart ==
    \A s, t \in Sessions :
       /\ s # t
       /\ session[s].status # "ABSENT"
       /\ session[t].status # "ABSENT"
       /\ session[s].userId = session[t].userId
       => SessionOver(s, session[t].clockInAt) \/ SessionOver(t, session[s].clockInAt)
BreakRows == {b \in Breaks : brk[b].status # "ABSENT"}
EntryRows == {e \in Entries : entry[e].status # "ABSENT"}
RowsFinite == IsFiniteSet(BreakRows) /\ IsFiniteSet(EntryRows)

\* The breaks change in one of three ways: not at all, some active ones end, or
\* one begins in a session that has none.
BreaksEnd(ids, t) == brk' = EndedBreaks(ids, t) /\ \A b \in ids : brk[b].status = "ACTIVE"
BreakBegins(u, t) ==
    \E b \in Breaks, s \in SessionsIn(u, {"ACTIVE"}) :
       brk[b].status = "ABSENT" /\ brk' = [brk EXCEPT ![b] = NewBreak(s, t)]

LEMMA BreakSteps ==
  ASSUME NEW u \in Users, NEW t, ServeAt(u, t)
  PROVE  \/ brk' = brk
         \/ \E s \in Sessions : BreaksEnd(ActiveBreaks(s), t)
         \/ BreakBegins(u, t)
  <1>1. \A s \in Sessions : brk' = EndedBreaks(ActiveBreaks(s), t) => BreaksEnd(ActiveBreaks(s), t)
    BY DEF BreaksEnd, ActiveBreaks
  <1>2. CASE ClockOut(u, t) \/ EndBreak(u, t)
    BY <1>1, <1>2 DEF ClockOut, EndBreak, OpenSessions, SessionsIn
  <1>3. CASE StartBreak(u, t)
    BY <1>3 DEF StartBreak, BreakBegins
  <1>4. CASE ~(ClockOut(u, t) \/ EndBreak(u, t) \/ StartBreak(u, t))
    BY <1>4 DEF ServeAt, ClockIn, StopTimer, StartTimer, SwitchTask
  <1>5. QED
    BY <1>2, <1>3, <1>4

LEMMA BreaksStayApart ==
  ASSUME IInv, BreaksApart, NEW u \in Users, NEW t \in 0 .. now, StampFor(u, t), ServeAt(u, t)
  PROVE  BreaksApart'
  <1> USE DEF IInv, TypeOK, RecordsTypeOK
  <1>1. CASE brk' = brk
    BY <1>1 DEF BreaksApart, BreakOver
  <1>2. ASSUME NEW s \in Sessions, BreaksEnd(ActiveBreaks(s), t)
        PROVE  BreaksApart'
    <2>1. \A b \in Breaks :
             /\ brk'[b].startAt = brk[b].startAt
             /\ brk'[b].attendanceSessionId = brk[b].attendanceSessionId
             /\ brk'[b].status # "ABSENT" => brk[b].status # "ABSENT"
             /\ brk[b].status = "COMPLETED" => brk'[b] = brk[b]
      BY <1>2, BreakUpdate DEF BreaksEnd, ActiveBreaks
    <2>2. QED
      BY <2>1 DEF BreaksApart, BreakOver
  <1>3. CASE BreakBegins(u, t)
    <2>1. PICK b \in Breaks, s \in Sessions :
             /\ session[s].userId = u /\ session[s].status = "ACTIVE"
             /\ brk[b].status = "ABSENT"
             /\ brk' = [brk EXCEPT ![b] = NewBreak(s, t)]
      BY <1>3 DEF BreakBegins, SessionsIn
    <2>2. /\ \A c \in Breaks : c # b => brk'[c] = brk[c]
          /\ brk'[b].attendanceSessionId = s /\ brk'[b].startAt = t
      BY <2>1 DEF NewBreak
    <2>3. ASSUME NEW c \in Breaks, brk[c].status # "ABSENT", brk[c].attendanceSessionId = s
          PROVE  BreakOver(c, t)
      <3>1. brk[c].status # "ACTIVE"
        BY <2>1, <2>3 DEF OnBreakMeansActiveBreak, ActiveBreaks
      <3>2. brk[c].status = "COMPLETED"
        BY <2>3, <3>1 DEF BreakRow
      <3>3. brk[c].endAt =< t
        BY <2>1, <2>3 DEF StampFor, BreakOwner
      <3>4. QED
        BY <3>2, <3>3 DEF BreakOver
    <2>4. QED
      BY <2>2, <2>3 DEF BreaksApart, BreakOver
  <1>4. QED
    BY <1>1, <1>2, <1>3, BreakSteps

LEMMA SessionsStayApart ==
  ASSUME IInv, SessionsApart, NEW u \in Users, NEW t \in 0 .. now, StampFor(u, t), ServeAt(u, t)
  PROVE  SessionsApart'
  <1> USE DEF IInv, TypeOK, RecordsTypeOK
  <1>1. CASE ClockIn(u, t)
    <2>1. PICK s \in Sessions : /\ session[s].status = "ABSENT"
                                /\ session' = [session EXCEPT ![s] = NewSession(u, t)]
      BY <1>1 DEF ClockIn
    <2>2. /\ \A r \in Sessions : r # s => session'[r] = session[r]
          /\ session'[s].userId = u /\ session'[s].clockInAt = t
      BY <2>1 DEF NewSession
    <2>3. ASSUME NEW r \in Sessions, session[r].status # "ABSENT", session[r].userId = u
          PROVE  SessionOver(r, t)
      <3>1. session[r].status \notin Open
        BY <1>1, <2>3 DEF ClockIn, OpenSessions, SessionsIn
      <3>2. session[r].status = "COMPLETED"
        BY <2>3, <3>1 DEF SessionRow, Open
      <3>3. QED
        BY <2>3, <3>2 DEF StampFor, SessionOver
    <2>4. QED
      BY <2>2, <2>3 DEF SessionsApart, SessionOver
  <1>2. CASE ~ClockIn(u, t)
    <2>1. \A s \in Sessions :
             /\ session'[s].userId = session[s].userId
             /\ session'[s].clockInAt = session[s].clockInAt
             /\ session'[s].status # "ABSENT" => session[s].status # "ABSENT"
             /\ session[s].status = "COMPLETED" => session'[s] = session[s]
      <3>1. ASSUME NEW s \in Sessions, session[s].status \in Open,
                   NEW st, session' = [session EXCEPT ![s].status = st]
                                \/ session' = ClockedOut(s, t)
            PROVE  \A r \in Sessions :
                      /\ session'[r].userId = session[r].userId
                      /\ session'[r].clockInAt = session[r].clockInAt
                      /\ session'[r].status # "ABSENT" => session[r].status # "ABSENT"
                      /\ session[r].status = "COMPLETED" => session'[r] = session[r]
        BY <3>1 DEF ClockedOut, Open, SessionRow
      <3>2. \/ session' = session
            \/ \E s \in Sessions : /\ session[s].status \in Open
                                   /\ \/ \E st : session' = [session EXCEPT ![s].status = st]
                                      \/ session' = ClockedOut(s, t)
        BY <1>2 DEF ServeAt, ClockOut, StartBreak, EndBreak, StopTimer, StartTimer, SwitchTask,
                    OpenSessions, SessionsIn, Open
      <3>3. QED
        BY <3>1, <3>2
    <2>2. QED
      BY <2>1 DEF SessionsApart, SessionOver
  <1>3. QED
    BY <1>1, <1>2

\* A request inserts one break or one segment at most.
LEMMA RowsStayFinite ==
  ASSUME IInv, RowsFinite, NEW u \in Users, NEW t \in 0 .. now, ServeAt(u, t)
  PROVE  RowsFinite'
  <1> USE DEF IInv, TypeOK, RecordsTypeOK
  <1>1. \E b : BreakRows' \subseteq BreakRows \cup {b}
    <2>1. CASE brk' = brk
      BY <2>1 DEF BreakRows
    <2>2. ASSUME NEW s \in Sessions, BreaksEnd(ActiveBreaks(s), t)
          PROVE  BreakRows' \subseteq BreakRows
      BY <2>2, BreakUpdate DEF BreaksEnd, BreakRows
    <2>3. CASE BreakBegins(u, t)
      <3>1. PICK b \in Breaks, s \in Sessions : brk' = [brk EXCEPT ![b] = NewBreak(s, t)]
        BY <2>3 DEF BreakBegins, SessionsIn
      <3>2. QED
        BY <3>1 DEF BreakRows
    <2>4. QED
      BY <2>1, <2>2, <2>3, BreakSteps
  <1>2. \E e : EntryRows' \subseteq EntryRows \cup {e}
    <2>1. ASSUME NEW e, \A f \in Entries : f # e => entry'[f] = entry[f]
          PROVE  EntryRows' \subseteq EntryRows \cup {e}
      BY <2>1 DEF EntryRows
    <2>2. \A f \in Entries : ClosedEntries(RunningEntries(u), t)[f].status # "ABSENT"
                               => entry[f].status # "ABSENT"
      BY EntryUpdate DEF RunningEntries
    <2>3. CASE ClockIn(u, t) \/ EndBreak(u, t)
      BY <2>3 DEF ClockIn, EndBreak, EntryRows
    <2>4. CASE ClockOut(u, t) \/ StartBreak(u, t) \/ StopTimer(u, t)
      <3>1. entry' = ClosedEntries(RunningEntries(u), t)
        BY <2>4 DEF ClockOut, StartBreak, StopTimer
      <3>2. QED
        BY <2>2, <3>1 DEF EntryRows
    <2>5. ASSUME NEW k \in Tasks, StartTimer(u, k, t)
          PROVE  \E e : EntryRows' \subseteq EntryRows \cup {e}
      <3>1. PICK e \in Entries, s \in Sessions : entry' = [entry EXCEPT ![e] = NewEntry(u, k, s, t)]
        BY <2>5 DEF StartTimer, SessionsIn
      <3>2. QED
        BY <2>1, <3>1
    <2>6. ASSUME NEW k \in Tasks, SwitchTask(u, k, t)
          PROVE  \E e : EntryRows' \subseteq EntryRows \cup {e}
      <3>1. PICK e \in Entries, s \in Sessions :
               entry' = [ClosedEntries(RunningEntries(u), t) EXCEPT ![e] = NewEntry(u, k, s, t)]
        BY <2>6 DEF SwitchTask, SessionsIn
      <3>2. \A f \in Entries : f # e => entry'[f] = ClosedEntries(RunningEntries(u), t)[f]
        BY <3>1, EntryUpdate
      <3>3. QED
        BY <2>2, <3>2 DEF EntryRows
    <2>7. QED
      BY <2>3, <2>4, <2>5, <2>6 DEF ServeAt
  <1>3. ASSUME NEW S, IsFiniteSet(S), NEW x, NEW T, T \subseteq S \cup {x}
        PROVE  IsFiniteSet(T)
    BY <1>3, FS_AddElement, FS_Subset
  <1>4. QED
    BY <1>1, <1>2, <1>3 DEF RowsFinite

DayIInv == IInv /\ BreaksApart /\ SessionsApart /\ RowsFinite

LEMMA DayConsistent == Spec => []DayIInv
  <1>1. Init => BreaksApart /\ SessionsApart /\ RowsFinite
    <2> SUFFICES ASSUME Init PROVE BreaksApart /\ SessionsApart /\ RowsFinite
      OBVIOUS
    <2>1. BreakRows = {} /\ EntryRows = {}
      BY DEF Init, RecordsInit, BreakRows, EntryRows, NoBreak, NoEntry
    <2>2. QED
      BY <2>1, FS_EmptySet DEF RowsFinite, BreaksApart, SessionsApart, Init, RecordsInit,
         NoBreak, NoSession
  <1>2. IInv /\ BreaksApart /\ SessionsApart /\ RowsFinite /\ [Next]_vars
           => (BreaksApart /\ SessionsApart /\ RowsFinite)'
    <2> SUFFICES ASSUME IInv, BreaksApart, SessionsApart, RowsFinite, [Next]_vars
                 PROVE  (BreaksApart /\ SessionsApart /\ RowsFinite)'
      OBVIOUS
    <2>1. CASE UNCHANGED tables
      BY <2>1 DEF tables, BreaksApart, BreakOver, SessionsApart, SessionOver, RowsFinite,
                  BreakRows, EntryRows
    <2>2. ASSUME NEW u \in Users, Serve(u)
          PROVE  (BreaksApart /\ SessionsApart /\ RowsFinite)'
      BY <2>2, BreaksStayApart, SessionsStayApart, RowsStayFinite DEF Serve
    <2>3. QED
      BY <2>1, <2>2 DEF Next, PassTime, vars, tables
  <1>3. QED
    BY <1>1, <1>2, Consistent, PTL DEF Spec, DayIInv

\* Where the intervals of a session lie: inside it, and the breaks and segments
\* one after the other.
Inside(i, s) ==
    /\ i.start \in Nat /\ EndOr(i, now) \in Nat
    /\ session[s].clockInAt =< i.start /\ i.start =< EndOr(i, now)
    /\ EndOr(i, now) =< EndOr(AttendanceOf(s), now)
OneAfterOther(i, j) == EndOr(i, now) =< j.start \/ EndOr(j, now) =< i.start

LEMMA Attended ==
  ASSUME DayIInv, NEW s \in Sessions, session[s].status # "ABSENT"
  PROVE  /\ session[s].clockInAt \in Nat /\ EndOr(AttendanceOf(s), now) \in Nat
         /\ session[s].clockInAt =< EndOr(AttendanceOf(s), now)
         /\ EndOr(AttendanceOf(s), now) =< now
         /\ session[s].status \in Open => EndOr(AttendanceOf(s), now) = now
         /\ session[s].status = "COMPLETED" =>
               /\ session[s].clockOutAt \in Nat
               /\ EndOr(AttendanceOf(s), now) = session[s].clockOutAt
  <1> USE DEF DayIInv, IInv, TypeOK, RecordsTypeOK
  <1>1. /\ session[s].clockInAt \in Nat /\ session[s].clockInAt =< now
        /\ session[s].clockOutAt =< now /\ now \in Nat
    BY DEF StampsPast
  <1>2. AttendanceOf(s).end = session[s].clockOutAt
    BY DEF AttendanceOf
  <1>3. CASE session[s].status \in Open
    <2>1. session[s].clockOutAt = NoStamp
      BY <1>3 DEF ClockOutMeansCompleted
    <2>2. QED
      BY <1>1, <1>2, <1>3, <2>1 DEF EndOr, Open
  <1>4. CASE session[s].status = "COMPLETED"
    <2>1. session[s].clockOutAt \in Nat /\ session[s].clockInAt =< session[s].clockOutAt
      BY <1>4 DEF ClockOutMeansCompleted, EndsAfterStart
    <2>2. QED
      BY <1>1, <1>2, <1>4, <2>1 DEF EndOr, NoStamp, Open
  <1>5. QED
    BY <1>3, <1>4 DEF SessionRow, Open

LEMMA BreakInside ==
  ASSUME DayIInv, NEW s \in Sessions, NEW b \in BreaksOf(s)
  PROVE  /\ b \in BreakRows /\ session[s].status # "ABSENT"
         /\ Inside(BreakOf(b), s)
         /\ brk[b].status = "COMPLETED" => EndOr(BreakOf(b), now) = brk[b].endAt
  <1> USE DEF DayIInv, IInv, TypeOK, RecordsTypeOK
  <1>1. b \in Breaks /\ brk[b].attendanceSessionId = s /\ brk[b].status # "ABSENT"
    BY NoneAssumption DEF BreaksOf, StampsPast, NoBreak
  <1>2. session[s].status # "ABSENT"
    BY <1>1 DEF OwnersAgree
  <1>3. /\ brk[b].startAt \in Nat /\ brk[b].startAt =< now /\ brk[b].endAt =< now /\ now \in Nat
        /\ session[s].clockInAt =< brk[b].startAt
        /\ session[s].clockInAt \in Nat
    BY <1>1, <1>2 DEF StampsPast, WithinSession
  <1>4. BreakOf(b).start = brk[b].startAt /\ BreakOf(b).end = brk[b].endAt
    BY DEF BreakOf
  <1>5. CASE brk[b].status = "ACTIVE"
    <2>1. brk[b].endAt = NoStamp
      BY <1>1, <1>5 DEF EndMeansClosed
    <2>2. session[s].status \in Open
      BY <1>1, <1>2, <1>5 DEF OnBreakMeansActiveBreak, ActiveBreaks, Open
    <2>3. EndOr(AttendanceOf(s), now) = now /\ EndOr(BreakOf(b), now) = now
      BY <1>2, <1>4, <2>1, <2>2, Attended DEF EndOr
    <2>4. QED
      BY <1>1, <1>2, <1>3, <1>4, <1>5, <2>3 DEF Inside, BreakRows
  <1>6. CASE brk[b].status = "COMPLETED"
    <2>1. brk[b].endAt \in Nat /\ brk[b].startAt =< brk[b].endAt
      BY <1>1, <1>6 DEF EndMeansClosed, EndsAfterStart
    <2>2. EndOr(BreakOf(b), now) = brk[b].endAt
      BY <1>4, <2>1 DEF EndOr, NoStamp
    <2>3. brk[b].endAt =< EndOr(AttendanceOf(s), now)
      <3>1. CASE session[s].status \in Open
        BY <1>2, <1>3, <3>1, Attended
      <3>2. CASE session[s].status = "COMPLETED"
        BY <1>1, <1>2, <3>2, Attended DEF WithinSession
      <3>3. QED
        BY <1>2, <3>1, <3>2 DEF SessionRow, Open
    <2>4. QED
      BY <1>1, <1>2, <1>3, <1>4, <1>6, <2>1, <2>2, <2>3 DEF Inside, BreakRows
  <1>7. QED
    BY <1>1, <1>5, <1>6 DEF BreakRow

LEMMA SegmentInside ==
  ASSUME DayIInv, NEW s \in Sessions, NEW e \in EntriesOf(s)
  PROVE  /\ e \in EntryRows /\ session[s].status # "ABSENT"
         /\ entry[e].userId = session[s].userId
         /\ Inside(SegmentOf(e), s)
         /\ entry[e].status = "CLOSED" => EndOr(SegmentOf(e), now) = entry[e].endAt
  <1> USE DEF DayIInv, IInv, TypeOK, RecordsTypeOK
  <1>1. e \in Entries /\ entry[e].attendanceSessionId = s /\ entry[e].status # "ABSENT"
    BY NoneAssumption DEF EntriesOf, StampsPast, NoEntry
  <1>2. session[s].status # "ABSENT" /\ entry[e].userId = session[s].userId
    BY <1>1 DEF OwnersAgree
  <1>3. /\ entry[e].startAt \in Nat /\ entry[e].startAt =< now /\ entry[e].endAt =< now
        /\ now \in Nat
        /\ session[s].clockInAt =< entry[e].startAt
        /\ session[s].clockInAt \in Nat
    BY <1>1, <1>2 DEF StampsPast, WithinSession
  <1>4. SegmentOf(e).start = entry[e].startAt /\ SegmentOf(e).end = entry[e].endAt
    BY DEF SegmentOf
  <1>5. CASE entry[e].status = "RUNNING"
    <2>1. entry[e].endAt = NoStamp
      BY <1>1, <1>5 DEF EndMeansClosed
    <2>2. session[s].status \in Open
      BY <1>1, <1>2, <1>5 DEF TimerOnlyWhileWorking, Open
    <2>3. EndOr(AttendanceOf(s), now) = now /\ EndOr(SegmentOf(e), now) = now
      BY <1>2, <1>4, <2>1, <2>2, Attended DEF EndOr
    <2>4. QED
      BY <1>1, <1>2, <1>3, <1>4, <1>5, <2>3 DEF Inside, EntryRows
  <1>6. CASE entry[e].status = "CLOSED"
    <2>1. entry[e].endAt \in Nat /\ entry[e].startAt =< entry[e].endAt
      BY <1>1, <1>6 DEF EndMeansClosed, EndsAfterStart
    <2>2. EndOr(SegmentOf(e), now) = entry[e].endAt
      BY <1>4, <2>1 DEF EndOr, NoStamp
    <2>3. entry[e].endAt =< EndOr(AttendanceOf(s), now)
      <3>1. CASE session[s].status \in Open
        BY <1>2, <1>3, <3>1, Attended
      <3>2. CASE session[s].status = "COMPLETED"
        BY <1>1, <1>2, <3>2, Attended DEF WithinSession
      <3>3. QED
        BY <1>2, <3>1, <3>2 DEF SessionRow, Open
    <2>4. QED
      BY <1>1, <1>2, <1>3, <1>4, <1>6, <2>1, <2>2, <2>3 DEF Inside, EntryRows
  <1>7. QED
    BY <1>1, <1>5, <1>6 DEF EntryRow

LEMMA InOrder ==
  ASSUME DayIInv, NEW s \in Sessions
  PROVE  /\ \A b, c \in BreaksOf(s) : b # c => OneAfterOther(BreakOf(b), BreakOf(c))
         /\ \A e, f \in EntriesOf(s) : e # f => OneAfterOther(SegmentOf(e), SegmentOf(f))
         /\ \A e \in EntriesOf(s), b \in BreaksOf(s) : OneAfterOther(SegmentOf(e), BreakOf(b))
  <1> USE DEF DayIInv, IInv
  <1>b. \A b \in BreaksOf(s) :
           /\ b \in Breaks /\ brk[b].status # "ABSENT" /\ brk[b].attendanceSessionId = s
           /\ BreakOf(b).start = brk[b].startAt
           /\ brk[b].status = "COMPLETED" => EndOr(BreakOf(b), now) = brk[b].endAt
    BY BreakInside DEF BreaksOf, BreakRows, BreakOf
  <1>e. \A e \in EntriesOf(s) :
           /\ e \in Entries /\ entry[e].status # "ABSENT"
           /\ entry[e].userId = session[s].userId
           /\ SegmentOf(e).start = entry[e].startAt
           /\ entry[e].status = "CLOSED" => EndOr(SegmentOf(e), now) = entry[e].endAt
    BY SegmentInside DEF EntriesOf, EntryRows, SegmentOf
  <1>1. ASSUME NEW b \in BreaksOf(s), NEW c \in BreaksOf(s), b # c
        PROVE  OneAfterOther(BreakOf(b), BreakOf(c))
    BY <1>1, <1>b DEF BreaksApart, BreakOver, OneAfterOther
  <1>2. ASSUME NEW e \in EntriesOf(s), NEW f \in EntriesOf(s), e # f
        PROVE  OneAfterOther(SegmentOf(e), SegmentOf(f))
    BY <1>2, <1>e DEF SegmentsApart, OverBy, OneAfterOther
  <1>3. ASSUME NEW e \in EntriesOf(s), NEW b \in BreaksOf(s)
        PROVE  OneAfterOther(SegmentOf(e), BreakOf(b))
    BY <1>3, <1>e, <1>b DEF SegmentsOutsideBreaks, BreakOwner, OverBy, OneAfterOther
  <1>4. QED
    BY <1>1, <1>2, <1>3

----------------------------------------------------------------------------
(* Sums over finite sets. The library's sum is a fold, a function chosen   *)
(* to satisfy a recursive equation on the subsets of the set; that another *)
(* function that satisfies it is the same one holds of a smallest subset   *)
(* on which they would differ.                                             *)

\* What the fold is made of: a chosen member counts, and then the rest.
Chosen(s) == CHOOSE x \in s : TRUE
SumStep(f, S, g) ==
   [s \in SUBSET S |-> IF s = {} THEN 0 ELSE f[Chosen(s)] + g[s \ {Chosen(s)}]]

\* The library's sum, spelled out.
LEMMA SumUnfolded ==
  ASSUME NEW f
  PROVE SumFunction(f) = (CHOOSE g : g = SumStep(f, DOMAIN f, g))[DOMAIN f]
  BY DEF SumFunction, SumFunctionOnSet, FoldFunctionOnSet, MapThenFoldSet, SumStep, Chosen

\* Whatever satisfies the fold's equation on the subsets of a finite set is its value.
LEMMA SumUnique ==
  ASSUME NEW S, IsFiniteSet(S), NEW f, DOMAIN f = S, NEW g, g = SumStep(f, S, g)
  PROVE  SumFunction(f) = g[S]
  <1> DEFINE h == CHOOSE x : x = SumStep(f, S, x)
  <1>1. h = SumStep(f, S, h)
    OBVIOUS
  <1>2. SumFunction(f) = h[S]
    BY SumUnfolded
  <1> HIDE DEF h
  <1>3. \A T \in SUBSET S : h[T] = g[T]
    <2> DEFINE Bad == {T \in SUBSET S : h[T] # g[T]}
    <2> SUFFICES ASSUME Bad # {} PROVE FALSE
      OBVIOUS
    <2>1. IsWellFoundedOn(StrictSubsetOrdering(S), FiniteSubsetsOf(S))
      BY FS_StrictSubsetOrderingWellFounded
    <2>2. FiniteSubsetsOf(S) = SUBSET S
      BY FS_FiniteSubsetsOfFinite
    <2>a. Bad \subseteq FiniteSubsetsOf(S)
      BY <2>2
    <2>b. \A T \in SUBSET S : h[T] # g[T] => T \in Bad
      OBVIOUS
    <2>c. \A T \in Bad : T \in SUBSET S /\ h[T] # g[T]
      OBVIOUS
    <2> HIDE DEF Bad
    <2>3. PICK T \in Bad : \A U \in Bad : ~(<<U, T>> \in StrictSubsetOrdering(S))
      BY <2>1, <2>a, WFMin
    <2>4. T # {}
      BY <2>c, <1>1 DEF SumStep
    <2>5. Chosen(T) \in T
      BY <2>4 DEF Chosen
    <2> DEFINE U == T \ {Chosen(T)}
    <2>6. U \in SUBSET S /\ U \in SUBSET T /\ U # T
      BY <2>5, <2>c
    <2>7. <<U, T>> \in StrictSubsetOrdering(S)
      BY <2>6, <2>c DEF StrictSubsetOrdering
    <2>8. h[U] = g[U]
      BY <2>3, <2>6, <2>7, <2>b
    <2>9. h[T] = f[Chosen(T)] + h[U] /\ g[T] = f[Chosen(T)] + g[U]
      BY <1>1, <2>4, <2>c DEF SumStep
    <2>10. QED
      BY <2>c, <2>8, <2>9
  <1>4. QED
    BY <1>2, <1>3

\* The sum of the sizes of disjoint finite sets is the size of their union.
LEMMA SumOfSizes ==
  ASSUME NEW S, IsFiniteSet(S), NEW f, DOMAIN f = S, NEW M,
         \A i \in S : IsFiniteSet(M[i]) /\ f[i] = Cardinality(M[i]),
         \A i, j \in S : i # j => M[i] \cap M[j] = {}
  PROVE  /\ IsFiniteSet(UNION {M[i] : i \in S})
         /\ SumFunction(f) = Cardinality(UNION {M[i] : i \in S})
  <1> DEFINE All(T) == UNION {M[i] : i \in T}
             g == [T \in SUBSET S |-> Cardinality(All(T))]
  <1>1. ASSUME NEW T \in SUBSET S
        PROVE  IsFiniteSet(All(T))
    <2>1. IsFiniteSet(T)
      BY FS_Subset
    <2>2. IsFiniteSet({M[i] : i \in T})
      <3> DEFINE m == [i \in T |-> M[i]]
      <3>1. m \in Surjection(T, {M[i] : i \in T})
        BY DEF Surjection
      <3>2. QED
        BY <2>1, <3>1, FS_Surjection
    <2>3. \A X \in {M[i] : i \in T} : IsFiniteSet(X)
      OBVIOUS
    <2>4. IsFiniteSet(UNION {M[i] : i \in T})
      BY <2>2, <2>3, FS_UNION
    <2>5. QED
      BY <2>4
  <1>2. ASSUME NEW T \in SUBSET S
        PROVE  g[T] = IF T = {} THEN 0 ELSE f[Chosen(T)] + g[T \ {Chosen(T)}]
    <2>1. CASE T = {}
      <3>1. All(T) = {}
        BY <2>1
      <3>2. QED
        BY <2>1, <3>1, FS_EmptySet
    <2>2. CASE T # {}
      <3> DEFINE p == Chosen(T)  U == T \ {p}
      <3>1. p \in T
        BY <2>2 DEF Chosen
      <3> HIDE DEF p
      <3>2. U \in SUBSET S
        OBVIOUS
      <3>3. All(T) = M[p] \cup All(U)
        BY <3>1
      <3>4. M[p] \cap All(U) = {}
        BY <3>1
      <3>5. IsFiniteSet(M[p]) /\ IsFiniteSet(All(U)) /\ f[p] = Cardinality(M[p])
        BY <3>1, <3>2, <1>1
      <3> HIDE DEF All
      <3>6. Cardinality(All(T)) = Cardinality(M[p]) + Cardinality(All(U)) - Cardinality(M[p] \cap All(U))
        <4>1. Cardinality(M[p] \cup All(U))
                 = Cardinality(M[p]) + Cardinality(All(U)) - Cardinality(M[p] \cap All(U))
          BY <3>5, FS_Union
        <4>2. QED
          BY <3>3, <4>1
      <3>7. Cardinality(M[p]) \in Nat /\ Cardinality(All(U)) \in Nat /\ Cardinality({}) = 0
        BY <3>5, FS_CardinalityType, FS_EmptySet
      <3>c. Cardinality(M[p] \cap All(U)) = 0
        BY <3>4, FS_EmptySet
      <3> HIDE DEF U
      <3>8. Cardinality(All(T)) = f[p] + Cardinality(All(U))
        BY <3>c, <3>5, <3>6, <3>7
      <3>9. g[T] = f[p] + g[U]
        BY <3>2, <3>8 DEF U
      <3>10. QED
        BY <2>2, <3>9 DEF p, U
    <2>3. QED
      BY <2>1, <2>2
  <1>3. g = SumStep(f, S, g)
    <2> HIDE DEF All
    <2>1. g = [T \in SUBSET S |-> g[T]]
      OBVIOUS
    <2>2. \A T \in SUBSET S : g[T] = SumStep(f, S, g)[T]
      BY <1>2 DEF SumStep
    <2>3. SumStep(f, S, g) = [T \in SUBSET S |-> SumStep(f, S, g)[T]]
      BY DEF SumStep
    <2> HIDE DEF g
    <2>4. QED
      BY <2>1, <2>2, <2>3
  <1>4. g[S] = Cardinality(All(S)) /\ IsFiniteSet(All(S))
    BY <1>1
  <1> HIDE DEF g
  <1>5. SumFunction(f) = g[S]
    BY <1>3, SumUnique
  <1>6. QED
    BY <1>4, <1>5

----------------------------------------------------------------------------
(* The minutes of a session.                                               *)

\* An interval has as many minutes as it is long.
LEMMA Length ==
  ASSUME NEW i, i.start \in Nat, EndOr(i, now) \in Nat, i.start =< EndOr(i, now)
  PROVE  /\ IsFiniteSet(Minutes(i))
         /\ Cardinality(Minutes(i)) = EndOr(i, now) - i.start
         /\ Cardinality(Minutes(i)) = Positive(EndOr(i, now) - i.start)
  <1>1. EndOr(i, now) - 1 \in Int /\ i.start \in Int
    OBVIOUS
  <1>2. /\ IsFiniteSet(Minutes(i))
        /\ Cardinality(Minutes(i)) = IF i.start > EndOr(i, now) - 1 THEN 0
                                     ELSE (EndOr(i, now) - 1) - i.start + 1
    BY <1>1, FS_Interval DEF Minutes
  <1>3. QED
    BY <1>2 DEF Positive

\* A break is clipped to its session, in which it lies anyway.
LEMMA Clipped ==
  ASSUME DayIInv, NEW s \in Sessions, NEW b \in BreaksOf(s)
  PROVE  overlapMinutes(AttendanceOf(s), BreakOf(b).start, EndOr(BreakOf(b), now))
            = Cardinality(Minutes(BreakOf(b)))
  <1> DEFINE from == BreakOf(b).start
             to == EndOr(BreakOf(b), now)
             end == EndOr(AttendanceOf(s), to)
  <1>1. /\ from \in Nat /\ to \in Nat /\ session[s].clockInAt =< from /\ from =< to
        /\ to =< EndOr(AttendanceOf(s), now)
    BY BreakInside DEF Inside
  <1>2. AttendanceOf(s).start = session[s].clockInAt /\ session[s].clockInAt \in Nat
    BY BreakInside, Attended DEF AttendanceOf
  <1>3. end \in Nat /\ to =< end
    <2>1. CASE AttendanceOf(s).end = NoStamp
      BY <1>1, <2>1 DEF EndOr
    <2>2. CASE AttendanceOf(s).end # NoStamp
      <3>1. end = EndOr(AttendanceOf(s), now)
        BY <2>2 DEF EndOr
      <3>2. QED
        BY <1>1, <3>1, BreakInside, Attended
    <2>3. QED
      BY <2>1, <2>2
  <1>4. Cardinality(Minutes(BreakOf(b))) = Positive(to - from)
    BY <1>1, Length
  <1> HIDE DEF from, to, end
  <1>5. Min({end, to}) = to
    BY <1>1, <1>3 DEF Min
  <1>6. Max({session[s].clockInAt, from}) = from
    BY <1>1, <1>2 DEF Max
  <1>7. QED
    BY <1>2, <1>4, <1>5, <1>6 DEF overlapMinutes, from, to, end

LEMMA BreakSum ==
  ASSUME DayIInv, NEW s \in Sessions
  PROVE  /\ IsFiniteSet(OnBreak(s))
         /\ calculateBreakMinutes(s) = Cardinality(OnBreak(s))
         /\ reportedBreakMinutes(s) = Cardinality(OnBreak(s))
  <1> DEFINE S == BreaksOf(s)
             M == [b \in S |-> Minutes(BreakOf(b))]
             f == [b \in S |-> overlapMinutes(AttendanceOf(s), BreakOf(b).start,
                                              EndOr(BreakOf(b), now))]
             g == [b \in S |-> Positive(EndOr(BreakOf(b), now) - BreakOf(b).start)]
  <1>1. IsFiniteSet(S)
    <2>1. S \subseteq BreakRows
      BY BreakInside
    <2>2. QED
      BY <2>1, FS_Subset DEF DayIInv, RowsFinite
  <1>2. ASSUME NEW b \in S
        PROVE  /\ IsFiniteSet(M[b])
               /\ f[b] = Cardinality(M[b]) /\ g[b] = Cardinality(M[b])
    BY Clipped, Length, BreakInside DEF Inside
  <1>3. ASSUME NEW b \in S, NEW c \in S, b # c
        PROVE  M[b] \cap M[c] = {}
    <2>1. OneAfterOther(BreakOf(b), BreakOf(c)) /\ Inside(BreakOf(b), s) /\ Inside(BreakOf(c), s)
      BY <1>3, InOrder, BreakInside
    <2>2. QED
      BY <2>1 DEF Minutes, OneAfterOther, Inside
  <1>4. UNION {M[b] : b \in S} = OnBreak(s)
    BY DEF OnBreak
  <1>5. DOMAIN f = S /\ DOMAIN g = S
    OBVIOUS
  <1>6. calculateBreakMinutes(s) = SumFunction(f) /\ reportedBreakMinutes(s) = SumFunction(g)
    BY DEF calculateBreakMinutes, reportedBreakMinutes
  <1> HIDE DEF f, g, M, S
  <1>7. SumFunction(f) = Cardinality(UNION {M[b] : b \in S}) /\ IsFiniteSet(UNION {M[b] : b \in S})
    BY <1>1, <1>2, <1>3, <1>5, SumOfSizes
  <1>8. SumFunction(g) = Cardinality(UNION {M[b] : b \in S})
    <2>1. \A b \in S : IsFiniteSet(M[b]) /\ g[b] = Cardinality(M[b])
      BY <1>2
    <2>2. \A b, c \in S : b # c => M[b] \cap M[c] = {}
      BY <1>3
    <2>3. DOMAIN g = S
      BY <1>5
    <2>4. /\ IsFiniteSet(UNION {M[b] : b \in S})
          /\ SumFunction(g) = Cardinality(UNION {M[b] : b \in S})
      BY <1>1, <2>1, <2>2, <2>3, SumOfSizes
    <2>5. QED
      BY <2>4
  <1>9. QED
    BY <1>4, <1>6, <1>7, <1>8

LEMMA TaskSum ==
  ASSUME DayIInv, NEW s \in Sessions
  PROVE  /\ IsFiniteSet(OnTask(s))
         /\ calculateTaskMinutes(s) = Cardinality(OnTask(s))
  <1> DEFINE S == EntriesOf(s)
             M == [e \in S |-> Minutes(SegmentOf(e))]
             f == [e \in S |-> Positive(EndOr(SegmentOf(e), now) - SegmentOf(e).start)]
  <1>1. IsFiniteSet(S)
    <2>1. S \subseteq EntryRows
      BY SegmentInside
    <2>2. QED
      BY <2>1, FS_Subset DEF DayIInv, RowsFinite
  <1>2. ASSUME NEW e \in S
        PROVE  IsFiniteSet(M[e]) /\ f[e] = Cardinality(M[e])
    BY Length, SegmentInside DEF Inside
  <1>3. ASSUME NEW e \in S, NEW g \in S, e # g
        PROVE  M[e] \cap M[g] = {}
    <2>1. /\ OneAfterOther(SegmentOf(e), SegmentOf(g))
          /\ Inside(SegmentOf(e), s) /\ Inside(SegmentOf(g), s)
      BY <1>3, InOrder, SegmentInside
    <2>2. QED
      BY <2>1 DEF Minutes, OneAfterOther, Inside
  <1>4. UNION {M[e] : e \in S} = OnTask(s)
    BY DEF OnTask
  <1>5. DOMAIN f = S /\ calculateTaskMinutes(s) = SumFunction(f)
    BY DEF calculateTaskMinutes
  <1> HIDE DEF f, M, S
  <1>6. SumFunction(f) = Cardinality(UNION {M[e] : e \in S}) /\ IsFiniteSet(UNION {M[e] : e \in S})
    BY <1>1, <1>2, <1>3, <1>5, SumOfSizes
  <1>7. QED
    BY <1>4, <1>5, <1>6

LEMMA AddsUp ==
  ASSUME DayIInv, NEW s \in Sessions, session[s].status # "ABSENT"
  PROVE  /\ calculateNetWorkingMinutes(s) = Cardinality(Working(s))
         /\ calculateNetWorkingMinutes(s) - calculateTaskMinutes(s) = Cardinality(Idle(s))
         /\ Cardinality(Idle(s)) \in Nat /\ Cardinality(Working(s)) \in Nat
  <1> DEFINE A == AttendanceOf(s)  T == Minutes(A)
  <1>1. /\ IsFiniteSet(T) /\ Cardinality(T) = Positive(EndOr(A, now) - A.start)
        /\ A.start = session[s].clockInAt /\ A.start \in Nat /\ EndOr(A, now) \in Nat
    BY Attended, Length DEF AttendanceOf
  <1>2. OnBreak(s) \subseteq T
    <2>1. ASSUME NEW b \in BreaksOf(s) PROVE Minutes(BreakOf(b)) \subseteq T
      BY <1>1, BreakInside DEF Inside, Minutes
    <2>2. QED
      BY <2>1 DEF OnBreak
  <1>3. OnTask(s) \subseteq T
    <2>1. ASSUME NEW e \in EntriesOf(s) PROVE Minutes(SegmentOf(e)) \subseteq T
      BY <1>1, SegmentInside DEF Inside, Minutes
    <2>2. QED
      BY <2>1 DEF OnTask
  <1>4. OnTask(s) \cap OnBreak(s) = {}
    <2>1. ASSUME NEW e \in EntriesOf(s), NEW b \in BreaksOf(s)
          PROVE  Minutes(SegmentOf(e)) \cap Minutes(BreakOf(b)) = {}
      <3>1. /\ OneAfterOther(SegmentOf(e), BreakOf(b))
            /\ Inside(SegmentOf(e), s) /\ Inside(BreakOf(b), s)
        BY InOrder, BreakInside, SegmentInside
      <3>2. QED
        BY <3>1 DEF Minutes, OneAfterOther, Inside
    <2>2. QED
      BY <2>1 DEF OnTask, OnBreak
  <1>5. Working(s) = T \ OnBreak(s) /\ Idle(s) = Working(s) \ OnTask(s)
        /\ T \cap OnBreak(s) = OnBreak(s) /\ Working(s) \cap OnTask(s) = OnTask(s)
    <2>1. Working(s) = T \ OnBreak(s) /\ Idle(s) = Working(s) \ OnTask(s)
      BY DEF Working, Idle
    <2> HIDE DEF T, A
    <2>2. QED
      BY <1>2, <1>3, <1>4, <2>1
  <1> HIDE DEF T, A
  <1>6. /\ IsFiniteSet(Working(s))
        /\ Cardinality(Working(s)) = Cardinality(T) - Cardinality(OnBreak(s))
    <2>1. /\ IsFiniteSet(T \ OnBreak(s))
          /\ Cardinality(T \ OnBreak(s))
                = Cardinality(T) - Cardinality(T \cap OnBreak(s))
      BY <1>1, FS_Difference
    <2>2. QED
      BY <1>5, <2>1
  <1>7. /\ IsFiniteSet(Idle(s))
        /\ Cardinality(Idle(s)) = Cardinality(Working(s)) - Cardinality(OnTask(s))
    <2>1. /\ IsFiniteSet(Working(s) \ OnTask(s))
          /\ Cardinality(Working(s) \ OnTask(s))
                = Cardinality(Working(s)) - Cardinality(Working(s) \cap OnTask(s))
      BY <1>6, FS_Difference
    <2>2. QED
      BY <1>5, <2>1
  <1>8. /\ Cardinality(Working(s)) \in Nat /\ Cardinality(Idle(s)) \in Nat
        /\ Cardinality(T) \in Nat /\ Cardinality(OnBreak(s)) \in Nat
        /\ Cardinality(OnTask(s)) \in Nat
    BY <1>1, <1>6, <1>7, BreakSum, TaskSum, FS_CardinalityType
  <1>9. calculateNetWorkingMinutes(s) = Positive(Cardinality(T) - Cardinality(OnBreak(s)))
    BY <1>1, BreakSum DEF calculateNetWorkingMinutes, A
  <1>10. calculateNetWorkingMinutes(s) = Cardinality(Working(s))
    BY <1>6, <1>8, <1>9 DEF Positive
  <1>11. QED
    BY <1>7, <1>8, <1>10, TaskSum

\* What time-math.ts computes: for any number of breaks and segments, the sums of a
\* session's intervals are the numbers of minutes worked, on a break, on a task and
\* on neither: no minute is counted twice and none is missing.  An active break
\* counts as far as it has gone, which the words of BR-008 leave out.
THEOREM EveryMinuteCounted == Spec => []Reconciled
  <1>1. ASSUME DayIInv PROVE Reconciled
    <2> SUFFICES ASSUME NEW s \in Sessions, session[s].status # "ABSENT"
                 PROVE  /\ reconcile(s) = [netWorkingMinutes |-> Cardinality(Working(s)),
                                 taskMinutes |-> Cardinality(OnTask(s)),
                                 breakMinutes |-> Cardinality(OnBreak(s)),
                                 unallocatedMinutes |-> Cardinality(Idle(s)),
                                 hasDataQualityException |-> FALSE]
                        /\ reportedBreakMinutes(s) = Cardinality(OnBreak(s))
      BY DEF Reconciled
    <2>1. /\ calculateNetWorkingMinutes(s) = Cardinality(Working(s))
          /\ calculateBreakMinutes(s) = Cardinality(OnBreak(s))
          /\ calculateTaskMinutes(s) = Cardinality(OnTask(s))
          /\ reportedBreakMinutes(s) = Cardinality(OnBreak(s))
      BY <1>1, AddsUp, BreakSum, TaskSum
    <2>2. /\ Positive(calculateNetWorkingMinutes(s) - calculateTaskMinutes(s)) = Cardinality(Idle(s))
          /\ (calculateNetWorkingMinutes(s) - calculateTaskMinutes(s) < 0) = FALSE
      <3>1. /\ calculateNetWorkingMinutes(s) - calculateTaskMinutes(s) = Cardinality(Idle(s))
            /\ Cardinality(Idle(s)) \in Nat
        BY <1>1, AddsUp
      <3>2. QED
        BY <3>1 DEF Positive
    <2>3. QED
      BY <2>1, <2>2 DEF reconcile
  <1>2. QED
    BY <1>1, DayConsistent, PTL

----------------------------------------------------------------------------
(* The gaps of the timeline.                                               *)

\* A set of naturals has a least member, and with a bound a greatest.
LEMMA Least ==
  ASSUME NEW S \in SUBSET Nat, S # {}
  PROVE  \E m \in S : \A n \in S : m =< n
  <1> DEFINE R == {ss \in Nat \X Nat : ss[1] < ss[2]}
  <1>1. IsWellFoundedOn(R, Nat)
    BY NatLessThanWellFounded DEF OpToRel
  <1>2. \A k, m \in Nat : k < m => <<k, m>> \in R
    OBVIOUS
  <1> HIDE DEF R
  <1>3. PICK m \in S : \A n \in S : ~(<<n, m>> \in R)
    BY <1>1, WFMin
  <1>4. \A n \in S : ~(n < m)
    BY <1>2, <1>3
  <1>5. QED
    BY <1>4

LEMMA Greatest ==
  ASSUME NEW S \in SUBSET Nat, S # {}, NEW n \in Nat, \A x \in S : x =< n
  PROVE  Max(S) \in S /\ \A x \in S : x =< Max(S)
  <1> DEFINE B == {m \in Nat : \A x \in S : x =< m}
  <1>1. n \in B /\ B \in SUBSET Nat
    OBVIOUS
  <1>2. \A m \in Nat : m \in B <=> \A x \in S : x =< m
    OBVIOUS
  <1> HIDE DEF B
  <1>3. PICK m \in B : \A k \in B : m =< k
    BY <1>1, Least
  <1>4. m \in S
    <2> SUFFICES ASSUME m \notin S PROVE FALSE
      OBVIOUS
    <2>1. PICK x \in S : TRUE
      OBVIOUS
    <2>2. x =< m /\ x # m /\ m \in Nat /\ x \in Nat
      BY <1>1, <1>2, <1>3
    <2>3. m - 1 \in Nat /\ m - 1 < m
      BY <2>2
    <2>4. PICK y \in S : ~(y =< m - 1)
      <3>1. m - 1 \notin B
        BY <1>3, <2>2, <2>3
      <3>2. QED
        BY <1>2, <2>3, <3>1
    <2>5. y =< m /\ y \in Nat
      BY <1>1, <1>2, <1>3
    <2>6. QED
      BY <2>2, <2>4, <2>5
  <1>5. \E x \in S : \A y \in S : x >= y
    BY <1>1, <1>2, <1>3, <1>4
  <1>6. Max(S) \in S /\ \A y \in S : Max(S) >= y
    BY <1>5 DEF Max
  <1>7. QED
    BY <1>6

\* The minutes of the gaps of one attendance event are its own minutes less
\* those of the events it covers, wherever these lie and however they overlap.
LEMMA FlushedIdle ==
  ASSUME now \in Nat, NEW events, NEW a, NEW C, C = coveredBy(events, a),
         a.start \in Nat, EndOr(a, now) \in Nat, a.start =< EndOr(a, now),
         \A x \in C : /\ x.start \in Nat /\ EndOr(x, now) \in Nat
                      /\ a.start =< x.start /\ x.start =< EndOr(x, now)
                      /\ EndOr(x, now) =< EndOr(a, now)
  PROVE  UNION {Minutes(g) : g \in flushSession(events, a)}
            = Minutes(a) \ UNION {Minutes(x) : x \in C}
  <1> DEFINE end == EndOr(a, now)
             ends(S) == {a.start} \cup {EndOr(x, now) : x \in S}
             before(t) == {y \in C : y.start < t}
             behind(S) == Max(ends(S))
             inner == {x \in C : x.start > behind(before(x.start))}
             gap(x) == [start |-> behind(before(x.start)), end |-> x.start]
             tail == [start |-> behind(C), end |-> a.end]
  <1>1. flushSession(events, a) =
           {gap(x) : x \in inner} \cup IF behind(C) < end THEN {tail} ELSE {}
    BY DEF flushSession
  <1>2. ASSUME NEW S \in SUBSET C
        PROVE  /\ behind(S) \in Nat /\ a.start =< behind(S)
               /\ \A x \in S : EndOr(x, now) =< behind(S)
               /\ behind(S) = a.start \/ \E x \in S : behind(S) = EndOr(x, now)
    <2>1. ends(S) \in SUBSET Nat /\ ends(S) # {} /\ \A y \in ends(S) : y =< end
      OBVIOUS
    <2>2. a.start \in ends(S) /\ \A x \in S : EndOr(x, now) \in ends(S)
      OBVIOUS
    <2>3. \A y \in ends(S) : y = a.start \/ \E x \in S : y = EndOr(x, now)
      OBVIOUS
    <2> HIDE DEF ends
    <2>4. behind(S) \in ends(S) /\ \A y \in ends(S) : y =< behind(S)
      BY <2>1, Greatest
    <2>5. QED
      BY <2>1, <2>2, <2>3, <2>4
  <1>3. \A t : before(t) \in SUBSET C /\ \A y \in C : y \in before(t) <=> y.start < t
    OBVIOUS
  <1>4. ASSUME NEW x \in C
        PROVE  Minutes(gap(x)) = behind(before(x.start)) .. x.start - 1
    BY DEF Minutes, EndOr, NoStamp
  <1>5. Minutes(tail) = behind(C) .. end - 1
    BY DEF Minutes, EndOr
  <1>6. Minutes(a) = a.start .. end - 1 /\ \A x \in C : Minutes(x) = x.start .. EndOr(x, now) - 1
    BY DEF Minutes
  <1> HIDE DEF ends, before, behind, gap, tail, end
  <1>7. ASSUME NEW g \in flushSession(events, a), NEW t \in Minutes(g)
        PROVE  t \in Minutes(a) /\ \A x \in C : t \notin Minutes(x)
    <2>1. CASE g \in {gap(x) : x \in inner}
      <3>1. PICK x \in C : x.start > behind(before(x.start)) /\ g = gap(x)
        BY <2>1
      <3>2. t \in Int /\ behind(before(x.start)) =< t /\ t < x.start
        BY <1>2, <1>3, <1>4, <1>7, <3>1
      <3>3. t \in Minutes(a)
        BY <1>2, <1>3, <1>6, <3>2 DEF end
      <3>4. ASSUME NEW y \in C PROVE t \notin Minutes(y)
        <4>1. CASE y.start < x.start
          <5>1. EndOr(y, now) =< behind(before(x.start))
            BY <1>2, <1>3, <4>1
          <5>2. QED
            BY <1>2, <1>3, <1>6, <3>2, <5>1
        <4>2. CASE ~(y.start < x.start)
          BY <1>6, <3>2, <4>2
        <4>3. QED
          BY <4>1, <4>2
      <3>5. QED
        BY <3>3, <3>4
    <2>2. CASE behind(C) < end /\ g = tail
      <3>1. t \in Int /\ behind(C) =< t /\ t < end
        BY <1>2, <1>5, <1>7, <2>2 DEF end
      <3>2. t \in Minutes(a)
        BY <1>2, <1>6, <3>1 DEF end
      <3>3. ASSUME NEW y \in C PROVE t \notin Minutes(y)
        BY <1>2, <1>6, <3>1
      <3>4. QED
        BY <3>2, <3>3
    <2>3. QED
      BY <1>1, <1>7, <2>1, <2>2
  <1>8. ASSUME NEW t \in Minutes(a), \A x \in C : t \notin Minutes(x)
        PROVE  \E g \in flushSession(events, a) : t \in Minutes(g)
    <2>1. t \in Nat /\ a.start =< t /\ t < end
      BY <1>6 DEF end
    <2>2. \A x \in C : x.start =< t => EndOr(x, now) =< t
      BY <1>6, <1>8, <2>1
    <2> DEFINE later == {n \in Nat : \E x \in C : x.start = n /\ t < n}
    <2>3. CASE later = {}
      <3>1. \A x \in C : EndOr(x, now) =< t
        BY <2>1, <2>2, <2>3
      <3>2. behind(C) =< t
        BY <1>2, <2>1, <3>1
      <3>3. t \in Minutes(tail) /\ behind(C) < end
        BY <1>2, <1>5, <2>1, <3>2 DEF end
      <3>4. QED
        BY <1>1, <3>3
    <2>4. CASE later # {}
      <3>1. PICK m \in later : \A n \in later : m =< n
        BY <2>4, Least
      <3>2. PICK x \in C : x.start = m /\ t < x.start /\ x.start \in Nat
        BY <3>1
      <3>3. \A y \in before(x.start) : y \in C /\ y.start =< t
        BY <1>3, <2>1, <3>1, <3>2
      <3>4. behind(before(x.start)) =< t
        BY <1>2, <1>3, <2>1, <2>2, <3>3
      <3>5. t \in Minutes(gap(x)) /\ x \in inner
        BY <1>2, <1>3, <1>4, <2>1, <3>2, <3>4
      <3>6. QED
        BY <1>1, <3>5
    <2>5. QED
      BY <2>3, <2>4
  <1>9. QED
    BY <1>7, <1>8

\* An event of the timeline belongs to one of the day's sessions and starts within it.
Attendance(s) == Event("ATTENDANCE", s, AttendanceOf(s))
PartsOf(s) == {Event("BREAK", s, BreakOf(b)) : b \in BreaksOf(s)}
                 \cup {Event("TASK", s, SegmentOf(e)) : e \in EntriesOf(s)}

LEMMA EventsLie ==
  ASSUME DayIInv, NEW s \in Sessions, session[s].status # "ABSENT"
  PROVE  /\ Attendance(s).type = "ATTENDANCE" /\ Attendance(s).session = s
         /\ Attendance(s).start = session[s].clockInAt
         /\ EndOr(Attendance(s), now) = EndOr(AttendanceOf(s), now)
         /\ Minutes(Attendance(s)) = Minutes(AttendanceOf(s))
         /\ \A x \in PartsOf(s) :
               /\ x.type # "ATTENDANCE" /\ x.session = s /\ Inside(x, s)
         /\ UNION {Minutes(x) : x \in PartsOf(s)} = OnBreak(s) \cup OnTask(s)
  <1>1. \A type, i : /\ Event(type, s, i).type = type /\ Event(type, s, i).session = s
                     /\ Event(type, s, i).start = i.start /\ Event(type, s, i).end = i.end
    BY DEF Event
  <1>2. \A type, i : /\ EndOr(Event(type, s, i), now) = EndOr(i, now)
                     /\ Minutes(Event(type, s, i)) = Minutes(i)
    BY <1>1 DEF EndOr, Minutes
  <1>3. AttendanceOf(s).start = session[s].clockInAt
    BY DEF AttendanceOf
  <1>4. \A b \in BreaksOf(s) : Inside(Event("BREAK", s, BreakOf(b)), s)
    <2> SUFFICES ASSUME NEW b \in BreaksOf(s) PROVE Inside(Event("BREAK", s, BreakOf(b)), s)
      OBVIOUS
    <2>1. Inside(BreakOf(b), s)
      BY BreakInside
    <2>2. QED
      BY <1>1, <1>2, <2>1 DEF Inside
  <1>5. \A e \in EntriesOf(s) : Inside(Event("TASK", s, SegmentOf(e)), s)
    <2> SUFFICES ASSUME NEW e \in EntriesOf(s) PROVE Inside(Event("TASK", s, SegmentOf(e)), s)
      OBVIOUS
    <2>1. Inside(SegmentOf(e), s)
      BY SegmentInside
    <2>2. QED
      BY <1>1, <1>2, <2>1 DEF Inside
  <1>6. \A x \in PartsOf(s) :
           \/ \E b \in BreaksOf(s) : x = Event("BREAK", s, BreakOf(b))
           \/ \E e \in EntriesOf(s) : x = Event("TASK", s, SegmentOf(e))
    BY DEF PartsOf
  <1>7. /\ \A b \in BreaksOf(s) : Event("BREAK", s, BreakOf(b)) \in PartsOf(s)
        /\ \A e \in EntriesOf(s) : Event("TASK", s, SegmentOf(e)) \in PartsOf(s)
    BY DEF PartsOf
  <1>8. \A x \in PartsOf(s) : /\ x.type # "ATTENDANCE" /\ x.session = s /\ Inside(x, s)
    BY <1>1, <1>4, <1>5, <1>6
  <1>9. UNION {Minutes(x) : x \in PartsOf(s)} = OnBreak(s) \cup OnTask(s)
    <2>1. ASSUME NEW x \in PartsOf(s), NEW t \in Minutes(x) PROVE t \in OnBreak(s) \cup OnTask(s)
      BY <1>2, <1>6, <2>1 DEF OnBreak, OnTask
    <2>2. ASSUME NEW b \in BreaksOf(s), NEW t \in Minutes(BreakOf(b))
          PROVE  \E x \in PartsOf(s) : t \in Minutes(x)
      BY <1>2, <1>7, <2>2
    <2>3. ASSUME NEW e \in EntriesOf(s), NEW t \in Minutes(SegmentOf(e))
          PROVE  \E x \in PartsOf(s) : t \in Minutes(x)
      BY <1>2, <1>7, <2>3
    <2>4. QED
      BY <2>1, <2>2, <2>3 DEF OnBreak, OnTask
  <1>10. QED
    BY <1>1, <1>2, <1>3, <1>8, <1>9 DEF Attendance

\* Of two sessions of one user, the one that starts first is over when the other starts.
LEMMA EarlierIsOver ==
  ASSUME DayIInv, NEW s \in Sessions, NEW r \in Sessions,
         session[s].status # "ABSENT", session[r].status # "ABSENT",
         session[s].userId = session[r].userId,
         session[s].clockInAt < session[r].clockInAt
  PROVE  EndOr(AttendanceOf(s), now) =< session[r].clockInAt
  <1>1. /\ session[s].clockInAt \in Nat /\ session[r].clockInAt \in Nat /\ s # r
        /\ session[r].clockInAt =< EndOr(AttendanceOf(r), now)
        /\ EndOr(AttendanceOf(r), now) \in Nat
    BY Attended
  <1>2. SessionOver(s, session[r].clockInAt) \/ SessionOver(r, session[s].clockInAt)
    BY <1>1 DEF DayIInv, SessionsApart
  <1>3. ~SessionOver(r, session[s].clockInAt)
    <2>1. session[r].status = "COMPLETED" => EndOr(AttendanceOf(r), now) = session[r].clockOutAt
      BY Attended
    <2>2. QED
      BY <1>1, <2>1 DEF SessionOver
  <1>4. QED
    BY <1>2, <1>3, Attended DEF SessionOver

\* What the page takes an attendance event to cover is what its session holds.
LEMMA CoversItsOwn ==
  ASSUME DayIInv, NEW u \in Users, NEW day,
         \A r, t \in SessionsOf(u, day) : r # t => session[r].clockInAt # session[t].clockInAt,
         NEW s \in SessionsOf(u, day)
  PROVE  coveredBy(timeline(u, day), Attendance(s)) = PartsOf(s)
  <1> DEFINE events == timeline(u, day)
             a == Attendance(s)
  <1>1. \A r \in SessionsOf(u, day) :
           /\ r \in Sessions /\ session[r].status # "ABSENT" /\ session[r].userId = u
    BY DEF SessionsOf, SessionsIn, Open
  <1>2. \A x \in events : \E r \in SessionsOf(u, day) : x = Attendance(r) \/ x \in PartsOf(r)
    BY DEF timeline, Attendance, PartsOf
  <1>3. \A r \in SessionsOf(u, day) : Attendance(r) \in events /\ PartsOf(r) \subseteq events
    BY DEF timeline, Attendance, PartsOf
  <1>4. \A r \in SessionsOf(u, day) :
           /\ session[r].clockInAt \in Nat
           /\ EndOr(AttendanceOf(r), now) \in Nat
           /\ session[r].clockInAt =< EndOr(AttendanceOf(r), now)
           /\ Attendance(r).type = "ATTENDANCE" /\ Attendance(r).session = r
           /\ Attendance(r).start = session[r].clockInAt
           /\ \A x \in PartsOf(r) :
                 /\ x.type # "ATTENDANCE" /\ x.session = r
                 /\ x.start \in Nat /\ session[r].clockInAt =< x.start
                 /\ x.start =< EndOr(AttendanceOf(r), now)
    <2> SUFFICES ASSUME NEW r \in SessionsOf(u, day)
                 PROVE  /\ session[r].clockInAt \in Nat
                        /\ EndOr(AttendanceOf(r), now) \in Nat
                        /\ session[r].clockInAt =< EndOr(AttendanceOf(r), now)
                        /\ Attendance(r).type = "ATTENDANCE" /\ Attendance(r).session = r
                        /\ Attendance(r).start = session[r].clockInAt
                        /\ \A x \in PartsOf(r) :
                              /\ x.type # "ATTENDANCE" /\ x.session = r
                              /\ x.start \in Nat /\ session[r].clockInAt =< x.start
                              /\ x.start =< EndOr(AttendanceOf(r), now)
      OBVIOUS
    <2>1. r \in Sessions /\ session[r].status # "ABSENT"
      BY <1>1
    <2>2. /\ session[r].clockInAt \in Nat /\ EndOr(AttendanceOf(r), now) \in Nat
          /\ session[r].clockInAt =< EndOr(AttendanceOf(r), now)
      BY <2>1, Attended
    <2>3. /\ Attendance(r).type = "ATTENDANCE" /\ Attendance(r).session = r
          /\ Attendance(r).start = session[r].clockInAt
          /\ \A x \in PartsOf(r) : x.type # "ATTENDANCE" /\ x.session = r /\ Inside(x, r)
      BY <2>1, EventsLie
    <2>4. \A x \in PartsOf(r) : /\ x.start \in Nat /\ session[r].clockInAt =< x.start
                                /\ x.start =< EndOr(AttendanceOf(r), now)
      BY <2>2, <2>3 DEF Inside
    <2>5. QED
      BY <2>2, <2>3, <2>4
  <1>5. \A r, t \in SessionsOf(u, day) :
           session[r].clockInAt < session[t].clockInAt
              => EndOr(AttendanceOf(r), now) =< session[t].clockInAt
    BY <1>1, EarlierIsOver
  <1> HIDE DEF events, a
  <1>6. ASSUME NEW x \in coveredBy(events, a) PROVE x \in PartsOf(s)
    <2>1. /\ x \in events /\ x.type # "ATTENDANCE" /\ Precedes(a, x)
          /\ \A c \in events : c.type = "ATTENDANCE" => ~(Precedes(a, c) /\ Precedes(c, x))
      BY <1>6 DEF coveredBy
    <2>2. PICK r \in SessionsOf(u, day) : x \in PartsOf(r)
      BY <1>2, <1>4, <2>1
    <2>3. CASE r = s
      BY <2>2, <2>3
    <2>4. CASE session[s].clockInAt < session[r].clockInAt
      <3>1. Precedes(a, Attendance(r))
        BY <1>4, <2>4 DEF Precedes, a
      <3>2. Precedes(Attendance(r), x)
        BY <1>4, <2>2 DEF Precedes
      <3>3. QED
        BY <1>3, <1>4, <2>1, <3>1, <3>2
    <2>5. CASE session[r].clockInAt < session[s].clockInAt /\ r # s
      <3>1. x.start =< session[s].clockInAt
        BY <1>4, <1>5, <2>2, <2>5
      <3>2. ~Precedes(a, x)
        BY <1>4, <2>2, <2>5, <3>1 DEF Precedes, a
      <3>3. QED
        BY <2>1, <3>2
    <2>6. QED
      BY <1>4, <2>3, <2>4, <2>5
  <1>7. ASSUME NEW x \in PartsOf(s) PROVE x \in coveredBy(events, a)
    <2>1. x \in events /\ x.type # "ATTENDANCE"
      BY <1>3, <1>4
    <2>2. Precedes(a, x)
      BY <1>4 DEF Precedes, a
    <2>3. ASSUME NEW c \in events, c.type = "ATTENDANCE", Precedes(a, c), Precedes(c, x)
          PROVE  FALSE
      <3>1. PICK r \in SessionsOf(u, day) : c = Attendance(r)
        BY <1>2, <1>4, <2>3
      <3>2. CASE r = s
        BY <1>4, <2>3, <3>1, <3>2 DEF Precedes, a
      <3>3. CASE r # s
        <4>1. session[s].clockInAt < session[r].clockInAt
          BY <1>4, <2>3, <3>1, <3>3 DEF Precedes, a
        <4>2. x.start =< session[r].clockInAt
          BY <1>4, <1>5, <4>1
        <4>3. QED
          BY <1>4, <2>3, <3>1, <3>3, <4>1, <4>2 DEF Precedes
      <3>4. QED
        BY <3>2, <3>3
    <2>4. QED
      BY <2>1, <2>2, <2>3 DEF coveredBy
  <1>8. QED
    BY <1>6, <1>7 DEF events, a

\* AC-007-005-03: for any number of sessions, breaks and segments of a day, the
\* gaps the page draws are the minutes that were attended and spent on neither.
THEOREM GapsAreIdle == Spec => []GapsAreIdleTime
  <1>1. ASSUME DayIInv, NEW u \in Users, NEW day,
               \A r, t \in SessionsOf(u, day) : r # t => session[r].clockInAt # session[t].clockInAt
        PROVE  UNION {Minutes(g) : g \in computeTimelineGaps(timeline(u, day))}
                  = UNION {Idle(s) : s \in SessionsOf(u, day)}
    <2> DEFINE events == timeline(u, day)
    <2>1. \A s \in SessionsOf(u, day) : s \in Sessions /\ session[s].status # "ABSENT"
      BY DEF SessionsOf, SessionsIn, Open
    <2>2. ASSUME NEW s \in SessionsOf(u, day)
          PROVE  UNION {Minutes(g) : g \in flushSession(events, Attendance(s))} = Idle(s)
      <3> DEFINE a == Attendance(s)
                 C == coveredBy(events, a)
      <3>1. s \in Sessions /\ session[s].status # "ABSENT"
        BY <2>1
      <3>2. C = PartsOf(s)
        BY <1>1, CoversItsOwn
      <3>3. /\ session[s].clockInAt \in Nat /\ EndOr(AttendanceOf(s), now) \in Nat
            /\ session[s].clockInAt =< EndOr(AttendanceOf(s), now) /\ now \in Nat
        BY <1>1, <3>1, Attended DEF DayIInv, IInv, TypeOK, RecordsTypeOK
      <3>4. /\ a.start = session[s].clockInAt
            /\ EndOr(a, now) = EndOr(AttendanceOf(s), now)
            /\ Minutes(a) = Minutes(AttendanceOf(s))
            /\ \A x \in PartsOf(s) : Inside(x, s)
            /\ UNION {Minutes(x) : x \in PartsOf(s)} = OnBreak(s) \cup OnTask(s)
        BY <1>1, <3>1, EventsLie
      <3> HIDE DEF a, C, events
      <3>5. \A x \in C : /\ x.start \in Nat /\ EndOr(x, now) \in Nat
                         /\ a.start =< x.start /\ x.start =< EndOr(x, now)
                         /\ EndOr(x, now) =< EndOr(a, now)
        BY <3>2, <3>4 DEF Inside
      <3>6. a.start \in Nat /\ EndOr(a, now) \in Nat /\ a.start =< EndOr(a, now)
        BY <3>3, <3>4
      <3>7. C = coveredBy(events, a)
        BY DEF C
      <3>8. UNION {Minutes(g) : g \in flushSession(events, a)}
               = Minutes(a) \ UNION {Minutes(x) : x \in C}
        BY <3>3, <3>5, <3>6, <3>7, FlushedIdle
      <3>9. QED
        BY <3>2, <3>4, <3>8 DEF Idle, Working, a
    <2>3. {x \in events : x.type = "ATTENDANCE"} = {Attendance(s) : s \in SessionsOf(u, day)}
      <3>1. \A s \in SessionsOf(u, day) :
               /\ Attendance(s).type = "ATTENDANCE"
               /\ \A x \in PartsOf(s) : x.type # "ATTENDANCE"
        BY <1>1, <2>1, EventsLie
      <3>2. \A x : x \in events <=>
               \E s \in SessionsOf(u, day) : x = Attendance(s) \/ x \in PartsOf(s)
        BY DEF timeline, Attendance, PartsOf
      <3> HIDE DEF events
      <3>3. QED
        BY <3>1, <3>2
    <2> HIDE DEF events
    <2>4. computeTimelineGaps(events)
             = UNION {flushSession(events, Attendance(s)) : s \in SessionsOf(u, day)}
      BY <2>3 DEF computeTimelineGaps
    <2>5. \A t : (\E g \in computeTimelineGaps(events) : t \in Minutes(g))
                    <=> \E s \in SessionsOf(u, day) : t \in Idle(s)
      BY <2>2, <2>4
    <2>6. QED
      BY <2>5 DEF events
  <1>2. DayIInv => GapsAreIdleTime
    BY <1>1 DEF GapsAreIdleTime
  <1>3. QED
    BY <1>2, DayConsistent, PTL
=============================================================================
