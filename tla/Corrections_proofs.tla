------------------------- MODULE Corrections_proofs -------------------------
(***************************************************************************)
(* What corrections beside working days cannot break, for any proposal and *)
(* any number of users and records.  A correction is free to leave a break *)
(* ACTIVE in a finished session, so the invariant of WorkDay is lost here; *)
(* what is left of it, Sound, is what the unique indexes and the requests  *)
(* that follow still rely on.                                              *)
(*                                                                         *)
(* Then CorrectionRequests, where a handler is a walk of database calls:   *)
(* served one at a time per user and never lost half way, a handler knows  *)
(* what it has read (SerialIInv), so every original is on record, a        *)
(* decision stands, and each step is one of Corrections or none.           *)
(***************************************************************************)
EXTENDS CorrectionRequests, TLAPS

\* An active break hangs from a session that is on break, or that a
\* correction has finished; never from one that may start another break.
BreaksHeld ==
    \A b \in Breaks : brk[b].status = "ACTIVE" =>
       /\ brk[b].attendanceSessionId \in Sessions
       /\ session[brk[b].attendanceSessionId].status \in {"ON_BREAK", "COMPLETED"}

\* A recorded segment has a start, and an end exactly when it is closed.
EntryStamps ==
    \A e \in Entries :
       /\ entry[e].status # "ABSENT" => entry[e].startAt \in Nat
       /\ entry[e].status = "RUNNING" => entry[e].endAt = NoStamp
       /\ entry[e].status = "CLOSED" => entry[e].endAt \in Nat

Sound == RecordsTypeOK /\ BreaksHeld /\ EntryStamps /\ OneOpenPerOwner

\* A request for a correction names a recorded row.
TargetsRecorded ==
    \A q \in Requests : request[q].status # "ABSENT" =>
       request[q].target \in Recorded

IInv == TypeOK /\ Sound /\ TargetsRecorded

\* No row disappears in a step.
RowsKept ==
    /\ \A s \in Sessions : session[s].status # "ABSENT" => session'[s].status # "ABSENT"
    /\ \A b \in Breaks : brk[b].status # "ABSENT" => brk'[b].status # "ABSENT"
    /\ \A e \in Entries : entry[e].status # "ABSENT" => entry'[e].status # "ABSENT"

----------------------------------------------------------------------------
(* A request of a working day keeps the tables sound and rewrites no       *)
(* finished row.                                                           *)

LEMMA DayUpdates ==
  ASSUME NEW ids, NEW t
  PROVE  /\ Day!ClosedEntries(ids, t) = ClosedEntries(ids, t)
         /\ Day!EndedBreaks(ids, t) = EndedBreaks(ids, t)
         /\ \A u : Day!RunningEntries(u) = RunningEntries(u)
         /\ \A s : Day!ActiveBreaks(s) = ActiveBreaks(s)
         /\ \A s : Day!ClockedOut(s, t) = ClockedOut(s, t)
  BY DEF Day!ClosedEntries, Day!EndedBreaks, Day!RunningEntries, Day!ActiveBreaks,
         Day!ClockedOut, ClosedEntries, EndedBreaks, RunningEntries, ActiveBreaks,
         ClockedOut

\* clockIn
LEMMA ClockInSound ==
  ASSUME Sound, NEW u \in Users, Day!ClockIn(u, now)
  PROVE  Sound' /\ RowsKept /\ HistoryUntouched
  <1> USE NoneAssumption
  <1>1. PICK s \in Sessions :
           /\ session[s].status = "ABSENT"
           /\ session' = [session EXCEPT ![s] = NewSession(u, now)]
           /\ \A r \in Sessions : session[r].userId = u => session[r].status \notin Open
           /\ UNCHANGED <<now, brk, entry>>
    BY DEF Day!ClockIn, Day!OpenSessions, Day!SessionsIn, Day!Open, Open,
           Day!NewSession, NewSession, Day!NoStamp, NoStamp
  <1>2. /\ NewSession(u, now) \in SessionRow
        /\ NewSession(u, now).status = "ACTIVE"
        /\ NewSession(u, now).userId = u
    BY DEF NewSession, SessionRow, Stamp, Sound, RecordsTypeOK
  <1>3. RecordsTypeOK'
    BY <1>1, <1>2 DEF Sound, RecordsTypeOK
  <1>4. BreaksHeld' /\ EntryStamps'
    BY <1>1, <1>2 DEF Sound, RecordsTypeOK, BreaksHeld, EntryStamps
  <1>5. OneOpenPerOwner'
    BY <1>1, <1>2 DEF Sound, RecordsTypeOK, OneOpenPerOwner, Open
  <1>6. RowsKept /\ HistoryUntouched
    BY <1>1, <1>2 DEF Sound, RecordsTypeOK, RowsKept, HistoryUntouched
  <1>7. QED
    BY <1>3, <1>4, <1>5, <1>6 DEF Sound

\* What closing the running segments of u does.
LEMMA SegmentsClosed ==
  ASSUME Sound, NEW u \in Users
  PROVE  LET new == ClosedEntries(RunningEntries(u), now)
         IN  /\ new \in [Entries -> EntryRow]
             /\ \A e \in Entries :
                   /\ new[e].userId = entry[e].userId
                   /\ new[e].startAt = entry[e].startAt
                   /\ \/ /\ entry[e].userId = u
                         /\ entry[e].status = "RUNNING"
                         /\ new[e].endAt = now
                         /\ new[e].status = "CLOSED"
                      \/ /\ ~(entry[e].userId = u /\ entry[e].status = "RUNNING")
                         /\ new[e] = entry[e]
  <1>1. RecordsTypeOK /\ now \in Nat
    BY DEF Sound, RecordsTypeOK
  <1>2. QED
    BY <1>1, ZenonT(60) DEF ClosedEntries, RunningEntries, RecordsTypeOK, EntryRow, Stamp

\* What completing the active breaks of session s does.
LEMMA BreaksEnded ==
  ASSUME Sound, NEW s \in Sessions
  PROVE  LET new == EndedBreaks(ActiveBreaks(s), now)
         IN  /\ new \in [Breaks -> BreakRow]
             /\ \A b \in Breaks :
                   /\ new[b].attendanceSessionId = brk[b].attendanceSessionId
                   /\ \/ /\ brk[b].attendanceSessionId = s
                         /\ brk[b].status = "ACTIVE"
                         /\ new[b].status = "COMPLETED"
                      \/ /\ ~(brk[b].attendanceSessionId = s /\ brk[b].status = "ACTIVE")
                         /\ new[b] = brk[b]
  <1>1. RecordsTypeOK /\ now \in Nat
    BY DEF Sound, RecordsTypeOK
  <1>2. QED
    BY <1>1, ZenonT(60) DEF EndedBreaks, ActiveBreaks, RecordsTypeOK, BreakRow, Stamp

\* clockOut
LEMMA ClockOutSound ==
  ASSUME Sound, NEW u \in Users, Day!ClockOut(u, now)
  PROVE  Sound' /\ RowsKept /\ HistoryUntouched
  <1>1. PICK s \in Sessions :
           /\ session[s].userId = u
           /\ session[s].status \in Open
           /\ entry' = ClosedEntries(RunningEntries(u), now)
           /\ brk' = EndedBreaks(ActiveBreaks(s), now)
           /\ session' = ClockedOut(s, now)
           /\ UNCHANGED now
    BY DayUpdates DEF Day!ClockOut, Day!OpenSessions, Day!SessionsIn, Day!Open, Open
  <1>2. /\ session' \in [Sessions -> SessionRow]
        /\ session'[s].status = "COMPLETED"
        /\ \A r \in Sessions : r # s => session'[r] = session[r]
    <2>1. session[s] \in SessionRow /\ now \in Stamp
      BY DEF Sound, RecordsTypeOK, Stamp
    <2>2. [session[s] EXCEPT !.clockOutAt = now, !.status = "COMPLETED"] \in SessionRow
      BY <2>1 DEF SessionRow
    <2>3. session' = [session EXCEPT ![s] =
                         [session[s] EXCEPT !.clockOutAt = now, !.status = "COMPLETED"]]
      BY <1>1 DEF ClockedOut, Sound, RecordsTypeOK
    <2>4. session'[s].status = "COMPLETED"
      BY <2>1, <2>3 DEF SessionRow, Sound, RecordsTypeOK
    <2>5. QED
      BY <2>2, <2>3, <2>4 DEF Sound, RecordsTypeOK
  <1>3. RecordsTypeOK'
    BY <1>1, <1>2, SegmentsClosed, BreaksEnded DEF Sound, RecordsTypeOK
  <1>4. EntryStamps'
    BY <1>1, SegmentsClosed DEF Sound, RecordsTypeOK, EntryStamps
  <1>5. BreaksHeld'
    BY <1>1, <1>2, BreaksEnded DEF Sound, BreaksHeld
  <1>6. OneOpenPerOwner'
    <2>1. /\ \A e \in Entries : /\ entry'[e].userId = entry[e].userId
                                /\ entry'[e].status = "RUNNING" =>
                                      entry[e].status = "RUNNING"
          /\ \A b \in Breaks :
                /\ brk'[b].attendanceSessionId = brk[b].attendanceSessionId
                /\ brk'[b].status = "ACTIVE" => brk[b].status = "ACTIVE"
      BY <1>1, SegmentsClosed, BreaksEnded
    <2>2. QED
      BY <1>2, <2>1 DEF Sound, OneOpenPerOwner, Open
  <1>7. RowsKept /\ HistoryUntouched
    BY <1>1, <1>2, SegmentsClosed, BreaksEnded DEF RowsKept, HistoryUntouched, Open
  <1>8. QED
    BY <1>3, <1>4, <1>5, <1>6, <1>7 DEF Sound

\* startBreak: its session is ACTIVE, so no break hangs from it that is active.
LEMMA StartBreakSound ==
  ASSUME Sound, NEW u \in Users, Day!StartBreak(u, now)
  PROVE  Sound' /\ RowsKept /\ HistoryUntouched
  <1> USE NoneAssumption
  <1>1. PICK s \in Sessions, b \in Breaks :
           /\ session[s].status = "ACTIVE"
           /\ brk[b].status = "ABSENT"
           /\ brk' = [brk EXCEPT ![b] = NewBreak(s, now)]
           /\ session' = [session EXCEPT ![s].status = "ON_BREAK"]
           /\ entry' = ClosedEntries(RunningEntries(u), now)
           /\ UNCHANGED now
    BY DEF Day!StartBreak, Day!SessionsIn, Day!NewBreak, NewBreak, Day!NoStamp,
       NoStamp, Day!ClosedEntries, ClosedEntries, Day!RunningEntries, RunningEntries
  <1>2. /\ NewBreak(s, now) \in BreakRow
        /\ NewBreak(s, now).status = "ACTIVE"
        /\ NewBreak(s, now).attendanceSessionId = s
    BY DEF NewBreak, BreakRow, Stamp, Sound, RecordsTypeOK
  <1>3. /\ session' \in [Sessions -> SessionRow]
        /\ session'[s].status = "ON_BREAK"
        /\ session'[s].userId = session[s].userId
        /\ \A r \in Sessions : r # s => session'[r] = session[r]
    BY <1>1 DEF SessionRow, Sound, RecordsTypeOK
  <1>4. /\ brk' \in [Breaks -> BreakRow]
        /\ brk'[b] = NewBreak(s, now)
        /\ \A c \in Breaks : c # b => brk'[c] = brk[c]
    BY <1>1, <1>2 DEF Sound, RecordsTypeOK
  <1>5. RecordsTypeOK'
    BY <1>1, <1>3, <1>4, SegmentsClosed DEF Sound, RecordsTypeOK
  <1>6. EntryStamps'
    BY <1>1, SegmentsClosed DEF Sound, RecordsTypeOK, EntryStamps
  <1>7. BreaksHeld'
    BY <1>1, <1>2, <1>3, <1>4 DEF Sound, BreaksHeld
  <1>8. OneOpenPerOwner'
    BY <1>1, <1>2, <1>3, <1>4, SegmentsClosed DEF Sound, OneOpenPerOwner, BreaksHeld, Open
  <1>9. RowsKept /\ HistoryUntouched
    BY <1>1, <1>2, <1>3, <1>4, SegmentsClosed DEF RowsKept, HistoryUntouched
  <1>10. QED
    BY <1>5, <1>6, <1>7, <1>8, <1>9 DEF Sound

\* endBreak: it ends every active break of the session it makes ACTIVE.
LEMMA EndBreakSound ==
  ASSUME Sound, NEW u \in Users, Day!EndBreak(u, now)
  PROVE  Sound' /\ RowsKept /\ HistoryUntouched
  <1>1. PICK s \in Sessions :
           /\ session[s].status = "ON_BREAK"
           /\ brk' = EndedBreaks(ActiveBreaks(s), now)
           /\ session' = [session EXCEPT ![s].status = "ACTIVE"]
           /\ UNCHANGED <<now, entry>>
    BY DEF Day!EndBreak, Day!SessionsIn, Day!EndedBreaks, EndedBreaks,
       Day!ActiveBreaks, ActiveBreaks
  <1>2. /\ session' \in [Sessions -> SessionRow]
        /\ session'[s].status = "ACTIVE"
        /\ session'[s].userId = session[s].userId
        /\ \A r \in Sessions : r # s => session'[r] = session[r]
    BY <1>1 DEF SessionRow, Sound, RecordsTypeOK
  <1>3. RecordsTypeOK' /\ EntryStamps'
    BY <1>1, <1>2, BreaksEnded DEF Sound, RecordsTypeOK, EntryStamps
  <1>4. BreaksHeld'
    BY <1>1, <1>2, BreaksEnded DEF Sound, BreaksHeld
  <1>5. OneOpenPerOwner'
    BY <1>1, <1>2, BreaksEnded DEF Sound, OneOpenPerOwner, Open
  <1>6. RowsKept /\ HistoryUntouched
    BY <1>1, <1>2, BreaksEnded DEF RowsKept, HistoryUntouched
  <1>7. QED
    BY <1>3, <1>4, <1>5, <1>6 DEF Sound

\* pause and stop
LEMMA StopTimerSound ==
  ASSUME Sound, NEW u \in Users, Day!StopTimer(u, now)
  PROVE  Sound' /\ RowsKept /\ HistoryUntouched
  <1>1. /\ entry' = ClosedEntries(RunningEntries(u), now)
        /\ UNCHANGED <<now, session, brk>>
    BY DayUpdates DEF Day!StopTimer
  <1>2. RecordsTypeOK' /\ EntryStamps'
    BY <1>1, SegmentsClosed DEF Sound, RecordsTypeOK, EntryStamps
  <1>3. BreaksHeld'
    BY <1>1 DEF Sound, BreaksHeld
  <1>4. OneOpenPerOwner'
    BY <1>1, SegmentsClosed DEF Sound, OneOpenPerOwner
  <1>5. RowsKept /\ HistoryUntouched
    BY <1>1, SegmentsClosed DEF RowsKept, HistoryUntouched
  <1>6. QED
    BY <1>2, <1>3, <1>4, <1>5 DEF Sound

\* The row of a segment that start, resume and switchTask insert.
LEMMA EntryInserted ==
  ASSUME Sound, NEW u \in Users, NEW k \in Tasks, NEW s \in Sessions
  PROVE  LET row == NewEntry(u, k, s, now)
         IN  /\ row \in EntryRow
             /\ row.userId = u
             /\ row.status = "RUNNING"
             /\ row.startAt \in Nat
             /\ row.endAt = NoStamp
  BY DEF NewEntry, EntryRow, Stamp, Sound, RecordsTypeOK

\* start and resume
LEMMA StartTimerSound ==
  ASSUME Sound, NEW u \in Users, NEW k \in Tasks, Day!StartTimer(u, k, now)
  PROVE  Sound' /\ RowsKept /\ HistoryUntouched
  <1>1. PICK s \in Sessions, e \in Entries :
           /\ \A f \in Entries : entry[f].userId = u => entry[f].status # "RUNNING"
           /\ entry[e].status = "ABSENT"
           /\ entry' = [entry EXCEPT ![e] = NewEntry(u, k, s, now)]
           /\ UNCHANGED <<now, session, brk>>
    BY DEF Day!StartTimer, Day!SessionsIn, Day!RunningEntries, Day!NewEntry,
       NewEntry, Day!NoStamp, NoStamp
  <1>2. /\ entry' \in [Entries -> EntryRow]
        /\ entry'[e] = NewEntry(u, k, s, now)
        /\ \A f \in Entries : f # e => entry'[f] = entry[f]
    BY <1>1, EntryInserted DEF Sound, RecordsTypeOK
  <1>3. RecordsTypeOK' /\ EntryStamps'
    BY <1>1, <1>2, EntryInserted DEF Sound, RecordsTypeOK, EntryStamps
  <1>4. BreaksHeld'
    BY <1>1 DEF Sound, BreaksHeld
  <1>5. OneOpenPerOwner'
    BY <1>1, <1>2, EntryInserted DEF Sound, OneOpenPerOwner
  <1>6. RowsKept /\ HistoryUntouched
    BY <1>1, <1>2, EntryInserted DEF RowsKept, HistoryUntouched
  <1>7. QED
    BY <1>3, <1>4, <1>5, <1>6 DEF Sound

\* switchTask
LEMMA SwitchTaskSound ==
  ASSUME Sound, NEW u \in Users, NEW k \in Tasks, Day!SwitchTask(u, k, now)
  PROVE  Sound' /\ RowsKept /\ HistoryUntouched
  <1> DEFINE closed == ClosedEntries(RunningEntries(u), now)
  <1>1. PICK s \in Sessions, e \in Entries :
           /\ entry[e].status = "ABSENT"
           /\ entry' = [closed EXCEPT ![e] = NewEntry(u, k, s, now)]
           /\ UNCHANGED <<now, session, brk>>
    BY DEF Day!SwitchTask, Day!SessionsIn, Day!NewEntry, NewEntry, Day!NoStamp,
       NoStamp, Day!ClosedEntries, ClosedEntries, Day!RunningEntries, RunningEntries
  <1>2. /\ closed \in [Entries -> EntryRow]
        /\ \A f \in Entries :
              /\ closed[f].userId = entry[f].userId
              /\ closed[f].startAt = entry[f].startAt
              /\ \/ /\ entry[f].userId = u
                    /\ entry[f].status = "RUNNING"
                    /\ closed[f].endAt = now
                    /\ closed[f].status = "CLOSED"
                 \/ /\ ~(entry[f].userId = u /\ entry[f].status = "RUNNING")
                    /\ closed[f] = entry[f]
    BY SegmentsClosed
  <1> HIDE DEF closed
  <1>3. /\ entry' \in [Entries -> EntryRow]
        /\ entry'[e] = NewEntry(u, k, s, now)
        /\ \A f \in Entries : f # e => entry'[f] = closed[f]
    BY <1>1, <1>2, EntryInserted
  <1>4. RecordsTypeOK' /\ EntryStamps'
    BY <1>1, <1>2, <1>3, EntryInserted DEF Sound, RecordsTypeOK, EntryStamps
  <1>5. BreaksHeld'
    BY <1>1 DEF Sound, BreaksHeld
  <1>6. OneOpenPerOwner'
    BY <1>1, <1>2, <1>3, EntryInserted DEF Sound, OneOpenPerOwner
  <1>7. RowsKept /\ HistoryUntouched
    BY <1>1, <1>2, <1>3, EntryInserted DEF RowsKept, HistoryUntouched
  <1>8. QED
    BY <1>4, <1>5, <1>6, <1>7 DEF Sound

\* Any request of a working day.
LEMMA WorkSound ==
  ASSUME Sound, NEW u \in Users, Work(u)
  PROVE  Sound' /\ RowsKept /\ HistoryUntouched
  <1>1. Day!ServeAt(u, now)
    BY DEF Work
  <1>2. CASE Day!ClockIn(u, now)
    BY <1>2, ClockInSound
  <1>3. CASE Day!ClockOut(u, now)
    BY <1>3, ClockOutSound
  <1>4. CASE Day!StartBreak(u, now)
    BY <1>4, StartBreakSound
  <1>5. CASE Day!EndBreak(u, now)
    BY <1>5, EndBreakSound
  <1>6. CASE Day!StopTimer(u, now)
    BY <1>6, StopTimerSound
  <1>7. ASSUME NEW k \in Tasks, Day!StartTimer(u, k, now)
        PROVE  Sound' /\ RowsKept /\ HistoryUntouched
    BY <1>7, StartTimerSound
  <1>8. ASSUME NEW k \in Tasks, Day!SwitchTask(u, k, now)
        PROVE  Sound' /\ RowsKept /\ HistoryUntouched
    BY <1>8, SwitchTaskSound
  <1>9. QED
    BY <1>1, <1>2, <1>3, <1>4, <1>5, <1>6, <1>7, <1>8 DEF Day!ServeAt

----------------------------------------------------------------------------
(* A correction writes its target and nothing else.                        *)

\* Targets have one table each, so their interval and status are that row's.
LEMMA Views ==
  /\ \A s \in Sessions :
        /\ IntervalOf(s) = [start |-> session[s].clockInAt, end |-> session[s].clockOutAt]
        /\ StatusOf(s) = session[s].status
  /\ \A b \in Breaks :
        /\ IntervalOf(b) = [start |-> brk[b].startAt, end |-> brk[b].endAt]
        /\ StatusOf(b) = brk[b].status
  /\ \A e \in Entries :
        /\ IntervalOf(e) = [start |-> entry[e].startAt, end |-> entry[e].endAt]
        /\ StatusOf(e) = entry[e].status
  BY TargetsApart DEF IntervalOf, StatusOf

LEMMA ViewsNext ==
  /\ \A s \in Sessions :
        /\ IntervalOf(s)' = [start |-> session'[s].clockInAt, end |-> session'[s].clockOutAt]
        /\ StatusOf(s)' = session'[s].status
  /\ \A b \in Breaks :
        /\ IntervalOf(b)' = [start |-> brk'[b].startAt, end |-> brk'[b].endAt]
        /\ StatusOf(b)' = brk'[b].status
  /\ \A e \in Entries :
        /\ IntervalOf(e)' = [start |-> entry'[e].startAt, end |-> entry'[e].endAt]
        /\ StatusOf(e)' = entry'[e].status
  BY TargetsApart DEF IntervalOf, StatusOf

LEMMA IntervalType ==
  ASSUME RecordsTypeOK, NEW x \in Targets
  PROVE  IntervalOf(x) \in Interval
  BY Views DEF Targets, Interval, RecordsTypeOK, SessionRow, BreakRow, EntryRow

LEMMA PatchedType ==
  ASSUME NEW i \in Interval, NEW p \in Interval
  PROVE  /\ Patched(i, p) \in Interval
         /\ Patched(i, Patched(i, p)) = Patched(i, p)
  BY DEF Patched, Or, Interval

\* A step keeps the recorded targets recorded if it keeps their rows.
LEMMA RecordedKept ==
  ASSUME RowsKept
  PROVE  \A x \in Recorded : x \in Recorded'
  BY Views, ViewsNext DEF RowsKept, Recorded, Targets

\* applyCorrection: the other rows stay as they are; the target keeps its
\* owner, and a proposed end finishes it.
LEMMA AppliedRows ==
  ASSUME Sound, NEW x \in Targets, NEW p \in Interval, ApplyCorrection(x, p)
  PROVE  /\ session' \in [Sessions -> SessionRow]
         /\ brk' \in [Breaks -> BreakRow]
         /\ entry' \in [Entries -> EntryRow]
         /\ \A s \in Sessions :
               \/ session'[s] = session[s]
               \/ /\ s = x
                  /\ session'[s].userId = session[s].userId
                  /\ session'[s].status \in {session[s].status, "COMPLETED"}
         /\ \A b \in Breaks :
               \/ brk'[b] = brk[b]
               \/ /\ b = x
                  /\ brk'[b].attendanceSessionId = brk[b].attendanceSessionId
                  /\ brk'[b].status \in {brk[b].status, "COMPLETED"}
         /\ \A e \in Entries :
               \/ e # x /\ entry'[e] = entry[e]
               \/ /\ e = x
                  /\ entry'[e].userId = entry[e].userId
                  /\ entry'[e].startAt = Or(p.start, entry[e].startAt)
                  /\ entry'[e].endAt = Or(p.end, entry[e].endAt)
                  /\ entry'[e].status =
                        IF p.end = NoStamp THEN entry[e].status ELSE "CLOSED"
  <1> p.start \in Stamp /\ p.end \in Stamp
    BY DEF Interval
  <1>1. session' \in [Sessions -> SessionRow]
    BY ZenonT(60) DEF ApplyCorrection, Sound, RecordsTypeOK, SessionRow, Or
  <1>2. brk' \in [Breaks -> BreakRow]
    BY ZenonT(60) DEF ApplyCorrection, Sound, RecordsTypeOK, BreakRow, Or
  <1>3. entry' \in [Entries -> EntryRow]
    BY ZenonT(60) DEF ApplyCorrection, Sound, RecordsTypeOK, EntryRow, Or
  <1>4. \A s \in Sessions :
           \/ session'[s] = session[s]
           \/ /\ s = x
              /\ session'[s].userId = session[s].userId
              /\ session'[s].status \in {session[s].status, "COMPLETED"}
    BY DEF ApplyCorrection, Sound, RecordsTypeOK, SessionRow
  <1>5. \A b \in Breaks :
           \/ brk'[b] = brk[b]
           \/ /\ b = x
              /\ brk'[b].attendanceSessionId = brk[b].attendanceSessionId
              /\ brk'[b].status \in {brk[b].status, "COMPLETED"}
    BY DEF ApplyCorrection, Sound, RecordsTypeOK, BreakRow
  <1>6. \A e \in Entries :
           \/ e # x /\ entry'[e] = entry[e]
           \/ /\ e = x
              /\ entry'[e].userId = entry[e].userId
              /\ entry'[e].startAt = Or(p.start, entry[e].startAt)
              /\ entry'[e].endAt = Or(p.end, entry[e].endAt)
              /\ entry'[e].status =
                    IF p.end = NoStamp THEN entry[e].status ELSE "CLOSED"
    BY DEF ApplyCorrection, Sound, RecordsTypeOK, EntryRow
  <1>7. QED
    BY <1>1, <1>2, <1>3, <1>4, <1>5, <1>6

LEMMA AppliedSound ==
  ASSUME Sound, NEW x \in Recorded, NEW p \in Interval, ApplyCorrection(x, p),
         now' = now
  PROVE  Sound' /\ RowsKept
  <1>x. x \in Targets
    BY DEF Recorded
  <1>1. RecordsTypeOK'
    BY <1>x, AppliedRows DEF Sound, RecordsTypeOK
  <1>2. RowsKept
    <2>1. \A e \in Entries : entry[e].status # "ABSENT" => entry'[e].status # "ABSENT"
      BY <1>x, AppliedRows
    <2>2. QED
      BY <1>x, <2>1, AppliedRows DEF RowsKept
  <1>3. BreaksHeld'
    BY <1>x, AppliedRows DEF Sound, BreaksHeld
  <1>4. EntryStamps'
    <2> SUFFICES ASSUME NEW e \in Entries
                 PROVE  /\ entry'[e].status # "ABSENT" => entry'[e].startAt \in Nat
                        /\ entry'[e].status = "RUNNING" => entry'[e].endAt = NoStamp
                        /\ entry'[e].status = "CLOSED" => entry'[e].endAt \in Nat
      BY DEF EntryStamps
    <2>1. CASE e # x
      BY <1>x, <2>1, AppliedRows DEF Sound, EntryStamps
    <2>2. CASE e = x
      <3>1. entry[e].status # "ABSENT"
        BY <2>2, Views DEF Recorded
      <3>2. /\ entry'[e].startAt = Or(p.start, entry[e].startAt)
            /\ entry'[e].endAt = Or(p.end, entry[e].endAt)
            /\ entry'[e].status = IF p.end = NoStamp THEN entry[e].status ELSE "CLOSED"
        BY <1>x, <2>2, AppliedRows
      <3>3. /\ p.start \in Stamp /\ p.end \in Stamp
            /\ entry[e].startAt \in Nat
            /\ entry[e].status = "RUNNING" => entry[e].endAt = NoStamp
            /\ entry[e].status = "CLOSED" => entry[e].endAt \in Nat
        BY <3>1 DEF Interval, Sound, EntryStamps
      <3>4. QED
        BY <3>2, <3>3 DEF Or, Stamp, NoStamp
    <2>3. QED
      BY <2>1, <2>2
  <1>5. OneOpenPerOwner'
    <2>1. /\ \A s \in Sessions : /\ session'[s].userId = session[s].userId
                                 /\ session'[s].status \in Open => session[s].status \in Open
          /\ \A b \in Breaks :
                /\ brk'[b].attendanceSessionId = brk[b].attendanceSessionId
                /\ brk'[b].status = "ACTIVE" => brk[b].status = "ACTIVE"
          /\ \A e \in Entries : /\ entry'[e].userId = entry[e].userId
                                /\ entry'[e].status = "RUNNING" => entry[e].status = "RUNNING"
      BY <1>x, AppliedRows DEF Open
    <2>2. QED
      BY <2>1 DEF Sound, OneOpenPerOwner
  <1>6. QED
    BY <1>1, <1>2, <1>3, <1>4, <1>5 DEF Sound

\* The intervals of the targets after a correction.
LEMMA AppliedIntervals ==
  ASSUME RecordsTypeOK, NEW x \in Targets, NEW p \in Interval, ApplyCorrection(x, p)
  PROVE  /\ IntervalOf(x)' = Patched(IntervalOf(x), p)
         /\ \A y \in Targets : y # x => IntervalOf(y)' = IntervalOf(y)
  <1>1. ASSUME NEW s \in Sessions
        PROVE  /\ s = x => IntervalOf(s)' = Patched(IntervalOf(s), p)
               /\ s # x => IntervalOf(s)' = IntervalOf(s)
    <2>1. /\ s = x => /\ session'[s].clockInAt = Or(p.start, session[s].clockInAt)
                       /\ session'[s].clockOutAt = Or(p.end, session[s].clockOutAt)
          /\ s # x => session'[s] = session[s]
      BY DEF ApplyCorrection, RecordsTypeOK, SessionRow
    <2>2. /\ IntervalOf(s) = [start |-> session[s].clockInAt, end |-> session[s].clockOutAt]
          /\ IntervalOf(s)' = [start |-> session'[s].clockInAt, end |-> session'[s].clockOutAt]
      BY Views, ViewsNext
    <2>3. QED
      BY <2>1, <2>2 DEF Patched
  <1>2. ASSUME NEW b \in Breaks
        PROVE  /\ b = x => IntervalOf(b)' = Patched(IntervalOf(b), p)
               /\ b # x => IntervalOf(b)' = IntervalOf(b)
    <2>1. /\ b = x => /\ brk'[b].startAt = Or(p.start, brk[b].startAt)
                       /\ brk'[b].endAt = Or(p.end, brk[b].endAt)
          /\ b # x => brk'[b] = brk[b]
      BY DEF ApplyCorrection, RecordsTypeOK, BreakRow
    <2>2. /\ IntervalOf(b) = [start |-> brk[b].startAt, end |-> brk[b].endAt]
          /\ IntervalOf(b)' = [start |-> brk'[b].startAt, end |-> brk'[b].endAt]
      BY Views, ViewsNext
    <2>3. QED
      BY <2>1, <2>2 DEF Patched
  <1>3. ASSUME NEW e \in Entries
        PROVE  /\ e = x => IntervalOf(e)' = Patched(IntervalOf(e), p)
               /\ e # x => IntervalOf(e)' = IntervalOf(e)
    <2>1. /\ e = x => /\ entry'[e].startAt = Or(p.start, entry[e].startAt)
                       /\ entry'[e].endAt = Or(p.end, entry[e].endAt)
          /\ e # x => entry'[e] = entry[e]
      BY DEF ApplyCorrection, RecordsTypeOK, EntryRow
    <2>2. /\ IntervalOf(e) = [start |-> entry[e].startAt, end |-> entry[e].endAt]
          /\ IntervalOf(e)' = [start |-> entry'[e].startAt, end |-> entry'[e].endAt]
      BY Views, ViewsNext
    <2>3. QED
      BY <2>1, <2>2 DEF Patched
  <1>4. QED
    BY <1>1, <1>2, <1>3 DEF Targets

----------------------------------------------------------------------------
(* The invariant.                                                          *)

LEMMA InitIInv == Init => IInv
  <1> SUFFICES ASSUME Init PROVE IInv
    OBVIOUS
  <1> USE DEF Init, RecordsInit, NoSession, NoBreak, NoEntry
  <1>1. RecordsTypeOK
    BY DEF RecordsTypeOK, SessionRow, BreakRow, EntryRow, Stamp, NoStamp
  <1>2. TypeOK
    BY <1>1 DEF TypeOK, NoRequest, RequestRow, Unset, Interval, Stamp, NoStamp
  <1>3. BreaksHeld /\ EntryStamps /\ OneOpenPerOwner
    BY DEF BreaksHeld, EntryStamps, OneOpenPerOwner, Open
  <1>4. TargetsRecorded
    BY DEF TargetsRecorded, NoRequest
  <1>5. QED
    BY <1>1, <1>2, <1>3, <1>4 DEF IInv, Sound

LEMMA RequestCorrectionIInv ==
  ASSUME IInv, NEW u \in Users, NEW q \in Requests, NEW x \in Recorded,
         NEW p \in Proposals, RequestCorrection(u, q, x, p)
  PROVE  IInv' /\ UNCHANGED tables
  <1>1. UNCHANGED <<now, session, brk, entry>>
    BY DEF RequestCorrection
  <1>2. x \in Targets /\ p \in Interval /\ Unset \in Interval
    BY CorrectionAssumption DEF Recorded, Unset, Interval, Stamp
  <1>3. TypeOK'
    <2>1. request' \in [Requests -> RequestRow]
      BY <1>2 DEF RequestCorrection, IInv, TypeOK, RequestRow
    <2>2. audit' \subseteq AuditRow
      BY <1>2 DEF RequestCorrection, AuditRecord, IInv, TypeOK, AuditRow
    <2>3. QED
      BY <1>1, <2>1, <2>2 DEF IInv, TypeOK, RecordsTypeOK
  <1>4. Sound'
    BY <1>1 DEF IInv, Sound, RecordsTypeOK, BreaksHeld, EntryStamps, OneOpenPerOwner
  <1>5. Recorded' = Recorded
    BY <1>1 DEF Recorded, StatusOf
  <1>6. TargetsRecorded'
    BY <1>5 DEF RequestCorrection, IInv, TypeOK, RequestRow, TargetsRecorded
  <1>7. QED
    BY <1>1, <1>3, <1>4, <1>6 DEF IInv, tables

LEMMA RejectIInv ==
  ASSUME IInv, NEW q \in Requests, Reject(q)
  PROVE  IInv' /\ UNCHANGED tables
  <1>1. UNCHANGED <<now, session, brk, entry>>
    BY DEF Reject
  <1>2. request[q].target \in Recorded /\ request[q].target \in Targets
    BY DEF Reject, IInv, TargetsRecorded, Recorded
  <1>3. Unset \in Interval
    BY DEF Unset, Interval, Stamp
  <1>4. TypeOK'
    <2>1. request' \in [Requests -> RequestRow]
      BY DEF Reject, IInv, TypeOK, RequestRow
    <2>2. audit' \subseteq AuditRow
      BY <1>2, <1>3 DEF Reject, AuditRecord, IInv, TypeOK, AuditRow
    <2>3. QED
      BY <1>1, <2>1, <2>2 DEF IInv, TypeOK, RecordsTypeOK
  <1>5. Sound'
    BY <1>1 DEF IInv, Sound, RecordsTypeOK, BreaksHeld, EntryStamps, OneOpenPerOwner
  <1>6. Recorded' = Recorded
    BY <1>1 DEF Recorded, StatusOf
  <1>7. TargetsRecorded'
    BY <1>6 DEF Reject, IInv, TypeOK, RequestRow, TargetsRecorded
  <1>8. QED
    BY <1>1, <1>4, <1>5, <1>7 DEF IInv, tables

\* What an approved or direct correction of x does, whoever decides.
LEMMA DecisionIInv ==
  ASSUME IInv, NEW q \in Requests, NEW x \in Recorded, NEW p \in Interval,
         ApplyCorrection(x, p), now' = now,
         request' \in [Requests -> RequestRow], request'[q].target = x,
         \A r \in Requests : r # q => request'[r] = request[r],
         audit' \subseteq AuditRow
  PROVE  IInv'
  <1>1. Sound' /\ RowsKept
    BY AppliedSound DEF IInv
  <1>2. TypeOK'
    BY <1>1 DEF TypeOK, Sound
  <1>3. \A y \in Recorded : y \in Recorded'
    BY <1>1, RecordedKept
  <1>4. TargetsRecorded'
    BY <1>3 DEF IInv, TargetsRecorded
  <1>5. QED
    BY <1>1, <1>2, <1>4 DEF IInv

\* An approval corrects the recorded target of its request, and only there.
LEMMA ApproveIInv ==
  ASSUME IInv, NEW q \in Requests, Approve(q)
  PROVE  /\ IInv'
         /\ \E x \in Recorded, p, after \in Interval :
               /\ ApplyCorrection(x, p)
               /\ ~Overlaps(x, after)
               /\ [action |-> "CORRECTION_APPROVED", request |-> q, target |-> x,
                   before |-> IntervalOf(x), after |-> after] \in audit'
               /\ IntervalOf(x)' = after
               /\ \A y \in Targets : y # x => IntervalOf(y)' = IntervalOf(y)
               /\ request'[q].target = x
               /\ \A r \in Requests : r # q => request'[r] = request[r]
  <1>1. PICK x \in Recorded, p \in Interval :
           x = request[q].target /\ p = request[q].proposed
    BY DEF Approve, IInv, TypeOK, RequestRow, TargetsRecorded
  <1>2. x \in Targets
    BY DEF Recorded
  <1>3. PICK after \in Interval : after = Patched(IntervalOf(x), p)
    BY <1>2, IntervalType, PatchedType DEF IInv, Sound
  <1>4. /\ ~Overlaps(x, after)
        /\ ApplyCorrection(x, p)
        /\ request' = [request EXCEPT ![q].status = "APPROVED"]
        /\ audit' = audit \cup {[action |-> "CORRECTION_APPROVED", request |-> q,
                                 target |-> x, before |-> IntervalOf(x),
                                 after |-> after]}
        /\ now' = now
    BY <1>1, <1>3 DEF Approve, AuditRecord
  <1>5. /\ request' \in [Requests -> RequestRow]
        /\ request'[q].target = x
        /\ \A r \in Requests : r # q => request'[r] = request[r]
    BY <1>1, <1>4 DEF IInv, TypeOK, RequestRow
  <1>6. /\ IntervalOf(x)' = after
        /\ \A y \in Targets : y # x => IntervalOf(y)' = IntervalOf(y)
    BY <1>2, <1>3, <1>4, AppliedIntervals DEF IInv, Sound
  <1>7. audit' \subseteq AuditRow
    BY <1>2, <1>4, IntervalType DEF IInv, Sound, TypeOK, AuditRow
  <1>8. IInv'
    BY <1>4, <1>5, <1>7, DecisionIInv
  <1>9. QED
    BY <1>4, <1>5, <1>6, <1>8

\* A direct correction likewise, with the interval it leaves as the proposal.
LEMMA DirectCorrectionIInv ==
  ASSUME IInv, NEW a \in Admins, NEW q \in Requests, NEW x \in Recorded,
         NEW p \in Proposals, DirectCorrection(a, q, x, p)
  PROVE  /\ IInv'
         /\ \E after \in Interval :
               /\ ApplyCorrection(x, after)
               /\ ~Overlaps(x, after)
               /\ [action |-> "ADMIN_DIRECT_CORRECTION", request |-> q, target |-> x,
                   before |-> IntervalOf(x), after |-> after] \in audit'
               /\ IntervalOf(x)' = after
               /\ \A y \in Targets : y # x => IntervalOf(y)' = IntervalOf(y)
               /\ request'[q].target = x
               /\ \A r \in Requests : r # q => request'[r] = request[r]
  <1>1. x \in Targets /\ p \in Interval /\ a \in Users
    BY CorrectionAssumption DEF Recorded
  <1>2. PICK after \in Interval :
           after = Patched(IntervalOf(x), p) /\ Patched(IntervalOf(x), after) = after
    BY <1>1, IntervalType, PatchedType DEF IInv, Sound
  <1>3. /\ ~Overlaps(x, after)
        /\ ApplyCorrection(x, after)
        /\ request' = [request EXCEPT ![q] =
              [status |-> "APPROVED", target |-> x, requestedById |-> a,
               proposed |-> after]]
        /\ audit' = audit \cup {[action |-> "ADMIN_DIRECT_CORRECTION", request |-> q,
                                 target |-> x, before |-> IntervalOf(x),
                                 after |-> after]}
        /\ now' = now
    BY <1>2 DEF DirectCorrection, AuditRecord
  <1>4. /\ request' \in [Requests -> RequestRow]
        /\ request'[q].target = x
        /\ \A r \in Requests : r # q => request'[r] = request[r]
    BY <1>1, <1>3 DEF IInv, TypeOK, RequestRow
  <1>5. /\ IntervalOf(x)' = after
        /\ \A y \in Targets : y # x => IntervalOf(y)' = IntervalOf(y)
    BY <1>1, <1>2, <1>3, AppliedIntervals DEF IInv, Sound
  <1>6. audit' \subseteq AuditRow
    BY <1>1, <1>3, IntervalType DEF IInv, Sound, TypeOK, AuditRow
  <1>7. IInv'
    BY <1>3, <1>4, <1>6, DecisionIInv
  <1>8. QED
    BY <1>3, <1>4, <1>5, <1>7

LEMMA WorkIInv ==
  ASSUME IInv, NEW u \in Users, Work(u)
  PROVE  IInv'
  <1>1. Sound' /\ RowsKept
    BY WorkSound DEF IInv
  <1>2. UNCHANGED <<request, audit>>
    BY DEF Work
  <1>3. TargetsRecorded'
    BY <1>1, <1>2, RecordedKept DEF IInv, TargetsRecorded
  <1>4. QED
    BY <1>1, <1>2, <1>3 DEF IInv, TypeOK, Sound

\* A step that leaves the records and the requests alone.
LEMMA IdleIInv ==
  ASSUME IInv, PassTime \/ UNCHANGED vars
  PROVE  IInv' /\ UNCHANGED tables /\ UNCHANGED <<request, audit>>
  <1>1. now' \in Nat /\ UNCHANGED <<session, brk, entry, request, audit>>
    BY DEF PassTime, Tick, vars, IInv, TypeOK, RecordsTypeOK
  <1>2. TypeOK' /\ Sound'
    BY <1>1 DEF IInv, TypeOK, Sound, RecordsTypeOK, BreaksHeld, EntryStamps,
       OneOpenPerOwner
  <1>3. Recorded' = Recorded
    BY <1>1 DEF Recorded, StatusOf
  <1>4. QED
    BY <1>1, <1>2, <1>3 DEF IInv, TargetsRecorded, tables

LEMMA Invariance == Spec => []IInv
  <1>1. IInv /\ [Next]_vars => IInv'
    <2> SUFFICES ASSUME IInv, [Next]_vars PROVE IInv'
      OBVIOUS
    <2>1. CASE PassTime \/ UNCHANGED vars
      BY <2>1, IdleIInv
    <2>2. ASSUME NEW u \in Users, Work(u) PROVE IInv'
      BY <2>2, WorkIInv
    <2>3. ASSUME NEW q \in Requests, Approve(q) PROVE IInv'
      BY <2>3, ApproveIInv
    <2>4. ASSUME NEW q \in Requests, Reject(q) PROVE IInv'
      BY <2>4, RejectIInv
    <2>5. ASSUME NEW q \in Requests, NEW x \in Recorded, NEW p \in Proposals,
                 NEW u \in Users, RequestCorrection(u, q, x, p)
          PROVE  IInv'
      BY <2>5, RequestCorrectionIInv
    <2>6. ASSUME NEW q \in Requests, NEW x \in Recorded, NEW p \in Proposals,
                 NEW a \in Admins, DirectCorrection(a, q, x, p)
          PROVE  IInv'
      BY <2>6, DirectCorrectionIInv
    <2>7. QED
      BY <2>1, <2>2, <2>3, <2>4, <2>5, <2>6 DEF Next
  <1>2. QED
    BY <1>1, InitIInv, PTL DEF Spec

\* Every variable keeps its type, whatever is proposed and decided.
THEOREM Typed == Spec => []TypeOK
  <1>1. IInv => TypeOK
    BY DEF IInv
  <1>2. QED
    BY <1>1, Invariance, PTL

\* BR-002, BR-003: no correction gives a user a second open session or running
\* timer, or a session a second active break; in particular endBreak, startBreak
\* and clockOut stay right about a session whose break was corrected.
THEOREM OneOpenStays == Spec => []OneOpenPerOwner
  <1>1. IInv => OneOpenPerOwner
    BY DEF IInv, Sound
  <1>2. QED
    BY <1>1, Invariance, PTL

----------------------------------------------------------------------------
(* BR-012: what a correction replaces stays on the audit trail.            *)

\* A step that rewrites no finished row replaces nothing.
LEMMA UntouchedKeeps ==
  ASSUME RecordsTypeOK, HistoryUntouched
  PROVE  OriginalKept
  <1>1. ASSUME NEW s \in Sessions, Finished(s) PROVE IntervalOf(s)' = IntervalOf(s)
    BY <1>1, Views, ViewsNext DEF HistoryUntouched, Finished, RecordsTypeOK, SessionRow
  <1>2. ASSUME NEW b \in Breaks, Finished(b) PROVE IntervalOf(b)' = IntervalOf(b)
    BY <1>2, Views, ViewsNext DEF HistoryUntouched, Finished, RecordsTypeOK, BreakRow
  <1>3. ASSUME NEW e \in Entries, Finished(e) PROVE IntervalOf(e)' = IntervalOf(e)
    BY <1>3, Views, ViewsNext DEF HistoryUntouched, Finished, RecordsTypeOK, EntryRow
  <1>4. QED
    BY <1>1, <1>2, <1>3 DEF OriginalKept, Targets

\* The interval of a finished record changes only with its old value written
\* to the audit trail, in the same step (CorrectionsService.decide and
\* adminDirectCorrection).
THEOREM OriginalsStay == Spec => OriginalsKept
  <1>1. IInv /\ [Next]_vars => [OriginalKept]_vars
    <2> SUFFICES ASSUME IInv, [Next]_vars PROVE [OriginalKept]_vars
      OBVIOUS
    <2> RecordsTypeOK
      BY DEF IInv, Sound
    <2>1. ASSUME UNCHANGED tables PROVE OriginalKept
      <3>1. HistoryUntouched
        BY <2>1 DEF tables, HistoryUntouched
      <3>2. QED
        BY <3>1, UntouchedKeeps
    <2>2. CASE PassTime \/ UNCHANGED vars
      BY <2>1, <2>2, IdleIInv
    <2>3. ASSUME NEW u \in Users, Work(u) PROVE OriginalKept
      BY <2>3, WorkSound, UntouchedKeeps DEF IInv
    <2>4. ASSUME NEW q \in Requests, Approve(q) PROVE OriginalKept
      <3>1. PICK x \in Recorded, p, after \in Interval :
               /\ [action |-> "CORRECTION_APPROVED", request |-> q, target |-> x,
                   before |-> IntervalOf(x), after |-> after] \in audit'
               /\ IntervalOf(x)' = after
               /\ \A y \in Targets : y # x => IntervalOf(y)' = IntervalOf(y)
        BY <2>4, ApproveIInv
      <3>2. QED
        BY <3>1 DEF OriginalKept
    <2>5. ASSUME NEW q \in Requests, Reject(q) PROVE OriginalKept
      BY <2>1, <2>5, RejectIInv
    <2>6. ASSUME NEW q \in Requests, NEW x \in Recorded, NEW p \in Proposals,
                 NEW u \in Users, RequestCorrection(u, q, x, p)
          PROVE  OriginalKept
      BY <2>1, <2>6, RequestCorrectionIInv
    <2>7. ASSUME NEW q \in Requests, NEW x \in Recorded, NEW p \in Proposals,
                 NEW a \in Admins, DirectCorrection(a, q, x, p)
          PROVE  OriginalKept
      <3>1. PICK after \in Interval :
               /\ [action |-> "ADMIN_DIRECT_CORRECTION", request |-> q, target |-> x,
                   before |-> IntervalOf(x), after |-> after] \in audit'
               /\ IntervalOf(x)' = after
               /\ \A y \in Targets : y # x => IntervalOf(y)' = IntervalOf(y)
        BY <2>7, DirectCorrectionIInv
      <3>2. QED
        BY <3>1 DEF OriginalKept
    <2>8. QED
      BY <2>2, <2>3, <2>4, <2>5, <2>6, <2>7 DEF Next
  <1>2. QED
    BY <1>1, Invariance, PTL DEF Spec, OriginalsKept

----------------------------------------------------------------------------
(* BR-009 under corrections that leave both ends.                          *)

\* assertNoOverlap is enough when the corrected record has an end: whatever
\* other segment of the user exists then lies after the new end or is closed
\* by the new start.
LEMMA ApartKept ==
  ASSUME Sound, SegmentsApart, NEW x \in Recorded, NEW p \in Interval,
         ApplyCorrection(x, p), NEW after \in Interval, ~Overlaps(x, after),
         IntervalOf(x)' = after, after.end # NoStamp, Sound'
  PROVE  SegmentsApart'
  <1>x. x \in Targets
    BY DEF Recorded
  <1>1. CASE x \notin Entries
    <2>1. \A e \in Entries : entry'[e] = entry[e]
      BY <1>x, <1>1, AppliedRows
    <2>2. QED
      BY <2>1 DEF SegmentsApart, OverBy
  <1>2. CASE x \in Entries
    <2>1. /\ \A e \in Entries : entry'[e].userId = entry[e].userId
          /\ \A e \in Entries \ {x} : entry'[e] = entry[e]
          /\ entry[x].status # "ABSENT"
          /\ entry'[x].status \in {entry[x].status, "CLOSED"}
      <3>1. entry[x].status # "ABSENT"
        BY <1>2, Views DEF Recorded
      <3>2. QED
        BY <1>x, <1>2, <3>1, AppliedRows
    <2>2. entry'[x].startAt = after.start /\ entry'[x].endAt = after.end
      BY <1>2, ViewsNext
    <2>3. /\ entry'[x].status = "CLOSED"
          /\ after.start \in Nat /\ after.end \in Nat
      <3>1. entry[x].status \in {"ABSENT", "RUNNING", "CLOSED"}
        BY <1>2 DEF Sound, RecordsTypeOK, EntryRow
      <3>2. entry'[x].status = "CLOSED" /\ after.start \in Nat
        BY <1>2, <2>1, <2>2, <3>1 DEF Sound, EntryStamps
      <3>3. QED
        BY <3>2 DEF Interval, Stamp
    <2>4. ASSUME NEW f \in Entries \ {x}, entry[f].status # "ABSENT",
                 entry[f].userId = entry[x].userId
          PROVE  \/ after.end =< entry[f].startAt
                 \/ entry[f].status = "CLOSED" /\ entry[f].endAt =< after.start
      <3>1. /\ entry[f].startAt \in Nat
            /\ entry[f].endAt \in Nat \/ entry[f].endAt = NoStamp
            /\ entry[f].status \in {"RUNNING", "CLOSED"}
            /\ entry[f].status = "RUNNING" => entry[f].endAt = NoStamp
        BY <2>4 DEF Sound, EntryStamps, RecordsTypeOK, EntryRow, Stamp
      <3>2. \/ ~(entry[f].startAt < after.end)
            \/ ~(entry[f].endAt = NoStamp \/ entry[f].endAt > after.start)
        BY <1>2, <2>3, <2>4 DEF Overlaps, NoStamp
      <3>3. QED
        BY <2>3, <3>1, <3>2
    <2>5. QED
      BY <1>2, <2>1, <2>2, <2>3, <2>4 DEF SegmentsApart, OverBy
  <1>3. QED
    BY <1>1, <1>2

\* A correction that leaves its record with both ends keeps the segments of a
\* user apart, for any proposal: the check of assertNoOverlap, taken before the
\* update and only over segments, is enough when nothing runs in between.
THEOREM CorrectionsApart == Spec => CorrectedApart
  <1> DEFINE Apart == (\E q \in Requests : Corrected(q)) /\ SegmentsApart
                         => SegmentsApart'
  <1>1. IInv /\ [Next]_vars => [Apart]_vars
    <2> SUFFICES ASSUME IInv, [Next]_vars, NEW q \in Requests, Corrected(q),
                        SegmentsApart
                 PROVE  SegmentsApart'
      OBVIOUS
    <2>1. /\ request[q].status # "APPROVED" /\ request'[q].status = "APPROVED"
          /\ request'[q].target \in Targets
          /\ \A x \in Targets : request'[q].target = x => IntervalOf(x)'.end # NoStamp
      BY DEF Corrected
    <2>2. CASE PassTime \/ UNCHANGED vars
      BY <2>1, <2>2, IdleIInv
    <2>3. ASSUME NEW u \in Users, Work(u) PROVE FALSE
      BY <2>1, <2>3 DEF Work
    <2>4. ASSUME NEW r \in Requests, Approve(r) PROVE SegmentsApart'
      <3>1. /\ IInv'
            /\ \E x \in Recorded, p, after \in Interval :
                  /\ ApplyCorrection(x, p) /\ ~Overlaps(x, after)
                  /\ IntervalOf(x)' = after /\ request'[r].target = x
                  /\ \A s \in Requests : s # r => request'[s] = request[s]
        BY <2>4, ApproveIInv
      <3>2. PICK x \in Recorded, p, after \in Interval :
               /\ ApplyCorrection(x, p) /\ ~Overlaps(x, after)
               /\ IntervalOf(x)' = after /\ after.end # NoStamp
        BY <2>1, <3>1
      <3>3. QED
        BY <3>1, <3>2, ApartKept DEF IInv
    <2>5. ASSUME NEW r \in Requests, Reject(r) PROVE SegmentsApart'
      BY <2>5, RejectIInv DEF tables, SegmentsApart, OverBy
    <2>6. ASSUME NEW r \in Requests, NEW x \in Recorded, NEW p \in Proposals,
                 NEW u \in Users, RequestCorrection(u, r, x, p)
          PROVE  SegmentsApart'
      BY <2>6, RequestCorrectionIInv DEF tables, SegmentsApart, OverBy
    <2>7. ASSUME NEW r \in Requests, NEW x \in Recorded, NEW p \in Proposals,
                 NEW a \in Admins, DirectCorrection(a, r, x, p)
          PROVE  SegmentsApart'
      <3>1. /\ IInv'
            /\ \E after \in Interval :
                  /\ ApplyCorrection(x, after) /\ ~Overlaps(x, after)
                  /\ IntervalOf(x)' = after /\ request'[r].target = x
                  /\ \A s \in Requests : s # r => request'[s] = request[s]
        BY <2>7, DirectCorrectionIInv
      <3>2. PICK after \in Interval :
               /\ ApplyCorrection(x, after) /\ ~Overlaps(x, after)
               /\ IntervalOf(x)' = after /\ after.end # NoStamp
        BY <2>1, <3>1
      <3>3. QED
        BY <3>1, <3>2, ApartKept DEF IInv
    <2>8. QED
      BY <2>2, <2>3, <2>4, <2>5, <2>6, <2>7 DEF Next
  <1>2. QED
    BY <1>1, Invariance, PTL DEF Spec, CorrectedApart

----------------------------------------------------------------------------
(* CorrectionRequests, where a user's record is read and written by one    *)
(* request at a time and nothing is lost half way.                         *)

Labels == {"idle", "request", "request.create", "request.audit", "decide", "reject",
           "reject.audit", "approve", "approve.overlap", "approve.apply",
           "approve.after", "approve.status", "approve.audit", "direct",
           "direct.overlap", "direct.apply", "direct.create", "direct.audit"}
Asked == [request : Requests \cup {None}, user : Users \cup {None},
          target : Targets \cup {None}, proposed : Interval, approve : BOOLEAN]
StepTypeOK ==
    /\ TypeOK
    /\ pc \in [Slots -> Labels]
    /\ req \in [Slots -> Asked]
    /\ got \in [Slots -> [before : Interval, after : Interval]]

\* A recorded row has an owner.
OwnersKnown ==
    /\ \A s \in Sessions : session[s].status # "ABSENT" => session[s].userId \in Users
    /\ \A b \in Breaks : brk[b].status # "ABSENT" =>
          /\ brk[b].attendanceSessionId \in Sessions
          /\ session[brk[b].attendanceSessionId].status # "ABSENT"
    /\ \A e \in Entries : entry[e].status # "ABSENT" => entry[e].userId \in Users

\* The target and the id of a handler under way are nobody else's.
SlotAlone(r) ==
    pc[r] # "idle" =>
       /\ req[r].target \in Recorded /\ req[r].request \in Requests
       /\ \A o \in Slots \ {r} : pc[o] # "idle" =>
             /\ OwnerOf(req[o].target) # OwnerOf(req[r].target)
             /\ req[o].request # req[r].request

\* What the handler in slot r has found out, by how far it has come: the id of its
\* request is unused until the insert, a decision is about the request as it was
\* read, and the target is as it was read, checked and written.
Inserting == {"request", "request.create", "direct", "direct.overlap", "direct.apply",
              "direct.create"}
Deciding == {"decide", "reject", "approve", "approve.overlap", "approve.apply",
             "approve.after", "approve.status"}
Undecided == Deciding \ {"decide"}
Direct == {"direct", "direct.overlap", "direct.apply", "direct.create", "direct.audit"}
SlotKnows(r) ==
    LET x == req[r].target
        q == req[r].request
        p == req[r].proposed
    IN  pc[r] # "idle" =>
        /\ pc[r] \in Inserting => request[q].status = "ABSENT" /\ p \in Proposals
        /\ pc[r] \notin Inserting => request[q].status # "ABSENT" /\ request[q].target = x
        /\ pc[r] \in Deciding => request[q].proposed = p
        /\ pc[r] \in Undecided => request[q].status = "PENDING"
        /\ pc[r] \in {"request", "request.create"} => req[r].user \in Users
        /\ pc[r] = "request.create" => OwnerOf(x) = req[r].user
        /\ pc[r] \in Direct => req[r].user \in Admins
        /\ pc[r] \in {"approve.overlap", "approve.apply", "direct.overlap",
                      "direct.apply"} => got[r].before = IntervalOf(x)
        /\ pc[r] \in {"approve.apply", "direct.apply"} => ~Overlaps(x, Filled(r))
        /\ pc[r] = "approve.after" => IntervalOf(x) = Filled(r)
        /\ pc[r] \in {"approve.status", "approve.audit"} => got[r].after = Filled(r)

\* An interval that was replaced is on the audit trail, or in the hands of a
\* handler that will put it there.
Owing == {"approve.after", "approve.status", "approve.audit", "direct.create",
               "direct.audit"}
OnRecord ==
    \A o \in overwritten :
       \/ \E a \in audit : a.target = o[1] /\ a.before = o[2]
       \/ \E r \in Slots : /\ pc[r] \in Owing
                           /\ req[r].target = o[1] /\ got[r].before = o[2]

SerialIInv ==
    /\ StepTypeOK
    /\ Sound
    /\ OwnersKnown
    /\ TargetsRecorded
    /\ \A r \in Slots : SlotAlone(r) /\ SlotKnows(r)
    /\ OnRecord

----------------------------------------------------------------------------
(* A step that writes the records of one user only.                        *)

OnlyOf(u) ==
    /\ \A s \in Sessions :
          \/ session'[s] = session[s]
          \/ /\ session'[s].userId = u
             /\ session[s].status # "ABSENT" => session[s].userId = u
    /\ \A b \in Breaks :
          \/ brk'[b] = brk[b]
          \/ /\ brk'[b].attendanceSessionId \in Sessions
             /\ session[brk'[b].attendanceSessionId].status # "ABSENT"
             /\ session[brk'[b].attendanceSessionId].userId = u
             /\ brk[b].status # "ABSENT" =>
                   brk'[b].attendanceSessionId = brk[b].attendanceSessionId
    /\ \A e \in Entries :
          \/ entry'[e] = entry[e]
          \/ /\ entry'[e].userId = u
             /\ entry[e].status # "ABSENT" => entry[e].userId = u

\* Closing the running segments of a user, and the active breaks of a session of
\* theirs.
LEMMA ClosingOnlyOf ==
  ASSUME Sound, NEW u \in Users
  PROVE  /\ \A e \in Entries : LET new == ClosedEntries(RunningEntries(u), now)
                               IN  new[e] = entry[e] \/ (new[e].userId = u /\ entry[e].userId = u)
         /\ \A s \in Sessions, b \in Breaks :
               LET new == EndedBreaks(ActiveBreaks(s), now)
               IN  \/ new[b] = brk[b]
                   \/ new[b].attendanceSessionId = s /\ brk[b].attendanceSessionId = s
  BY SegmentsClosed, BreaksEnded

\* A request of u's working day.
LEMMA WorkOnlyOf ==
  ASSUME Sound, NEW u \in Users, Work(u)
  PROVE  OnlyOf(u)
  <1> USE NoneAssumption
  <1>1. Day!ServeAt(u, now) /\ RecordsTypeOK
    BY DEF Work, Sound
  <1>2. CASE Day!ClockIn(u, now)
    <2>1. PICK s \in Sessions :
             /\ session[s].status = "ABSENT"
             /\ session' = [session EXCEPT ![s] = NewSession(u, now)]
             /\ UNCHANGED <<now, brk, entry>>
      BY <1>2 DEF Day!ClockIn, Day!NewSession, NewSession, Day!NoStamp, NoStamp
    <2>2. QED
      BY <1>1, <2>1 DEF OnlyOf, NewSession, RecordsTypeOK
  <1>3. CASE Day!ClockOut(u, now)
    <2>1. PICK s \in Sessions :
             /\ session[s].userId = u /\ session[s].status \in Open
             /\ entry' = ClosedEntries(RunningEntries(u), now)
             /\ brk' = EndedBreaks(ActiveBreaks(s), now)
             /\ session' = ClockedOut(s, now)
      BY <1>3, DayUpdates DEF Day!ClockOut, Day!OpenSessions, Day!SessionsIn, Day!Open, Open
    <2>2. /\ session'[s].userId = u
          /\ \A t \in Sessions : t # s => session'[t] = session[t]
      BY <1>1, <2>1 DEF ClockedOut, RecordsTypeOK, SessionRow
    <2>3. QED
      BY <2>1, <2>2, ClosingOnlyOf DEF OnlyOf, Open
  <1>4. CASE Day!StartBreak(u, now)
    <2>1. PICK s \in Sessions, b \in Breaks :
             /\ session[s].userId = u /\ session[s].status = "ACTIVE"
             /\ brk[b].status = "ABSENT"
             /\ brk' = [brk EXCEPT ![b] = NewBreak(s, now)]
             /\ session' = [session EXCEPT ![s].status = "ON_BREAK"]
             /\ entry' = ClosedEntries(RunningEntries(u), now)
      BY <1>4 DEF Day!StartBreak, Day!SessionsIn, Day!NewBreak, NewBreak, Day!NoStamp,
         NoStamp, Day!ClosedEntries, ClosedEntries, Day!RunningEntries, RunningEntries
    <2>2. /\ session'[s].userId = u
          /\ \A t \in Sessions : t # s => session'[t] = session[t]
          /\ brk'[b].attendanceSessionId = s
          /\ \A c \in Breaks : c # b => brk'[c] = brk[c]
      BY <1>1, <2>1 DEF NewBreak, RecordsTypeOK, SessionRow
    <2>3. QED
      BY <2>1, <2>2, ClosingOnlyOf DEF OnlyOf
  <1>5. CASE Day!EndBreak(u, now)
    <2>1. PICK s \in Sessions :
             /\ session[s].userId = u /\ session[s].status = "ON_BREAK"
             /\ brk' = EndedBreaks(ActiveBreaks(s), now)
             /\ session' = [session EXCEPT ![s].status = "ACTIVE"]
             /\ entry' = entry
      BY <1>5 DEF Day!EndBreak, Day!SessionsIn, Day!EndedBreaks, EndedBreaks,
         Day!ActiveBreaks, ActiveBreaks
    <2>2. /\ session'[s].userId = u
          /\ \A t \in Sessions : t # s => session'[t] = session[t]
      BY <1>1, <2>1 DEF RecordsTypeOK, SessionRow
    <2>3. QED
      BY <2>1, <2>2, ClosingOnlyOf DEF OnlyOf
  <1>6. CASE Day!StopTimer(u, now)
    <2>1. /\ entry' = ClosedEntries(RunningEntries(u), now)
          /\ UNCHANGED <<session, brk>>
      BY <1>6, DayUpdates DEF Day!StopTimer
    <2>2. QED
      BY <2>1, ClosingOnlyOf DEF OnlyOf
  <1>7. ASSUME NEW k \in Tasks, Day!StartTimer(u, k, now)
        PROVE  OnlyOf(u)
    <2>1. PICK s \in Sessions, e \in Entries :
             /\ entry[e].status = "ABSENT"
             /\ entry' = [entry EXCEPT ![e] = NewEntry(u, k, s, now)]
             /\ UNCHANGED <<session, brk>>
      BY <1>7 DEF Day!StartTimer, Day!SessionsIn, Day!NewEntry, NewEntry, Day!NoStamp,
         NoStamp
    <2>2. QED
      BY <1>1, <2>1 DEF OnlyOf, NewEntry, RecordsTypeOK
  <1>8. ASSUME NEW k \in Tasks, Day!SwitchTask(u, k, now)
        PROVE  OnlyOf(u)
    <2> DEFINE closed == ClosedEntries(RunningEntries(u), now)
    <2>1. PICK s \in Sessions, e \in Entries :
             /\ entry[e].status = "ABSENT"
             /\ entry' = [closed EXCEPT ![e] = NewEntry(u, k, s, now)]
             /\ UNCHANGED <<session, brk>>
      BY <1>8 DEF Day!SwitchTask, Day!SessionsIn, Day!NewEntry, NewEntry, Day!NoStamp,
         NoStamp, Day!ClosedEntries, ClosedEntries, Day!RunningEntries, RunningEntries
    <2>2. /\ closed \in [Entries -> EntryRow]
          /\ \A f \in Entries :
                closed[f] = entry[f] \/ (closed[f].userId = u /\ entry[f].userId = u)
      BY SegmentsClosed, ClosingOnlyOf
    <2> HIDE DEF closed
    <2>3. /\ entry'[e].userId = u
          /\ \A f \in Entries : f # e => entry'[f] = closed[f]
      BY <2>1, <2>2 DEF NewEntry
    <2>4. QED
      BY <2>1, <2>2, <2>3 DEF OnlyOf
  <1>9. QED
    BY <1>1, <1>2, <1>3, <1>4, <1>5, <1>6, <1>7, <1>8 DEF Day!ServeAt

\* The owner of a target, by its table.
LEMMA Owners ==
  /\ \A s \in Sessions : OwnerOf(s) = session[s].userId
  /\ \A b \in Breaks : OwnerOf(b) = session[brk[b].attendanceSessionId].userId
  /\ \A e \in Entries : OwnerOf(e) = entry[e].userId
  BY TargetsApart DEF OwnerOf, BreakOwner

LEMMA OwnersNext ==
  /\ \A s \in Sessions : OwnerOf(s)' = session'[s].userId
  /\ \A b \in Breaks : OwnerOf(b)' = session'[brk'[b].attendanceSessionId].userId
  /\ \A e \in Entries : OwnerOf(e)' = entry'[e].userId
  BY TargetsApart DEF OwnerOf, BreakOwner

LEMMA OwnerIsUser ==
  ASSUME OwnersKnown, NEW x \in Recorded
  PROVE  OwnerOf(x) \in Users
  BY Owners, Views DEF OwnersKnown, Recorded, Targets

\* A correction of x.
LEMMA AppliedOnlyOf ==
  ASSUME Sound, OwnersKnown, NEW x \in Recorded, NEW p \in Interval, ApplyCorrection(x, p)
  PROVE  OnlyOf(OwnerOf(x))
  <1>1. x \in Targets /\ StatusOf(x) # "ABSENT"
    BY DEF Recorded
  <1>2. \A s \in Sessions : \/ session'[s] = session[s]
                            \/ s = x /\ session'[s].userId = session[s].userId
    BY <1>1, AppliedRows
  <1>3. \A b \in Breaks :
           \/ brk'[b] = brk[b]
           \/ b = x /\ brk'[b].attendanceSessionId = brk[b].attendanceSessionId
    BY <1>1, AppliedRows
  <1>4. \A e \in Entries : \/ entry'[e] = entry[e]
                           \/ e = x /\ entry'[e].userId = entry[e].userId
    BY <1>1, AppliedRows
  <1>5. /\ x \in Sessions => OwnerOf(x) = session[x].userId
        /\ x \in Entries => OwnerOf(x) = entry[x].userId
        /\ x \in Breaks => /\ brk[x].status # "ABSENT"
                           /\ OwnerOf(x) = session[brk[x].attendanceSessionId].userId
    BY <1>1, Owners, Views
  <1>6. QED
    BY <1>2, <1>3, <1>4, <1>5 DEF OnlyOf, OwnersKnown

\* Such a step keeps the owners, and of everybody else's records the interval and
\* what it overlaps.
LEMMA Framed ==
  ASSUME OwnersKnown, RowsKept, NEW u, OnlyOf(u)
  PROVE  /\ \A x \in Recorded : OwnerOf(x)' = OwnerOf(x)
         /\ \A x \in Recorded : OwnerOf(x) # u => IntervalOf(x)' = IntervalOf(x)
         /\ \A x \in Recorded, i \in Interval :
               OwnerOf(x) # u => (Overlaps(x, i)' <=> Overlaps(x, i))
  <1>1. ASSUME NEW s \in Sessions, session[s].status # "ABSENT"
        PROVE  session'[s].userId = session[s].userId
    BY <1>1 DEF OnlyOf
  <1>2. ASSUME NEW x \in Recorded PROVE OwnerOf(x)' = OwnerOf(x)
    <2>1. CASE x \in Sessions
      BY <1>1, <2>1, Owners, OwnersNext, Views DEF Recorded
    <2>2. CASE x \in Breaks
      <3>1. /\ brk[x].status # "ABSENT" /\ brk[x].attendanceSessionId \in Sessions
            /\ session[brk[x].attendanceSessionId].status # "ABSENT"
            /\ brk'[x].attendanceSessionId = brk[x].attendanceSessionId
        BY <2>2, Views DEF Recorded, OwnersKnown, OnlyOf
      <3>2. QED
        BY <1>1, <2>2, <3>1, Owners, OwnersNext
    <2>3. CASE x \in Entries
      <3>1. entry'[x].userId = entry[x].userId
        BY <2>3, Views DEF Recorded, OnlyOf
      <3>2. QED
        BY <2>3, <3>1, Owners, OwnersNext
    <2>4. QED
      BY <2>1, <2>2, <2>3 DEF Recorded, Targets
  <1>3. ASSUME NEW x \in Recorded, OwnerOf(x) # u PROVE IntervalOf(x)' = IntervalOf(x)
    <2>1. CASE x \in Sessions
      BY <1>3, <2>1, Owners, Views, ViewsNext DEF Recorded, OnlyOf
    <2>2. CASE x \in Breaks
      <3>1. brk'[x] = brk[x]
        BY <1>3, <2>2, Owners, Views DEF Recorded, OnlyOf
      <3>2. QED
        BY <2>2, <3>1, Views, ViewsNext
    <2>3. CASE x \in Entries
      BY <1>3, <2>3, Owners, Views, ViewsNext DEF Recorded, OnlyOf
    <2>4. QED
      BY <2>1, <2>2, <2>3 DEF Recorded, Targets
  <1>4. ASSUME NEW x \in Recorded, NEW i \in Interval, OwnerOf(x) # u
        PROVE  Overlaps(x, i)' <=> Overlaps(x, i)
    <2>1. CASE x \notin Entries
      BY <2>1 DEF Overlaps
    <2>2. CASE x \in Entries
      <3>1. entry[x].userId # u /\ entry'[x].userId = entry[x].userId
        BY <1>4, <2>2, Owners, Views DEF Recorded, OnlyOf
      <3>2. ASSUME NEW f \in Entries
            PROVE  \/ entry'[f] = entry[f]
                   \/ /\ entry'[f].userId # entry'[x].userId
                      /\ entry[f].status # "ABSENT" => entry[f].userId # entry[x].userId
        BY <3>1 DEF OnlyOf
      <3>3. QED
        BY <3>1, <3>2 DEF Overlaps
    <2>3. QED
      BY <2>1, <2>2
  <1>5. QED
    BY <1>2, <1>3, <1>4

LEMMA OwnersKept ==
  ASSUME OwnersKnown, RowsKept, NEW u \in Users, OnlyOf(u)
  PROVE  OwnersKnown'
  BY DEF OwnersKnown, RowsKept, OnlyOf

\* What a slot's target and interval say after a step, for a fixed target and
\* interval.
LEMMA Primed ==
  ASSUME NEW r \in Slots, NEW x, req'[r].target = x
  PROVE  /\ OwnerOf(req[r].target)' = OwnerOf(x)'
         /\ IntervalOf(req[r].target)' = IntervalOf(x)'
         /\ \A i : Filled(r)' = i =>
               (Overlaps(req[r].target, Filled(r))' <=> Overlaps(x, i)')
  <1>1. OwnerOf(req[r].target)' = OwnerOf(x)'
    BY DEF OwnerOf, BreakOwner
  <1>2. IntervalOf(req[r].target)' = IntervalOf(x)'
    BY DEF IntervalOf
  <1>3. ASSUME NEW i, Filled(r)' = i
        PROVE  Overlaps(req[r].target, Filled(r))' <=> Overlaps(x, i)'
    BY <1>3 DEF Overlaps
  <1>4. QED
    BY <1>1, <1>2, <1>3

LEMMA FilledType ==
  ASSUME StepTypeOK, NEW r \in Slots
  PROVE  /\ Filled(r) \in Interval
         /\ Patched(got[r].before, Filled(r)) = Filled(r)
  BY PatchedType DEF StepTypeOK, Asked, Filled

\* A slot other than the one that moves, none of whose records the step writes.
LEMMA OtherKnows ==
  ASSUME SerialIInv, RowsKept, NEW u, OnlyOf(u),
         NEW o \in Slots, pc'[o] = pc[o], req'[o] = req[o], got'[o] = got[o],
         pc[o] # "idle" =>
            /\ OwnerOf(req[o].target) # u
            /\ request'[req[o].request] = request[req[o].request]
            /\ \A i \in Slots \ {o} : pc'[i] # "idle" =>
                  /\ OwnerOf(req[i].target)' # OwnerOf(req[o].target)
                  /\ req'[i].request # req[o].request
  PROVE  SlotAlone(o)' /\ SlotKnows(o)'
  <1> SUFFICES ASSUME pc[o] # "idle" PROVE SlotAlone(o)' /\ SlotKnows(o)'
    BY DEF SlotAlone, SlotKnows
  <1> DEFINE x == req[o].target
             q == req[o].request
  <1>1. /\ SlotKnows(o) /\ OwnersKnown /\ StepTypeOK
        /\ x \in Recorded /\ q \in Requests
        /\ OwnerOf(x) # u
    BY DEF SerialIInv, SlotAlone
  <1>2. PICK y \in Recorded, j \in Interval : y = x /\ j = Filled(o)
    BY <1>1, FilledType
  <1>3. y \in Recorded'
    BY RecordedKept
  <1>4. OwnerOf(y)' = OwnerOf(y) /\ IntervalOf(y)' = IntervalOf(y)
        /\ (Overlaps(y, j)' <=> Overlaps(y, j))
    BY <1>1, <1>2, Framed
  <1>5. Filled(o)' = j
    BY <1>2 DEF Filled
  <1>6. /\ OwnerOf(x)' = OwnerOf(x) /\ IntervalOf(x)' = IntervalOf(x)
        /\ Overlaps(x, Filled(o))' <=> Overlaps(x, Filled(o))
    BY <1>2, <1>4, <1>5, Primed
  <1>7. request'[q] = request[q]
    OBVIOUS
  <1>8. \A i \in Slots \ {o} : pc'[i] # "idle" =>
           OwnerOf(req[i].target)' # OwnerOf(x)' /\ req'[i].request # q
    BY <1>6
  <1>9. (\A i \in Slots \ {o} : pc[i] # "idle" =>
            OwnerOf(req[i].target) # OwnerOf(x) /\ req[i].request # q)'
    BY <1>8
  <1>10. (x \in Recorded /\ q \in Requests)'
    BY <1>1, <1>2, <1>3
  <1>11. Filled(o)' = Filled(o)
    BY <1>2, <1>5
  <1>12. (/\ pc[o] \in Inserting => request[q].status = "ABSENT" /\ req[o].proposed \in Proposals
          /\ pc[o] \notin Inserting => request[q].status # "ABSENT" /\ request[q].target = x
          /\ pc[o] \in Deciding => request[q].proposed = req[o].proposed
          /\ pc[o] \in Undecided => request[q].status = "PENDING"
          /\ pc[o] \in {"request", "request.create"} => req[o].user \in Users
          /\ pc[o] = "request.create" => OwnerOf(x) = req[o].user
          /\ pc[o] \in Direct => req[o].user \in Admins)'
    BY <1>1, <1>6, <1>7 DEF SlotKnows
  <1>13. (/\ pc[o] \in {"approve.overlap", "approve.apply", "direct.overlap",
                        "direct.apply"} => got[o].before = IntervalOf(x)
          /\ pc[o] \in {"approve.apply", "direct.apply"} => ~Overlaps(x, Filled(o))
          /\ pc[o] = "approve.after" => IntervalOf(x) = Filled(o)
          /\ pc[o] \in {"approve.status", "approve.audit"} => got[o].after = Filled(o))'
    BY <1>1, <1>6, <1>11 DEF SlotKnows
  <1>14. QED
    BY <1>9, <1>10, <1>12, <1>13 DEF SlotAlone, SlotKnows

\* A slot that is under way and moves on, or finishes.
Moves(r, l) ==
    /\ GoTo(r, l)
    /\ \/ /\ req' = req
          /\ got' \in [Slots -> [before : Interval, after : Interval]]
          /\ \A o \in Slots \ {r} : got'[o] = got[o]
       \/ l = "idle" /\ Finish(r)

LEMMA MoveFacts ==
  ASSUME StepTypeOK, NEW r \in Slots, NEW l \in Labels, Moves(r, l)
  PROVE  /\ pc' \in [Slots -> Labels]
         /\ req' \in [Slots -> Asked]
         /\ got' \in [Slots -> [before : Interval, after : Interval]]
         /\ \A o \in Slots \ {r} : pc'[o] = pc[o] /\ req'[o] = req[o] /\ got'[o] = got[o]
         /\ pc'[r] = l
         /\ l # "idle" => req' = req
  <1>1. Unset \in Interval
    BY DEF Unset, Interval, Stamp
  <1>2. NotAsked \in Asked /\ NothingRead \in [before : Interval, after : Interval]
    BY <1>1 DEF NotAsked, Asked, NothingRead
  <1>3. /\ pc' \in [Slots -> Labels] /\ pc'[r] = l
        /\ \A o \in Slots \ {r} : pc'[o] = pc[o]
    BY DEF Moves, GoTo, StepTypeOK
  <1>4. QED
    BY <1>2, <1>3 DEF Moves, Finish, StepTypeOK

\* A step of slot r that writes no records but its target's owner's (u = None when
\* it writes none), no request but its own, and knows what it should where it
\* arrives.
LEMMA ActKeeps ==
  ASSUME SerialIInv, NEW r \in Slots, pc[r] # "idle", NEW l \in Labels, Moves(r, l),
         NEW u \in {None, OwnerOf(req[r].target)}, OnlyOf(u), RowsKept,
         TypeOK', Sound', OwnersKnown',
         \A q \in Requests : q # req[r].request => request'[q] = request[q],
         LET q == req[r].request
         IN  request'[q] = request[q] \/ request'[q].target = req[r].target,
         SlotKnows(r)', OnRecord'
  PROVE  SerialIInv'
  <1> DEFINE x == req[r].target
             id == req[r].request
  <1>1. /\ StepTypeOK /\ OwnersKnown /\ TargetsRecorded
        /\ \A o \in Slots : SlotAlone(o) /\ SlotKnows(o)
        /\ x \in Recorded /\ id \in Requests
    BY DEF SerialIInv, SlotAlone
  <1>2. /\ pc' \in [Slots -> Labels] /\ req' \in [Slots -> Asked]
        /\ got' \in [Slots -> [before : Interval, after : Interval]]
        /\ \A o \in Slots \ {r} : pc'[o] = pc[o] /\ req'[o] = req[o] /\ got'[o] = got[o]
        /\ pc'[r] = l
        /\ l # "idle" => req' = req
    BY <1>1, MoveFacts
  <1>3. StepTypeOK'
    BY <1>2 DEF StepTypeOK
  <1>4. \A y \in Recorded : y \in Recorded'
    BY RecordedKept
  <1>5. TargetsRecorded'
    <2> SUFFICES ASSUME NEW q \in Requests, request'[q].status # "ABSENT"
                 PROVE  request'[q].target \in Recorded'
      BY DEF TargetsRecorded
    <2>1. CASE q # id
      BY <1>1, <1>4, <2>1 DEF TargetsRecorded
    <2>2. CASE q = id
      <3>1. CASE request'[q].target = x
        BY <1>1, <1>4, <3>1
      <3>2. CASE request'[q] = request[q] /\ request[q].status # "ABSENT"
        BY <1>1, <1>4, <3>2 DEF TargetsRecorded
      <3>3. QED
        BY <2>2, <3>1, <3>2
    <2>3. QED
      BY <2>1, <2>2
  <1>6. ASSUME NEW o \in Slots, pc[o] # "idle", pc'[o] # "idle"
        PROVE  OwnerOf(req[o].target)' = OwnerOf(req[o].target) /\ req'[o] = req[o]
    <2>1. req'[o] = req[o] /\ req[o].target \in Recorded
      BY <1>1, <1>2, <1>6 DEF SlotAlone
    <2>2. PICK y \in Recorded : y = req[o].target
      BY <2>1
    <2>3. OwnerOf(y)' = OwnerOf(y)
      BY <1>1, Framed
    <2>4. QED
      BY <2>1, <2>2, <2>3, Primed
  <1>7. ASSUME NEW o \in Slots \ {r} PROVE SlotAlone(o)' /\ SlotKnows(o)'
    <2>1. ASSUME pc[o] # "idle"
          PROVE  /\ OwnerOf(req[o].target) # u
                 /\ request'[req[o].request] = request[req[o].request]
                 /\ \A i \in Slots \ {o} : pc'[i] # "idle" =>
                       /\ OwnerOf(req[i].target)' # OwnerOf(req[o].target)
                       /\ req'[i].request # req[o].request
      <3>1. /\ req[o].target \in Recorded /\ req[o].request \in Requests
            /\ OwnerOf(req[o].target) # OwnerOf(x)
            /\ req[o].request # id
        BY <1>1, <1>7, <2>1 DEF SlotAlone
      <3>2. OwnerOf(req[o].target) # None
        BY <1>1, <3>1, OwnerIsUser, NoneAssumption
      <3>3. ASSUME NEW i \in Slots \ {o}, pc'[i] # "idle"
            PROVE  /\ OwnerOf(req[i].target)' # OwnerOf(req[o].target)
                   /\ req'[i].request # req[o].request
        <4>1. pc[i] # "idle"
          BY <1>2, <3>3
        <4>2. OwnerOf(req[i].target)' = OwnerOf(req[i].target) /\ req'[i] = req[i]
          BY <1>6, <3>3, <4>1
        <4>3. QED
          BY <1>1, <2>1, <4>1, <4>2, <3>3 DEF SlotAlone
      <3>4. QED
        BY <3>1, <3>2, <3>3
    <2>2. pc'[o] = pc[o] /\ req'[o] = req[o] /\ got'[o] = got[o]
      BY <1>2, <1>7
    <2>3. QED
      BY <2>1, <2>2, OtherKnows
  <1>8. SlotAlone(r)'
    <2> SUFFICES ASSUME l # "idle" PROVE SlotAlone(r)'
      BY <1>2 DEF SlotAlone
    <2>1. req' = req /\ x \in Recorded' /\ id \in Requests /\ pc'[r] # "idle"
      BY <1>1, <1>2, <1>4
    <2>2. ASSUME NEW o \in Slots \ {r}, pc'[o] # "idle"
          PROVE  /\ OwnerOf(req[o].target)' # OwnerOf(req[r].target)'
                 /\ req'[o].request # id
      <3>1. pc[o] # "idle"
        BY <1>2, <2>2
      <3>2. /\ OwnerOf(req[o].target)' = OwnerOf(req[o].target)
            /\ OwnerOf(req[r].target)' = OwnerOf(req[r].target)
        BY <1>6, <2>1, <2>2, <3>1
      <3>3. QED
        BY <1>1, <2>1, <3>1, <3>2 DEF SlotAlone
    <2>3. QED
      BY <2>1, <2>2 DEF SlotAlone
  <1>9. QED
    BY <1>3, <1>5, <1>7, <1>8 DEF SerialIInv

\* A step that leaves the tables alone.
LEMMA StillKeeps ==
  ASSUME SerialIInv, NEW r \in Slots, pc[r] # "idle", NEW l \in Labels, Moves(r, l),
         UNCHANGED vars, UNCHANGED overwritten,
         SlotKnows(r)',
         pc[r] \in Owing => l \in Owing /\ got'[r].before = got[r].before
  PROVE  SerialIInv'
  <1>1. StepTypeOK /\ TypeOK /\ Sound /\ OwnersKnown /\ OnRecord
    BY DEF SerialIInv, StepTypeOK
  <1>2. UNCHANGED <<now, session, brk, entry, request, audit>>
    BY DEF vars
  <1>3. TypeOK' /\ Sound' /\ OwnersKnown'
    BY <1>1, <1>2 DEF TypeOK, Sound, RecordsTypeOK, BreaksHeld, EntryStamps,
       OneOpenPerOwner, OwnersKnown
  <1>4. OnlyOf(None) /\ RowsKept
    BY <1>2 DEF OnlyOf, RowsKept
  <1>5. OnRecord'
    <2>1. /\ \A o \in Slots \ {r} : pc'[o] = pc[o] /\ req'[o] = req[o] /\ got'[o] = got[o]
          /\ pc'[r] = l
          /\ l # "idle" => req' = req
      BY <1>1, MoveFacts
    <2>2. \A o \in Slots : pc[o] \in Owing =>
             /\ pc'[o] \in Owing
             /\ req'[o].target = req[o].target /\ got'[o].before = got[o].before
      BY <2>1 DEF Owing
    <2>3. QED
      BY <1>1, <1>2, <2>2 DEF OnRecord
  <1>6. QED
    BY <1>2, <1>3, <1>4, <1>5, ActKeeps

\* Nothing is refused once something was written.
LEMMA RefuseKeeps ==
  ASSUME SerialIInv, NEW r \in Slots, pc[r] # "idle", pc[r] \notin Owing, Refuse(r)
  PROVE  SerialIInv'
  <1>1. /\ Moves(r, "idle") /\ UNCHANGED vars /\ UNCHANGED overwritten
        /\ "idle" \in Labels
    BY DEF Refuse, Finish, Moves, vars, Labels
  <1>2. pc'[r] = "idle"
    BY <1>1, MoveFacts DEF SerialIInv
  <1>3. SlotKnows(r)'
    BY <1>2 DEF SlotKnows
  <1>4. QED
    BY <1>1, <1>3, StillKeeps

\* What slot r and its target say after a step that leaves the tables, what the
\* slot was asked, and what it read, alone.
LEMMA AskFacts ==
  ASSUME SerialIInv, NEW r \in Slots, pc[r] # "idle", NEW l \in Labels, Ask(r, l)
  PROVE  /\ Moves(r, l) /\ UNCHANGED vars /\ UNCHANGED overwritten
         /\ UNCHANGED <<now, session, brk, entry, request, audit, req, got>>
         /\ pc'[r] = l
         /\ OwnerOf(req[r].target)' = OwnerOf(req[r].target)
         /\ IntervalOf(req[r].target)' = IntervalOf(req[r].target)
         /\ Filled(r)' = Filled(r)
         /\ Overlaps(req[r].target, Filled(r))' <=> Overlaps(req[r].target, Filled(r))
  <1>1. StepTypeOK
    BY DEF SerialIInv
  <1>2. UNCHANGED <<vars, req, got, overwritten>>
    BY DEF Ask
  <1>3. UNCHANGED <<now, session, brk, entry, request, audit, req, got>>
    BY <1>2 DEF vars
  <1>4. Moves(r, l)
    BY <1>1, <1>3 DEF Ask, Moves, StepTypeOK
  <1>5. pc'[r] = l
    BY <1>1, <1>4, MoveFacts
  <1>6. /\ OwnerOf(req[r].target)' = OwnerOf(req[r].target)
        /\ IntervalOf(req[r].target)' = IntervalOf(req[r].target)
    BY <1>3 DEF OwnerOf, BreakOwner, IntervalOf
  <1>7. Filled(r)' = Filled(r)
    BY <1>3 DEF Filled
  <1>8. Overlaps(req[r].target, Filled(r))' <=> Overlaps(req[r].target, Filled(r))
    BY <1>3, <1>7 DEF Overlaps
  <1>9. QED
    BY <1>2, <1>3, <1>4, <1>5, <1>6, <1>7, <1>8

\* The queries after which a handler goes on.
LEMMA QueryKeeps ==
  ASSUME SerialIInv, NEW r \in Slots,
         RequestFind(r) \/ DecideFind(r) \/ ApproveOverlap(r) \/ DirectOverlap(r)
  PROVE  SerialIInv'
  <1> USE DEF Inserting, Deciding, Undecided, Direct, Owing, Labels
  <1>1. SlotKnows(r)
    BY DEF SerialIInv
  <1>2. ASSUME NEW l \in Labels, Ask(r, l), pc[r] # "idle", pc[r] \notin Owing,
               SlotKnows(r)'
        PROVE  SerialIInv'
    BY <1>2, AskFacts, StillKeeps
  <1>3. CASE RequestFind(r)
    <2>1. CASE Refuse(r)
      BY <1>3, <2>1, RefuseKeeps DEF RequestFind
    <2>2. CASE Ask(r, "request.create") /\ OwnerOf(req[r].target) = req[r].user
      <3>1. SlotKnows(r)'
        BY <1>1, <1>3, <2>2, AskFacts DEF RequestFind, SlotKnows
      <3>2. QED
        BY <1>2, <1>3, <2>2, <3>1 DEF RequestFind
    <2>3. QED
      BY <1>3, <2>1, <2>2 DEF RequestFind
  <1>4. CASE DecideFind(r)
    <2>1. CASE Refuse(r)
      BY <1>4, <2>1, RefuseKeeps DEF DecideFind
    <2>2. ASSUME NEW l \in {"approve", "reject"}, Ask(r, l),
                 request[req[r].request].status = "PENDING"
          PROVE  SerialIInv'
      <3>1. SlotKnows(r)'
        BY <1>1, <1>4, <2>2, AskFacts DEF DecideFind, SlotKnows
      <3>2. QED
        BY <1>2, <1>4, <2>2, <3>1 DEF DecideFind
    <2>3. QED
      BY <1>4, <2>1, <2>2 DEF DecideFind
  <1>5. CASE ApproveOverlap(r)
    <2>1. CASE Refuse(r)
      BY <1>5, <2>1, RefuseKeeps DEF ApproveOverlap
    <2>2. CASE Ask(r, "approve.apply") /\ ~Overlaps(req[r].target, Filled(r))
      <3>1. SlotKnows(r)'
        BY <1>1, <1>5, <2>2, AskFacts DEF ApproveOverlap, SlotKnows
      <3>2. QED
        BY <1>2, <1>5, <2>2, <3>1 DEF ApproveOverlap
    <2>3. QED
      BY <1>5, <2>1, <2>2 DEF ApproveOverlap, CheckOverlap, Filled
  <1>6. CASE DirectOverlap(r)
    <2>1. CASE Refuse(r)
      BY <1>6, <2>1, RefuseKeeps DEF DirectOverlap
    <2>2. CASE Ask(r, "direct.apply") /\ ~Overlaps(req[r].target, Filled(r))
      <3>1. SlotKnows(r)'
        BY <1>1, <1>6, <2>2, AskFacts DEF DirectOverlap, SlotKnows
      <3>2. QED
        BY <1>2, <1>6, <2>2, <3>1 DEF DirectOverlap
    <2>3. QED
      BY <1>6, <2>1, <2>2 DEF DirectOverlap, CheckOverlap
  <1>7. QED
    BY <1>3, <1>4, <1>5, <1>6

\* What a slot reads of its target.
LEMMA ReadFacts ==
  ASSUME SerialIInv, NEW r \in Slots, pc[r] # "idle", NEW l \in Labels \ {"idle"},
         NEW i \in Interval, i = IntervalOf(req[r].target),
         \/ got' = [got EXCEPT ![r].before = i]
         \/ got' = [got EXCEPT ![r].after = i],
         GoTo(r, l), UNCHANGED <<vars, req, overwritten>>
  PROVE  /\ Moves(r, l) /\ UNCHANGED vars /\ UNCHANGED overwritten
         /\ UNCHANGED <<now, session, brk, entry, request, audit, req>>
         /\ pc'[r] = l
         /\ OwnerOf(req[r].target)' = OwnerOf(req[r].target)
         /\ IntervalOf(req[r].target)' = i
         /\ got' = [got EXCEPT ![r].before = i] => got'[r].before = i
         /\ got' = [got EXCEPT ![r].after = i] =>
               got'[r].after = i /\ got'[r].before = got[r].before
  <1>1. StepTypeOK
    BY DEF SerialIInv
  <1>2. UNCHANGED <<now, session, brk, entry, request, audit, req, overwritten>>
    BY DEF vars
  <1>3. /\ got' \in [Slots -> [before : Interval, after : Interval]]
        /\ \A o \in Slots \ {r} : got'[o] = got[o]
    BY <1>1 DEF StepTypeOK
  <1>4. Moves(r, l)
    BY <1>2, <1>3 DEF Moves
  <1>5. pc'[r] = l
    BY <1>1, <1>4, MoveFacts
  <1>6. /\ OwnerOf(req[r].target)' = OwnerOf(req[r].target)
        /\ IntervalOf(req[r].target)' = IntervalOf(req[r].target)
    BY <1>2 DEF OwnerOf, BreakOwner, IntervalOf
  <1>7. /\ got' = [got EXCEPT ![r].before = i] => got'[r].before = i
        /\ got' = [got EXCEPT ![r].after = i] =>
              got'[r].after = i /\ got'[r].before = got[r].before
    BY <1>1 DEF StepTypeOK
  <1>8. QED
    BY <1>2, <1>4, <1>5, <1>6, <1>7

LEMMA ReadKeeps ==
  ASSUME SerialIInv, NEW r \in Slots,
         ApproveFind(r) \/ DirectFind(r) \/ ApproveReadAfter(r)
  PROVE  SerialIInv'
  <1> USE DEF Inserting, Deciding, Undecided, Direct, Owing, Labels
  <1>1. /\ SlotKnows(r) /\ pc[r] # "idle" /\ StepTypeOK /\ RecordsTypeOK
        /\ req[r].target \in Targets
    BY DEF SerialIInv, SlotAlone, ApproveFind, DirectFind, ApproveReadAfter, Sound,
       Recorded
  <1>2. PICK i \in Interval : i = IntervalOf(req[r].target)
    BY <1>1, IntervalType
  <1>3. CASE ApproveFind(r)
    <2>1. /\ got' = [got EXCEPT ![r].before = i]
          /\ GoTo(r, "approve.overlap") /\ UNCHANGED <<vars, req, overwritten>>
      BY <1>2, <1>3 DEF ApproveFind, ReadBefore
    <2>2. /\ Moves(r, "approve.overlap") /\ UNCHANGED vars /\ UNCHANGED overwritten
          /\ UNCHANGED <<request, req>>
          /\ pc'[r] = "approve.overlap"
          /\ got'[r].before = i /\ IntervalOf(req[r].target)' = i
      BY <1>1, <1>2, <2>1, ReadFacts
    <2>3. SlotKnows(r)'
      BY <1>1, <1>3, <2>2 DEF ApproveFind, SlotKnows
    <2>4. QED
      BY <1>1, <1>3, <2>2, <2>3, StillKeeps DEF ApproveFind
  <1>4. CASE DirectFind(r)
    <2>1. /\ got' = [got EXCEPT ![r].before = i]
          /\ GoTo(r, "direct.overlap") /\ UNCHANGED <<vars, req, overwritten>>
      BY <1>2, <1>4 DEF DirectFind, ReadBefore
    <2>2. /\ Moves(r, "direct.overlap") /\ UNCHANGED vars /\ UNCHANGED overwritten
          /\ UNCHANGED <<request, req>>
          /\ pc'[r] = "direct.overlap"
          /\ got'[r].before = i /\ IntervalOf(req[r].target)' = i
      BY <1>1, <1>2, <2>1, ReadFacts
    <2>3. SlotKnows(r)'
      BY <1>1, <1>4, <2>2 DEF DirectFind, SlotKnows
    <2>4. QED
      BY <1>1, <1>4, <2>2, <2>3, StillKeeps DEF DirectFind
  <1>5. CASE ApproveReadAfter(r)
    <2>1. /\ got' = [got EXCEPT ![r].after = i]
          /\ GoTo(r, "approve.status") /\ UNCHANGED <<vars, req, overwritten>>
      BY <1>2, <1>5 DEF ApproveReadAfter
    <2>2. /\ Moves(r, "approve.status") /\ UNCHANGED vars /\ UNCHANGED overwritten
          /\ UNCHANGED <<request, req>>
          /\ pc'[r] = "approve.status"
          /\ got'[r].after = i /\ got'[r].before = got[r].before
      BY <1>1, <1>2, <2>1, ReadFacts
    <2>3. i = Filled(r) /\ Filled(r)' = Filled(r)
      BY <1>1, <1>2, <1>5, <2>2 DEF ApproveReadAfter, SlotKnows, Filled
    <2>4. SlotKnows(r)'
      BY <1>1, <1>5, <2>2, <2>3 DEF ApproveReadAfter, SlotKnows
    <2>5. QED
      BY <1>1, <1>5, <2>2, <2>4, StillKeeps DEF ApproveReadAfter
  <1>6. QED
    BY <1>3, <1>4, <1>5

\* The update of the target, with the interval that is replaced.
LEMMA ApplyKeeps ==
  ASSUME SerialIInv, NEW r \in Slots,
         \/ ApproveApply(r)
         \/ DirectApply(r)
  PROVE  SerialIInv'
  <1> DEFINE l == IF pc[r] = "approve.apply" THEN "approve.after" ELSE "direct.create"
  <1>1. /\ StepTypeOK /\ TypeOK /\ Sound /\ OwnersKnown /\ OnRecord /\ SlotKnows(r)
        /\ pc[r] \in {"approve.apply", "direct.apply"}
        /\ req[r].target \in Recorded
        /\ req[r].proposed \in Interval
    BY DEF SerialIInv, StepTypeOK, SlotAlone, ApproveApply, DirectApply, Asked
  <1>2. PICK x \in Recorded, p \in Interval :
           /\ x = req[r].target
           /\ p = IF pc[r] = "approve.apply" THEN req[r].proposed ELSE Filled(r)
    BY <1>1, FilledType
  <1>3. /\ ApplyCorrection(x, p)
        /\ overwritten' = overwritten \cup {<<x, IntervalOf(x)>>}
        /\ GoTo(r, l)
        /\ UNCHANGED <<now, request, audit, req, got>>
    BY <1>2 DEF ApproveApply, DirectApply, Apply
  <1>4. x \in Targets /\ got[r].before = IntervalOf(x) /\ IntervalOf(x) \in Interval
    BY <1>1, <1>2, IntervalType DEF Recorded, SlotKnows, Sound
  <1>5. Sound' /\ RowsKept
    BY <1>1, <1>3, AppliedSound
  <1>6. TypeOK'
    BY <1>1, <1>3, <1>5 DEF TypeOK, Sound
  <1>7. PICK u \in Users : u = OwnerOf(x)
    BY <1>1, OwnerIsUser
  <1>8. OnlyOf(u)
    BY <1>1, <1>3, <1>7, AppliedOnlyOf
  <1>9. OwnersKnown'
    BY <1>1, <1>5, <1>8, OwnersKept
  <1>10. l \in Labels /\ l # "idle" /\ l \in Owing
    BY DEF Labels, Owing
  <1>11. Moves(r, l)
    BY <1>1, <1>3 DEF Moves, StepTypeOK
  <1>12. /\ pc'[r] = l
         /\ \A o \in Slots \ {r} : pc'[o] = pc[o]
    BY <1>1, <1>10, <1>11, MoveFacts
  <1>13. OnRecord'
    <2>1. \A o \in overwritten :
             \/ \E a \in audit' : a.target = o[1] /\ a.before = o[2]
             \/ \E q \in Slots : /\ pc'[q] \in Owing
                                 /\ req'[q].target = o[1] /\ got'[q].before = o[2]
      BY <1>1, <1>3, <1>10, <1>12 DEF OnRecord
    <2>2. pc'[r] \in Owing /\ req'[r].target = x /\ got'[r].before = IntervalOf(x)
      BY <1>2, <1>3, <1>4, <1>10, <1>12
    <2>3. QED
      BY <1>3, <2>1, <2>2 DEF OnRecord
  <1>14. pc'[r] = "approve.after" => IntervalOf(req[r].target)' = Filled(r)'
    <2> SUFFICES ASSUME pc[r] = "approve.apply"
                 PROVE  IntervalOf(req[r].target)' = Filled(r)'
      BY <1>12
    <2>1. IntervalOf(x)' = Patched(IntervalOf(x), p)
      BY <1>1, <1>3, <1>4, AppliedIntervals DEF Sound
    <2>2. Filled(r)' = Patched(IntervalOf(x), p)
      BY <1>2, <1>3, <1>4 DEF Filled
    <2>3. req'[r].target = x
      BY <1>2, <1>3
    <2>4. QED
      BY <2>1, <2>2, <2>3, Primed
  <1>15. SlotKnows(r)'
    BY <1>1, <1>3, <1>12, <1>14
    DEF SlotKnows, Inserting, Deciding, Undecided, Direct
  <1> HIDE DEF l
  <1>16. pc[r] # "idle"
    BY <1>1
  <1>17. QED
    BY <1>2, <1>3, <1>5, <1>6, <1>7, <1>8, <1>9, <1>10, <1>11, <1>13, <1>15, <1>16,
       ActKeeps

\* The insert or the update of a request.
LEMMA RequestWriteKeeps ==
  ASSUME SerialIInv, NEW r \in Slots,
         \/ RequestCreate(r) \/ DirectCreate(r) \/ RejectWrite(r) \/ ApproveStatus(r)
  PROVE  SerialIInv'
  <1> DEFINE id == req[r].request
  <1>1. /\ StepTypeOK /\ TypeOK /\ Sound /\ OwnersKnown /\ OnRecord /\ SlotKnows(r)
        /\ id \in Requests /\ req[r] \in Asked /\ req[r].target \in Targets
        /\ request[id] \in RequestRow
        /\ Filled(r) \in Interval
        /\ pc[r] \in {"request.create", "direct.create", "reject", "approve.status"}
    BY FilledType
    DEF SerialIInv, StepTypeOK, TypeOK, SlotAlone, Recorded, RequestCreate,
        DirectCreate, RejectWrite, ApproveStatus
  <1>2. PICK row \in RequestRow, l \in Labels :
           /\ request' = [request EXCEPT ![id] = row]
           /\ GoTo(r, l)
           /\ UNCHANGED <<now, session, brk, entry, audit, req, got, overwritten>>
           /\ \/ /\ pc[r] = "request.create" /\ l = "request.audit"
                 /\ row.status = "PENDING" /\ row.target = req[r].target
              \/ /\ pc[r] = "direct.create" /\ l = "direct.audit"
                 /\ row.status = "APPROVED" /\ row.target = req[r].target
              \/ /\ pc[r] = "reject" /\ l = "reject.audit"
                 /\ row.status = "REJECTED" /\ row.target = request[id].target
              \/ /\ pc[r] = "approve.status" /\ l = "approve.audit"
                 /\ row.status = "APPROVED" /\ row.target = request[id].target
    <2>1. CASE RequestCreate(r)
      <3> DEFINE row == [status |-> "PENDING", target |-> req[r].target,
                         requestedById |-> req[r].user, proposed |-> req[r].proposed]
      <3>1. row \in RequestRow /\ row.status = "PENDING" /\ row.target = req[r].target
        BY <1>1 DEF RequestRow, Asked
      <3>2. QED
        BY <2>1, <3>1 DEF RequestCreate, Create, Labels
    <2>2. CASE DirectCreate(r)
      <3> DEFINE row == [status |-> "APPROVED", target |-> req[r].target,
                         requestedById |-> req[r].user, proposed |-> Filled(r)]
      <3>1. row \in RequestRow /\ row.status = "APPROVED" /\ row.target = req[r].target
        BY <1>1 DEF RequestRow, Asked
      <3>2. QED
        BY <2>2, <3>1 DEF DirectCreate, Create, Labels
    <2>3. CASE RejectWrite(r)
      <3> DEFINE row == [request[id] EXCEPT !.status = "REJECTED"]
      <3>1. row \in RequestRow /\ row.status = "REJECTED" /\ row.target = request[id].target
        BY <1>1 DEF RequestRow
      <3>2. QED
        BY <2>3, <3>1 DEF RejectWrite, SetStatus, Labels
    <2>4. CASE ApproveStatus(r)
      <3> DEFINE row == [request[id] EXCEPT !.status = "APPROVED"]
      <3>1. row \in RequestRow /\ row.status = "APPROVED" /\ row.target = request[id].target
        BY <1>1 DEF RequestRow
      <3>2. QED
        BY <2>4, <3>1 DEF ApproveStatus, SetStatus, Labels
    <2>5. QED
      BY <2>1, <2>2, <2>3, <2>4
  <1>3. /\ request' \in [Requests -> RequestRow]
        /\ request'[id] = row
        /\ \A q \in Requests : q # id => request'[q] = request[q]
    BY <1>1, <1>2 DEF TypeOK
  <1>4. /\ TypeOK' /\ Sound' /\ OwnersKnown' /\ OnlyOf(None) /\ RowsKept
    BY <1>1, <1>2, <1>3
    DEF TypeOK, Sound, RecordsTypeOK, BreaksHeld, EntryStamps, OneOpenPerOwner,
        OwnersKnown, OnlyOf, RowsKept
  <1>5. Moves(r, l) /\ l # "idle"
    BY <1>1, <1>2 DEF Moves, StepTypeOK
  <1>6. pc'[r] = l /\ \A o \in Slots \ {r} : pc'[o] = pc[o]
    BY <1>1, <1>5, MoveFacts
  <1>7. row.target = req[r].target
    BY <1>1, <1>2 DEF SlotKnows, Inserting
  <1>8. OnRecord'
    <2>1. \A o \in Slots : pc[o] \in Owing => pc'[o] \in Owing
      BY <1>2, <1>6 DEF Owing
    <2>2. QED
      BY <1>1, <1>2, <2>1 DEF OnRecord
  <1>9. Filled(r)' = Filled(r)
    BY <1>2 DEF Filled
  <1>10. SlotKnows(r)'
    BY <1>1, <1>2, <1>3, <1>6, <1>7, <1>9
    DEF SlotKnows, Inserting, Deciding, Undecided, Direct
  <1>11. pc[r] # "idle"
    BY <1>1
  <1>12. QED
    BY <1>3, <1>4, <1>5, <1>7, <1>8, <1>10, <1>11, ActKeeps

\* The audit row, the last write of every handler.
LEMMA AuditKeeps ==
  ASSUME SerialIInv, NEW r \in Slots,
         \/ RequestAudit(r) \/ RejectAudit(r) \/ ApproveAudit(r) \/ DirectAudit(r)
  PROVE  SerialIInv'
  <1>1. /\ StepTypeOK /\ TypeOK /\ Sound /\ OwnersKnown /\ OnRecord /\ SlotKnows(r)
        /\ req[r].request \in Requests /\ req[r].target \in Targets
        /\ Filled(r) \in Interval /\ Unset \in Interval
        /\ got[r].before \in Interval /\ got[r].after \in Interval
        /\ pc[r] # "idle"
    BY FilledType
    DEF SerialIInv, StepTypeOK, SlotAlone, Recorded, RequestAudit, RejectAudit,
        ApproveAudit, DirectAudit, Unset, Interval, Stamp
  <1>2. PICK row \in AuditRow :
           /\ audit' = audit \cup {row}
           /\ row.target = req[r].target
           /\ pc[r] \in Owing => row.before = got[r].before
           /\ Finish(r)
           /\ UNCHANGED <<now, session, brk, entry, request, overwritten>>
    <2>1. ASSUME NEW action \in {"CORRECTION_REQUESTED", "CORRECTION_REJECTED",
                                 "CORRECTION_APPROVED", "ADMIN_DIRECT_CORRECTION"},
                 NEW before \in Interval, NEW after \in Interval,
                 Audit(r, action, before, after),
                 pc[r] \in Owing => before = got[r].before
          PROVE  \E row \in AuditRow :
                    /\ audit' = audit \cup {row}
                    /\ row.target = req[r].target
                    /\ pc[r] \in Owing => row.before = got[r].before
                    /\ Finish(r)
                    /\ UNCHANGED <<now, session, brk, entry, request, overwritten>>
      <3> DEFINE row == [action |-> action, request |-> req[r].request,
                         target |-> req[r].target, before |-> before, after |-> after]
      <3>1. row \in AuditRow /\ row.target = req[r].target /\ row.before = before
        BY <1>1 DEF AuditRow
      <3>2. audit' = audit \cup {row}
        BY <2>1 DEF Audit, AuditRecord
      <3> HIDE DEF row
      <3>3. QED
        BY <2>1, <3>1, <3>2 DEF Audit
    <2>2. CASE RequestAudit(r)
      BY <1>1, <2>1, <2>2 DEF RequestAudit, Owing
    <2>3. CASE RejectAudit(r)
      BY <1>1, <2>1, <2>3 DEF RejectAudit, Owing
    <2>4. CASE ApproveAudit(r)
      BY <1>1, <2>1, <2>4 DEF ApproveAudit
    <2>5. CASE DirectAudit(r)
      BY <1>1, <2>1, <2>5 DEF DirectAudit
    <2>6. QED
      BY <2>2, <2>3, <2>4, <2>5
  <1>3. TypeOK' /\ Sound' /\ OwnersKnown' /\ OnlyOf(None) /\ RowsKept
    BY <1>1, <1>2
    DEF TypeOK, Sound, RecordsTypeOK, BreaksHeld, EntryStamps, OneOpenPerOwner,
        OwnersKnown, OnlyOf, RowsKept
  <1>4. "idle" \in Labels /\ Moves(r, "idle")
    BY <1>2 DEF Labels, Moves, Finish
  <1>5. /\ pc'[r] = "idle"
        /\ \A o \in Slots \ {r} : pc'[o] = pc[o] /\ req'[o] = req[o] /\ got'[o] = got[o]
    BY <1>1, <1>4, MoveFacts
  <1>6. OnRecord'
    <2> SUFFICES ASSUME NEW o \in overwritten
                 PROVE  \/ \E a \in audit' : a.target = o[1] /\ a.before = o[2]
                        \/ \E q \in Slots : /\ pc'[q] \in Owing
                                            /\ req'[q].target = o[1]
                                            /\ got'[q].before = o[2]
      BY <1>2 DEF OnRecord
    <2>1. CASE \E a \in audit : a.target = o[1] /\ a.before = o[2]
      BY <1>2, <2>1
    <2>2. ASSUME NEW q \in Slots, pc[q] \in Owing, req[q].target = o[1],
                 got[q].before = o[2]
          PROVE  \/ \E a \in audit' : a.target = o[1] /\ a.before = o[2]
                 \/ \E p \in Slots : /\ pc'[p] \in Owing
                                     /\ req'[p].target = o[1]
                                     /\ got'[p].before = o[2]
      BY <1>2, <1>5, <2>2
    <2>3. QED
      BY <1>1, <2>1, <2>2 DEF OnRecord
  <1>7. SlotKnows(r)'
    BY <1>5 DEF SlotKnows
  <1>8. QED
    BY <1>1, <1>2, <1>3, <1>4, <1>6, <1>7, ActKeeps

\* A request to a corrections endpoint about a record of a user nobody else is at
\* work on.
LEMMA ReceiveKeeps ==
  ASSUME SerialIInv, NEW r \in Slots, Receive(r),
         \A q \in Slots \ {r} : pc[q] # "idle" =>
            OwnerOf(req[q].target) # OwnerOf(req'[r].target)
  PROVE  SerialIInv'
  <1>1. /\ StepTypeOK /\ TypeOK /\ Sound /\ OwnersKnown /\ TargetsRecorded /\ OnRecord
        /\ \A o \in Slots : SlotAlone(o) /\ SlotKnows(o)
        /\ pc[r] = "idle"
        /\ UNCHANGED <<now, session, brk, entry, request, audit, got, overwritten>>
    BY DEF SerialIInv, StepTypeOK, Receive, vars
  <1>2. PICK in \in Asked, l \in {"request", "direct", "decide"} :
           /\ req' = [req EXCEPT ![r] = in]
           /\ GoTo(r, l)
           /\ in.target \in Recorded /\ in.request \in Requests
           /\ l = "request" => /\ in.request \in Fresh
                               /\ in.proposed \in Proposals /\ in.user \in Users
           /\ l = "direct" => /\ in.request \in Fresh
                              /\ in.proposed \in Proposals /\ in.user \in Admins
           /\ l = "decide" => /\ request[in.request].status # "ABSENT"
                              /\ request[in.request].target = in.target
                              /\ request[in.request].proposed = in.proposed
    <2>1. ASSUME NEW u \in Users, NEW q \in Fresh, NEW x \in Recorded,
                 NEW p \in Proposals, NEW b \in BOOLEAN
          PROVE  [request |-> q, user |-> u, target |-> x, proposed |-> p,
                  approve |-> b] \in Asked
      BY CorrectionAssumption DEF Asked, Fresh, Recorded
    <2>2. CASE \E u \in Users, q \in Fresh, x \in Recorded, p \in Proposals :
                  /\ req' = [req EXCEPT ![r] = [request |-> q, user |-> u,
                        target |-> x, proposed |-> p, approve |-> FALSE]]
                  /\ GoTo(r, "request")
      <3> PICK u \in Users, q \in Fresh, x \in Recorded, p \in Proposals :
                  /\ req' = [req EXCEPT ![r] = [request |-> q, user |-> u,
                        target |-> x, proposed |-> p, approve |-> FALSE]]
                  /\ GoTo(r, "request")
        BY <2>2
      <3> DEFINE in == [request |-> q, user |-> u, target |-> x, proposed |-> p,
                        approve |-> FALSE]
      <3>1. /\ in \in Asked /\ in.target = x /\ in.request = q /\ in.proposed = p
            /\ in.user = u /\ q \in Requests
        BY <2>1 DEF Fresh
      <3>2. req' = [req EXCEPT ![r] = in]
        OBVIOUS
      <3> HIDE DEF in
      <3>3. QED
        BY <3>1, <3>2
    <2>3. CASE \E a \in Admins, q \in Fresh, x \in Recorded, p \in Proposals :
                  /\ req' = [req EXCEPT ![r] = [request |-> q, user |-> a,
                        target |-> x, proposed |-> p, approve |-> TRUE]]
                  /\ GoTo(r, "direct")
      <3> PICK a \in Admins, q \in Fresh, x \in Recorded, p \in Proposals :
                  /\ req' = [req EXCEPT ![r] = [request |-> q, user |-> a,
                        target |-> x, proposed |-> p, approve |-> TRUE]]
                  /\ GoTo(r, "direct")
        BY <2>3
      <3> DEFINE in == [request |-> q, user |-> a, target |-> x, proposed |-> p,
                        approve |-> TRUE]
      <3>1. /\ in \in Asked /\ in.target = x /\ in.request = q /\ in.proposed = p
            /\ in.user = a /\ q \in Requests
        BY <2>1, CorrectionAssumption DEF Fresh
      <3>2. req' = [req EXCEPT ![r] = in]
        OBVIOUS
      <3> HIDE DEF in
      <3>3. QED
        BY <3>1, <3>2
    <2>4. CASE \E a \in Admins, q \in Requests, ok \in BOOLEAN :
                  /\ request[q].status # "ABSENT"
                  /\ req' = [req EXCEPT ![r] = [request |-> q, user |-> a,
                        target |-> request[q].target,
                        proposed |-> request[q].proposed, approve |-> ok]]
                  /\ GoTo(r, "decide")
      <3> PICK a \in Admins, q \in Requests, ok \in BOOLEAN :
                  /\ request[q].status # "ABSENT"
                  /\ req' = [req EXCEPT ![r] = [request |-> q, user |-> a,
                        target |-> request[q].target,
                        proposed |-> request[q].proposed, approve |-> ok]]
                  /\ GoTo(r, "decide")
        BY <2>4
      <3> DEFINE in == [request |-> q, user |-> a, target |-> request[q].target,
                        proposed |-> request[q].proposed, approve |-> ok]
      <3>1. /\ request[q].target \in Recorded /\ request[q].proposed \in Interval
        BY <1>1 DEF TargetsRecorded, TypeOK, RequestRow
      <3>2. /\ in \in Asked /\ in.target = request[q].target /\ in.request = q
            /\ in.proposed = request[q].proposed
        BY <3>1, CorrectionAssumption DEF Asked, Recorded
      <3>3. req' = [req EXCEPT ![r] = in]
        OBVIOUS
      <3> HIDE DEF in
      <3>4. QED
        BY <3>1, <3>2, <3>3
    <2>5. QED
      BY <2>2, <2>3, <2>4 DEF Receive
  <1>3. /\ req' \in [Slots -> Asked] /\ req'[r] = in
        /\ pc' \in [Slots -> Labels] /\ pc'[r] = l
        /\ \A o \in Slots \ {r} : pc'[o] = pc[o] /\ req'[o] = req[o] /\ got'[o] = got[o]
    BY <1>1, <1>2 DEF StepTypeOK, GoTo, Labels
  <1>4. /\ TypeOK' /\ Sound' /\ OwnersKnown' /\ OnlyOf(None) /\ RowsKept
        /\ StepTypeOK'
    BY <1>1, <1>3
    DEF StepTypeOK, TypeOK, Sound, RecordsTypeOK, BreaksHeld, EntryStamps,
        OneOpenPerOwner, OwnersKnown, OnlyOf, RowsKept
  <1>5. OnRecord'
    BY <1>1, <1>3 DEF OnRecord, Owing
  <1>6. Recorded' = Recorded
    BY <1>1 DEF Recorded, StatusOf
  <1>7. TargetsRecorded'
    BY <1>1, <1>6 DEF TargetsRecorded
  <1>8. ASSUME NEW o \in Slots, NEW x, x = req'[o].target
        PROVE  OwnerOf(req[o].target)' = OwnerOf(x)
    BY <1>1, <1>8 DEF OwnerOf, BreakOwner
  <1>9. ASSUME NEW o \in Slots \ {r}, pc[o] # "idle"
        PROVE  /\ OwnerOf(req[o].target) # OwnerOf(in.target)
               /\ req[o].request # in.request
    <2>1. OwnerOf(req[o].target) # OwnerOf(in.target)
      BY <1>3, <1>9
    <2>2. CASE in.request \in Fresh
      BY <2>1, <2>2 DEF Fresh
    <2>3. CASE in.request \notin Fresh
      BY <1>1, <1>2, <1>9, <2>1, <2>3 DEF SlotAlone, SlotKnows, Inserting
    <2>4. QED
      BY <2>1, <2>2, <2>3
  <1>10. ASSUME NEW o \in Slots \ {r} PROVE SlotAlone(o)' /\ SlotKnows(o)'
    <2>1. ASSUME pc[o] # "idle"
          PROVE  /\ OwnerOf(req[o].target) # None
                 /\ request'[req[o].request] = request[req[o].request]
                 /\ \A i \in Slots \ {o} : pc'[i] # "idle" =>
                       /\ OwnerOf(req[i].target)' # OwnerOf(req[o].target)
                       /\ req'[i].request # req[o].request
      <3>1. req[o].target \in Recorded
        BY <1>1, <2>1 DEF SlotAlone
      <3>2. OwnerOf(req[o].target) # None
        BY <1>1, <3>1, OwnerIsUser, NoneAssumption
      <3>3. ASSUME NEW i \in Slots \ {o}, pc'[i] # "idle"
            PROVE  /\ OwnerOf(req[i].target)' # OwnerOf(req[o].target)
                   /\ req'[i].request # req[o].request
        <4>1. CASE i = r
          BY <1>3, <1>8, <1>9, <1>10, <2>1, <4>1
        <4>2. CASE i # r
          BY <1>1, <1>3, <1>8, <2>1, <3>3, <4>2 DEF SlotAlone
        <4>3. QED
          BY <4>1, <4>2
      <3>4. QED
        BY <1>1, <3>2, <3>3
    <2>2. pc'[o] = pc[o] /\ req'[o] = req[o] /\ got'[o] = got[o]
      BY <1>3, <1>10
    <2>3. QED
      BY <1>4, <2>1, <2>2, OtherKnows
  <1>11. SlotAlone(r)'
    <2>1. /\ OwnerOf(req[r].target)' = OwnerOf(in.target)
          /\ \A o \in Slots \ {r} : OwnerOf(req[o].target)' = OwnerOf(req[o].target)
      BY <1>3, <1>8
    <2>2. ASSUME NEW o \in Slots \ {r}, pc'[o] # "idle"
          PROVE  /\ OwnerOf(req[o].target)' # OwnerOf(req[r].target)'
                 /\ req'[o].request # req'[r].request
      BY <1>3, <1>9, <2>1, <2>2
    <2>3. QED
      BY <1>2, <1>3, <1>6, <2>2 DEF SlotAlone
  <1>12. SlotKnows(r)'
    BY <1>1, <1>2, <1>3
    DEF SlotKnows, Inserting, Deciding, Undecided, Direct, Fresh
  <1>13. QED
    BY <1>4, <1>5, <1>7, <1>10, <1>11, <1>12 DEF SerialIInv

\* The working day of a user nobody is correcting, and the clock.
LEMMA OthersKeep ==
  ASSUME SerialIInv, UNCHANGED <<pc, req, got, overwritten, request, audit>>,
         RecordsTypeOK', Sound', RowsKept, OwnersKnown', NEW u, OnlyOf(u),
         \A r \in Slots : pc[r] # "idle" => OwnerOf(req[r].target) # u
  PROVE  SerialIInv'
  <1>1. /\ StepTypeOK /\ TypeOK /\ OwnersKnown /\ TargetsRecorded /\ OnRecord
        /\ \A o \in Slots : SlotAlone(o) /\ SlotKnows(o)
    BY DEF SerialIInv, StepTypeOK
  <1>2. StepTypeOK' /\ OnRecord'
    BY <1>1 DEF StepTypeOK, TypeOK, OnRecord
  <1>3. TargetsRecorded'
    BY <1>1, RecordedKept DEF TargetsRecorded
  <1>4. ASSUME NEW o \in Slots PROVE SlotAlone(o)' /\ SlotKnows(o)'
    <2>1. ASSUME pc[o] # "idle", NEW i \in Slots \ {o}, pc'[i] # "idle"
          PROVE  /\ OwnerOf(req[i].target)' # OwnerOf(req[o].target)
                 /\ req'[i].request # req[o].request
      <3>1. PICK y \in Recorded : y = req[i].target
        BY <1>1, <2>1 DEF SlotAlone
      <3>2. OwnerOf(y)' = OwnerOf(y)
        BY <1>1, Framed
      <3>3. OwnerOf(req[i].target)' = OwnerOf(req[i].target)
        BY <3>1, <3>2, Primed
      <3>4. QED
        BY <1>1, <2>1, <3>3 DEF SlotAlone
    <2>2. QED
      BY <2>1, OtherKnows
  <1>5. QED
    BY <1>2, <1>3, <1>4 DEF SerialIInv

LEMMA InitSerial == StepInit => SerialIInv
  <1> SUFFICES ASSUME StepInit PROVE SerialIInv
    OBVIOUS
  <1>1. IInv
    BY InitIInv DEF StepInit
  <1>2. /\ NotAsked \in Asked /\ NothingRead \in [before : Interval, after : Interval]
        /\ "idle" \in Labels
    BY DEF NotAsked, Asked, NothingRead, Interval, Unset, Stamp, Labels
  <1>3. StepTypeOK
    BY <1>1, <1>2 DEF StepInit, IInv, StepTypeOK
  <1>4. OwnersKnown
    BY DEF StepInit, Init, RecordsInit, NoSession, NoBreak, NoEntry, OwnersKnown
  <1>5. OnRecord /\ \A r \in Slots : SlotAlone(r) /\ SlotKnows(r)
    BY DEF StepInit, OnRecord, SlotAlone, SlotKnows
  <1>6. QED
    BY <1>1, <1>3, <1>4, <1>5 DEF IInv, SerialIInv

\* Every step, and stuttering.
LEMMA SerialKept ==
  SerialIInv /\ [SerialNext]_stepVars => SerialIInv'
  <1> SUFFICES ASSUME SerialIInv, [SerialNext]_stepVars PROVE SerialIInv'
    OBVIOUS
  <1>1. /\ StepTypeOK /\ TypeOK /\ RecordsTypeOK /\ Sound /\ OwnersKnown
        /\ \A r \in Slots : pc[r] # "idle" => req[r].target \in Recorded
    BY DEF SerialIInv, StepTypeOK, TypeOK, SlotAlone
  <1>2. ASSUME UNCHANGED <<session, brk, entry, request, audit>>, now' \in Nat,
               UNCHANGED <<pc, req, got, overwritten>>
        PROVE  SerialIInv'
    <2>1. RecordsTypeOK' /\ Sound' /\ OwnersKnown' /\ OnlyOf(None) /\ RowsKept
      BY <1>1, <1>2 DEF RecordsTypeOK, Sound, BreaksHeld, EntryStamps, OneOpenPerOwner,
         OwnersKnown, OnlyOf, RowsKept
    <2>2. \A r \in Slots : pc[r] # "idle" => OwnerOf(req[r].target) # None
      BY <1>1, OwnerIsUser, NoneAssumption
    <2>3. QED
      BY <1>2, <2>1, <2>2, OthersKeep
  <1>3. CASE UNCHANGED stepVars
    BY <1>1, <1>2, <1>3 DEF stepVars, vars, RecordsTypeOK
  <1>4. CASE PassTime /\ UNCHANGED <<pc, req, got, overwritten>>
    BY <1>1, <1>2, <1>4 DEF PassTime, Tick, RecordsTypeOK
  <1>5. ASSUME NEW u \in Users, Work(u), UNCHANGED <<pc, req, got, overwritten>>,
               \A r \in Slots : pc[r] # "idle" => OwnerOf(req[r].target) # u
        PROVE  SerialIInv'
    <2>1. Sound' /\ RowsKept /\ OnlyOf(u)
      BY <1>1, <1>5, WorkSound, WorkOnlyOf
    <2>2. OwnersKnown'
      BY <1>1, <2>1, OwnersKept
    <2>3. UNCHANGED <<request, audit>> /\ RecordsTypeOK'
      BY <1>5, <2>1 DEF Work, Sound
    <2>4. QED
      BY <1>5, <2>1, <2>2, <2>3, OthersKeep
  <1>6. ASSUME NEW r \in Slots, Step(r) PROVE SerialIInv'
    BY <1>6, QueryKeeps, ReadKeeps, ApplyKeeps, RequestWriteKeeps, AuditKeeps DEF Step
  <1>7. ASSUME NEW r \in Slots, pc[r] \notin Underway, Lost(r) PROVE SerialIInv'
    BY <1>7, RefuseKeeps DEF Lost, Underway, Owing
  <1>8. ASSUME NEW r \in Slots, Receive(r),
               \A q \in Slots \ {r} : pc[q] # "idle" =>
                  OwnerOf(req[q].target) # OwnerOf(req'[r].target)
        PROVE  SerialIInv'
    BY <1>8, ReceiveKeeps
  <1>9. QED
    BY <1>3, <1>4, <1>5, <1>6, <1>7, <1>8 DEF SerialNext

\* What a handler has read of its target and its request still holds when it
\* writes, if a user's record is read and written by one request at a time.
THEOREM SerialReadsHold == SerialSpec => []SerialIInv
  BY InitSerial, SerialKept, PTL DEF SerialSpec

\* BR-012, one database call at a time: with nothing under way, every interval that
\* a correction has replaced is on the audit trail.
THEOREM ReplacedOnRecord == SerialSpec => []OriginalsOnRecord
  <1>1. SerialIInv => OriginalsOnRecord
    BY DEF SerialIInv, OnRecord, OriginalsOnRecord, Owing
  <1>2. QED
    BY <1>1, SerialReadsHold, PTL

\* decide: a request is approved or rejected once.
THEOREM DecisionsStand == SerialSpec => DecidedOnce
  <1> DEFINE Decided == \A q \in Requests :
                           request[q].status \in {"APPROVED", "REJECTED"} =>
                              request'[q].status = request[q].status
  <1>1. SerialIInv /\ [SerialNext]_stepVars => [Decided]_request
    <2> SUFFICES ASSUME SerialIInv, SerialNext, ~UNCHANGED request, NEW q \in Requests,
                        request[q].status \in {"APPROVED", "REJECTED"}
                 PROVE  request'[q].status = request[q].status
      BY DEF stepVars, vars
    <2>1. PICK r \in Slots : RequestCreate(r) \/ RejectWrite(r) \/ ApproveStatus(r)
                               \/ DirectCreate(r)
      BY DEF SerialNext, PassTime, Work, Receive, Step, Lost, Refuse, vars, RequestFind,
         DecideFind, Ask, RequestAudit, RejectAudit, ApproveFind, ReadBefore,
         ApproveOverlap, CheckOverlap, ApproveApply, Apply, ApproveReadAfter,
         ApproveAudit, DirectFind, DirectOverlap, DirectApply, DirectAudit, Audit
    <2>2. /\ SlotKnows(r) /\ request \in [Requests -> RequestRow]
          /\ pc[r] # "idle"
      BY <2>1 DEF SerialIInv, StepTypeOK, TypeOK, RequestCreate, RejectWrite,
         ApproveStatus, DirectCreate
    <2>3. request[req[r].request].status \in {"ABSENT", "PENDING"}
      BY <2>1, <2>2 DEF RequestCreate, RejectWrite, ApproveStatus, DirectCreate,
         SlotKnows, Inserting, Undecided, Deciding
    <2>4. q # req[r].request
      BY <2>3
    <2>5. request'[q] = request[q]
      BY <2>1, <2>2, <2>4 DEF RequestCreate, RejectWrite, ApproveStatus, DirectCreate,
         Create, SetStatus
    <2>6. QED
      BY <2>5
  <1>2. QED
    BY <1>1, SerialReadsHold, PTL DEF SerialSpec, DecidedOnce

----------------------------------------------------------------------------
(* CorrectionRequests, so served, does what Corrections promises: every    *)
(* step is a step of Corrections, or none.                                 *)

\* The operators of the abstract specification over the records are those of the
\* detailed one.
LEMMA PromiseSame ==
  /\ Promise!Recorded = Recorded
  /\ \A x : Promise!OwnerOf(x) = OwnerOf(x) /\ Promise!IntervalOf(x) = IntervalOf(x)
  /\ \A x, i : Promise!Overlaps(x, i) <=> Overlaps(x, i)
  /\ \A i, p : Promise!Patched(i, p) = Patched(i, p)
  /\ Promise!Unset = Unset
  <1>1. Promise!Recorded = Recorded
    BY DEF Promise!Recorded, Recorded, Promise!Targets, Targets, Promise!StatusOf, StatusOf
  <1>2. ASSUME NEW x
        PROVE  Promise!OwnerOf(x) = OwnerOf(x) /\ Promise!IntervalOf(x) = IntervalOf(x)
    BY DEF Promise!OwnerOf, OwnerOf, Promise!BreakOwner, BreakOwner,
       Promise!IntervalOf, IntervalOf
  <1>3. ASSUME NEW x, NEW i PROVE Promise!Overlaps(x, i) <=> Overlaps(x, i)
    BY DEF Promise!Overlaps, Overlaps, Promise!NoStamp, NoStamp
  <1>4. ASSUME NEW i, NEW p PROVE Promise!Patched(i, p) = Patched(i, p)
    BY DEF Promise!Patched, Patched, Promise!Or, Or, Promise!NoStamp, NoStamp
  <1>5. Promise!Unset = Unset
    BY DEF Promise!Unset, Unset, Promise!NoStamp, NoStamp
  <1>6. QED
    BY <1>1, <1>2, <1>3, <1>4, <1>5

LEMMA PromiseApply ==
  ASSUME NEW x, NEW p, ApplyCorrection(x, p)
  PROVE  Promise!ApplyCorrection(x, p)
  BY DEF Promise!ApplyCorrection, ApplyCorrection, Promise!Or, Or, Promise!NoStamp,
     NoStamp

LEMMA PromiseServe ==
  ASSUME NEW u, Day!ServeAt(u, now)
  PROVE  Promise!Day!ServeAt(u, now)
  <1>1. Day!ClockIn(u, now) => Promise!Day!ClockIn(u, now)
    BY DEF Promise!Day!ClockIn, Day!ClockIn, Promise!Day!OpenSessions, Day!OpenSessions,
       Promise!Day!SessionsIn, Day!SessionsIn, Promise!Day!Open, Day!Open,
       Promise!Day!NewSession, Day!NewSession, Promise!Day!NoStamp, Day!NoStamp
  <1>2. Day!ClockOut(u, now) => Promise!Day!ClockOut(u, now)
    BY DEF Promise!Day!ClockOut, Day!ClockOut, Promise!Day!OpenSessions, Day!OpenSessions,
       Promise!Day!SessionsIn, Day!SessionsIn, Promise!Day!Open, Day!Open,
       Promise!Day!ClosedEntries, Day!ClosedEntries, Promise!Day!RunningEntries,
       Day!RunningEntries, Promise!Day!EndedBreaks, Day!EndedBreaks,
       Promise!Day!ActiveBreaks, Day!ActiveBreaks, Promise!Day!ClockedOut,
       Day!ClockedOut
  <1>3. Day!StartBreak(u, now) => Promise!Day!StartBreak(u, now)
    BY DEF Promise!Day!StartBreak, Day!StartBreak, Promise!Day!SessionsIn, Day!SessionsIn,
       Promise!Day!NewBreak, Day!NewBreak, Promise!Day!NoStamp, Day!NoStamp,
       Promise!Day!ClosedEntries, Day!ClosedEntries, Promise!Day!RunningEntries,
       Day!RunningEntries
  <1>4. Day!EndBreak(u, now) => Promise!Day!EndBreak(u, now)
    BY DEF Promise!Day!EndBreak, Day!EndBreak, Promise!Day!SessionsIn, Day!SessionsIn,
       Promise!Day!EndedBreaks, Day!EndedBreaks, Promise!Day!ActiveBreaks,
       Day!ActiveBreaks
  <1>5. Day!StopTimer(u, now) => Promise!Day!StopTimer(u, now)
    BY DEF Promise!Day!StopTimer, Day!StopTimer, Promise!Day!ClosedEntries, Day!ClosedEntries,
       Promise!Day!RunningEntries, Day!RunningEntries
  <1>6. ASSUME NEW k \in Tasks, Day!StartTimer(u, k, now)
        PROVE  Promise!Day!StartTimer(u, k, now)
    BY <1>6 DEF Promise!Day!StartTimer, Day!StartTimer, Promise!Day!SessionsIn, Day!SessionsIn,
       Promise!Day!RunningEntries, Day!RunningEntries, Promise!Day!NewEntry,
       Day!NewEntry, Promise!Day!NoStamp, Day!NoStamp
  <1>7. ASSUME NEW k \in Tasks, Day!SwitchTask(u, k, now)
        PROVE  Promise!Day!SwitchTask(u, k, now)
    BY <1>7 DEF Promise!Day!SwitchTask, Day!SwitchTask, Promise!Day!SessionsIn, Day!SessionsIn,
       Promise!Day!RunningEntries, Day!RunningEntries, Promise!Day!NewEntry,
       Day!NewEntry, Promise!Day!NoStamp, Day!NoStamp, Promise!Day!ClosedEntries,
       Day!ClosedEntries
  <1>8. QED
    BY <1>1, <1>2, <1>3, <1>4, <1>5, <1>6, <1>7 DEF Promise!Day!ServeAt, Day!ServeAt

\* The row, as decided, of the request in the hands of slot r, and the audit trail
\* with the rows still to be inserted.
DecidedRow(r) ==
    LET id == req[r].request
    IN  IF pc[r] \in {"approve.after", "approve.status"}
        THEN [request[id] EXCEPT !.status = "APPROVED"]
        ELSE IF pc[r] = "direct.create"
        THEN [status |-> "APPROVED", target |-> req[r].target,
              requestedById |-> req[r].user, proposed |-> Filled(r)]
        ELSE request[id]
AuditAsPromised == audit \cup UNION {AuditOf(r) : r \in Slots}

\* A request is in the hands of one slot at most, so the mapping looks at that one.
DecidedView ==
    /\ RequestAsDecided = [q \in Requests |-> RequestAsDecided[q]]
    /\ \A r \in Slots : pc[r] # "idle" => RequestAsDecided[req[r].request] = DecidedRow(r)
    /\ \A q \in Requests : (\A r \in Slots : pc[r] # "idle" => req[r].request # q) =>
          RequestAsDecided[q] = request[q]

LEMMA DecidedViewHolds == SerialIInv => DecidedView
  <1> SUFFICES ASSUME SerialIInv PROVE DecidedView
    OBVIOUS
  <1>1. \A r \in Slots : SlotAlone(r)
    BY DEF SerialIInv
  <1>2. RequestAsDecided = [q \in Requests |-> RequestAsDecided[q]]
    BY DEF RequestAsDecided
  <1>3. ASSUME NEW r \in Slots, pc[r] # "idle"
        PROVE  RequestAsDecided[req[r].request] = DecidedRow(r)
    <2> DEFINE id == req[r].request
    <2>1. id \in Requests /\ \A s \in Slots : pc[s] # "idle" /\ req[s].request = id => s = r
      BY <1>1, <1>3 DEF SlotAlone
    <2>2. CASE pc[r] \in {"approve.after", "approve.status"}
      BY <2>1, <2>2 DEF RequestAsDecided, DecidedRow
    <2>3. CASE pc[r] = "direct.create"
      <3> DEFINE c == CHOOSE s \in Slots : req[s].request = id /\ pc[s] = "direct.create"
      <3>1. c \in Slots /\ req[c].request = id /\ pc[c] = "direct.create"
        BY <2>3
      <3>2. c = r
        BY <2>1, <3>1
      <3>3. RequestAsDecided[id] =
               [status |-> "APPROVED", target |-> req[c].target,
                requestedById |-> req[c].user, proposed |-> Filled(c)]
        <4>1. ~\E s \in Slots : /\ req[s].request = id
                                /\ pc[s] \in {"approve.after", "approve.status"}
          BY <2>1, <2>3
        <4>2. QED
          BY <2>1, <2>3, <4>1 DEF RequestAsDecided
      <3> HIDE DEF c
      <3>4. QED
        BY <2>3, <3>2, <3>3 DEF DecidedRow
    <2>4. CASE pc[r] \notin {"approve.after", "approve.status", "direct.create"}
      BY <2>1, <2>4 DEF RequestAsDecided, DecidedRow
    <2>5. QED
      BY <2>2, <2>3, <2>4
  <1>4. ASSUME NEW q \in Requests, \A r \in Slots : pc[r] # "idle" => req[r].request # q
        PROVE  RequestAsDecided[q] = request[q]
    BY <1>4 DEF RequestAsDecided
  <1>5. QED
    BY <1>2, <1>3, <1>4 DEF DecidedView

\* What a step of slot r does to the requests as decided.
LEMMA DecidedMapped ==
  ASSUME SerialIInv, DecidedView, DecidedView',
         NEW r \in Slots, pc[r] # "idle", NEW l \in Labels, Moves(r, l),
         \A q \in Requests : q # req[r].request => request'[q] = request[q]
  PROVE  LET id == req[r].request
             row == IF l = "idle" THEN request'[id] ELSE DecidedRow(r)'
         IN  /\ RequestAsDecided' = [RequestAsDecided EXCEPT ![id] = row]
             /\ RequestAsDecided[id] = DecidedRow(r)
             /\ row = DecidedRow(r) => RequestAsDecided' = RequestAsDecided
  <1> DEFINE id == req[r].request
             row == IF l = "idle" THEN request'[id] ELSE DecidedRow(r)'
  <1>1. /\ id \in Requests
        /\ \A o \in Slots \ {r} : pc[o] # "idle" => req[o].request # id
        /\ \A o \in Slots \ {r} : pc'[o] = pc[o] /\ req'[o] = req[o] /\ got'[o] = got[o]
        /\ pc'[r] = l
        /\ l # "idle" => req' = req
    BY MoveFacts DEF SerialIInv, SlotAlone
  <1>2. RequestAsDecided[id] = DecidedRow(r)
    BY DEF DecidedView
  <1>3. RequestAsDecided'[id] = row
    BY <1>1 DEF DecidedView
  <1>4. ASSUME NEW q \in Requests, q # id
        PROVE  RequestAsDecided'[q] = RequestAsDecided[q]
    <2>1. request'[q] = request[q]
      BY <1>4
    <2>2. CASE \E o \in Slots \ {r} : pc[o] # "idle" /\ req[o].request = q
      <3> PICK o \in Slots \ {r} : pc[o] # "idle" /\ req[o].request = q
        BY <2>2
      <3>1. DecidedRow(o)' = DecidedRow(o)
        BY <1>1, <2>1 DEF DecidedRow, Filled
      <3>2. QED
        BY <1>1, <3>1 DEF DecidedView
    <2>3. CASE \A o \in Slots \ {r} : pc[o] # "idle" => req[o].request # q
      <3>1. RequestAsDecided[q] = request[q]
        BY <1>4, <2>3 DEF DecidedView
      <3>2. RequestAsDecided'[q] = request'[q]
        BY <1>1, <1>4, <2>3 DEF DecidedView
      <3>3. QED
        BY <2>1, <3>1, <3>2
    <2>4. QED
      BY <2>2, <2>3
  <1>5. /\ RequestAsDecided = [q \in Requests |-> RequestAsDecided[q]]
        /\ RequestAsDecided' = [q \in Requests |-> RequestAsDecided'[q]]
    BY DEF DecidedView
  <1> HIDE DEF row
  <1>6. RequestAsDecided' = [RequestAsDecided EXCEPT ![id] = row]
    BY <1>1, <1>3, <1>4, <1>5
  <1>7. row = DecidedRow(r) => RequestAsDecided' = RequestAsDecided
    BY <1>1, <1>2, <1>3, <1>4, <1>5
  <1>8. QED
    BY <1>2, <1>6, <1>7 DEF row

\* And to the audit trail: new is what the step promises to put there.
LEMMA AuditMapped ==
  ASSUME StepTypeOK, NEW r \in Slots,
         \A o \in Slots \ {r} : pc'[o] = pc[o] /\ req'[o] = req[o] /\ got'[o] = got[o],
         NEW new, audit' \cup AuditOf(r)' = audit \cup AuditOf(r) \cup new
  PROVE  AuditAsPromised' = AuditAsPromised \cup new
  <1>1. ASSUME NEW o \in Slots \ {r} PROVE AuditOf(o)' = AuditOf(o)
    BY DEF AuditOf, Filled
  <1>2. AuditAsPromised = audit \cup AuditOf(r) \cup UNION {AuditOf(o) : o \in Slots \ {r}}
    BY DEF AuditAsPromised
  <1>3. AuditAsPromised' =
           audit' \cup AuditOf(r)' \cup UNION {AuditOf(o)' : o \in Slots \ {r}}
    BY DEF AuditAsPromised
  <1>4. UNION {AuditOf(o)' : o \in Slots \ {r}} = UNION {AuditOf(o) : o \in Slots \ {r}}
    BY <1>1
  <1>5. QED
    BY <1>2, <1>3, <1>4

\* The audit row a slot has yet to insert.
RowOf(r, action, before, after) ==
    {[action |-> action, request |-> req[r].request, target |-> req[r].target,
      before |-> before, after |-> after]}
Deciders == {"approve.after", "approve.status", "approve.audit"}
Directors == {"direct.create", "direct.audit"}
RowsOwed(r) ==
    /\ pc[r] = "request.audit" =>
          AuditOf(r) = RowOf(r, "CORRECTION_REQUESTED", Unset, Unset)
    /\ pc[r] = "reject.audit" =>
          AuditOf(r) = RowOf(r, "CORRECTION_REJECTED", Unset, Unset)
    /\ pc[r] \in Deciders =>
          AuditOf(r) = RowOf(r, "CORRECTION_APPROVED", got[r].before, Filled(r))
    /\ pc[r] \in Directors =>
          AuditOf(r) = RowOf(r, "ADMIN_DIRECT_CORRECTION", got[r].before, Filled(r))
    /\ pc[r] \notin Deciders \cup Directors \cup {"request.audit", "reject.audit"} =>
          AuditOf(r) = {}

LEMMA RowsOwedHold ==
  ASSUME NEW r PROVE RowsOwed(r)
  <1>1. pc[r] = "request.audit" =>
           AuditOf(r) = RowOf(r, "CORRECTION_REQUESTED", Unset, Unset)
    BY DEF AuditOf, RowOf
  <1>2. pc[r] = "reject.audit" =>
           AuditOf(r) = RowOf(r, "CORRECTION_REJECTED", Unset, Unset)
    BY DEF AuditOf, RowOf
  <1>3. pc[r] \in Deciders =>
           AuditOf(r) = RowOf(r, "CORRECTION_APPROVED", got[r].before, Filled(r))
    BY DEF AuditOf, RowOf, Filled, Deciders
  <1>4. pc[r] \in Directors =>
           AuditOf(r) = RowOf(r, "ADMIN_DIRECT_CORRECTION", got[r].before, Filled(r))
    BY DEF AuditOf, RowOf, Directors
  <1>5. pc[r] \notin Deciders \cup Directors \cup {"request.audit", "reject.audit"} =>
           AuditOf(r) = {}
    BY DEF AuditOf, Deciders, Directors
  <1>6. QED
    BY <1>1, <1>2, <1>3, <1>4, <1>5 DEF RowsOwed

LEMMA RowsOwedNext ==
  ASSUME NEW r PROVE RowsOwed(r)'
  <1>1. (pc[r] = "request.audit" =>
            AuditOf(r) = RowOf(r, "CORRECTION_REQUESTED", Unset, Unset))'
    BY DEF AuditOf, RowOf
  <1>2. (pc[r] = "reject.audit" =>
            AuditOf(r) = RowOf(r, "CORRECTION_REJECTED", Unset, Unset))'
    BY DEF AuditOf, RowOf
  <1>3. (pc[r] \in Deciders =>
            AuditOf(r) = RowOf(r, "CORRECTION_APPROVED", got[r].before, Filled(r)))'
    BY DEF AuditOf, RowOf, Filled, Deciders
  <1>4. (pc[r] \in Directors =>
            AuditOf(r) = RowOf(r, "ADMIN_DIRECT_CORRECTION", got[r].before, Filled(r)))'
    BY DEF AuditOf, RowOf, Directors
  <1>5. (pc[r] \notin Deciders \cup Directors \cup {"request.audit", "reject.audit"} =>
            AuditOf(r) = {})'
    BY DEF AuditOf, Deciders, Directors
  <1>6. QED
    BY <1>1, <1>2, <1>3, <1>4, <1>5 DEF RowsOwed

\* A step of slot r that the promise does not see.
LEMMA Unseen ==
  ASSUME SerialIInv, DecidedView, DecidedView',
         NEW r \in Slots, pc[r] # "idle", NEW l \in Labels, Moves(r, l),
         UNCHANGED <<now, session, brk, entry>>,
         \A q \in Requests : q # req[r].request => request'[q] = request[q],
         DecidedRow(r) = IF l = "idle" THEN request'[req[r].request] ELSE DecidedRow(r)',
         audit' \cup AuditOf(r)' = audit \cup AuditOf(r)
  PROVE  UNCHANGED Promise!vars
  <1>1. RequestAsDecided' = RequestAsDecided
    BY DecidedMapped
  <1>2. AuditAsPromised' = AuditAsPromised \cup {}
    <2>1. /\ StepTypeOK
          /\ \A o \in Slots \ {r} : pc'[o] = pc[o] /\ req'[o] = req[o] /\ got'[o] = got[o]
      BY MoveFacts DEF SerialIInv
    <2>2. audit' \cup AuditOf(r)' = audit \cup AuditOf(r) \cup {}
      OBVIOUS
    <2>3. QED
      BY <2>1, <2>2, AuditMapped
  <1>3. AuditAsPromised' = AuditAsPromised
    BY <1>2
  <1>4. QED
    BY <1>1, <1>3 DEF Promise!vars, AuditAsPromised

\* A query, a read, a refusal: nothing but the slot changes.
LEMMA QueryUnseen ==
  ASSUME SerialIInv, DecidedView, DecidedView',
         NEW r \in Slots, pc[r] # "idle", NEW l \in Labels, Moves(r, l), UNCHANGED vars,
         \/ pc[r] \notin Underway /\ l \notin Underway
         \/ pc[r] = "approve.after" /\ l = "approve.status" /\ got'[r].before = got[r].before
  PROVE  UNCHANGED Promise!vars
  <1>1. /\ UNCHANGED <<now, session, brk, entry, request, audit>>
        /\ pc'[r] = l /\ (l # "idle" => req' = req)
    BY MoveFacts DEF vars, SerialIInv
  <1>2. RowsOwed(r) /\ RowsOwed(r)'
    BY RowsOwedHold, RowsOwedNext
  <1>3. DecidedRow(r) = IF l = "idle" THEN request'[req[r].request] ELSE DecidedRow(r)'
    BY <1>1 DEF DecidedRow, Underway
  <1>4. AuditOf(r)' = AuditOf(r)
    <2>1. CASE pc[r] \notin Underway /\ l \notin Underway
      BY <1>1, <1>2, <2>1 DEF RowsOwed, Underway, Deciders, Directors
    <2>2. CASE pc[r] = "approve.after" /\ l = "approve.status" /\ got'[r].before = got[r].before
      BY <1>1, <1>2, <2>2 DEF RowsOwed, Deciders, RowOf, Filled
    <2>3. QED
      BY <2>1, <2>2
  <1>5. QED
    BY <1>1, <1>3, <1>4, Unseen

LEMMA RefuseUnseen ==
  ASSUME SerialIInv, DecidedView, DecidedView',
         NEW r \in Slots, pc[r] # "idle", Refuse(r),
         pc[r] \notin Underway
  PROVE  UNCHANGED Promise!vars
  <1>1. /\ Moves(r, "idle") /\ UNCHANGED vars
        /\ "idle" \in Labels /\ "idle" \notin Underway
    BY DEF Refuse, Finish, Moves, Labels, Underway
  <1>2. QED
    BY <1>1, QueryUnseen

LEMMA QueriesUnseen ==
  ASSUME SerialIInv, DecidedView, DecidedView', NEW r \in Slots,
         \/ RequestFind(r) \/ DecideFind(r) \/ ApproveOverlap(r) \/ DirectOverlap(r)
         \/ ApproveFind(r) \/ DirectFind(r) \/ ApproveReadAfter(r)
  PROVE  UNCHANGED Promise!vars
  <1> USE DEF Underway, Labels
  <1>1. StepTypeOK
    BY DEF SerialIInv
  <1>2. ASSUME pc[r] # "idle", Refuse(r), pc[r] \notin Underway
        PROVE  UNCHANGED Promise!vars
    BY <1>2, RefuseUnseen
  <1>3. ASSUME NEW l \in Labels, Ask(r, l), pc[r] # "idle",
               pc[r] \notin Underway, l \notin Underway
        PROVE  UNCHANGED Promise!vars
    BY <1>3, AskFacts, QueryUnseen
  <1>4. ASSUME NEW l \in Labels \ {"idle"}, ReadBefore(r, l), pc[r] # "idle",
               pc[r] \notin Underway, l \notin Underway
        PROVE  UNCHANGED Promise!vars
    <2>1. PICK i \in Interval : i = IntervalOf(req[r].target)
      BY <1>4, IntervalType DEF SerialIInv, SlotAlone, StepTypeOK, TypeOK, Recorded
    <2>2. Moves(r, l) /\ UNCHANGED vars
      BY <1>4, <2>1, ReadFacts DEF ReadBefore
    <2>3. QED
      BY <1>4, <2>2, QueryUnseen
  <1>5. CASE RequestFind(r)
    BY <1>2, <1>3, <1>5 DEF RequestFind
  <1>6. CASE DecideFind(r)
    BY <1>2, <1>3, <1>6 DEF DecideFind
  <1>7. CASE ApproveOverlap(r)
    BY <1>2, <1>3, <1>7 DEF ApproveOverlap, CheckOverlap
  <1>8. CASE DirectOverlap(r)
    BY <1>2, <1>3, <1>8 DEF DirectOverlap, CheckOverlap
  <1>9. CASE ApproveFind(r)
    BY <1>4, <1>9 DEF ApproveFind
  <1>10. CASE DirectFind(r)
    BY <1>4, <1>10 DEF DirectFind
  <1>11. CASE ApproveReadAfter(r)
    <2>1. Moves(r, "approve.status") /\ got'[r].before = got[r].before
      <3>1. req[r].target \in Recorded /\ IntervalOf(req[r].target) \in Interval
        BY <1>11, IntervalType DEF ApproveReadAfter, SerialIInv, SlotAlone, StepTypeOK,
           TypeOK, Recorded
      <3>2. QED
        BY <1>1, <1>11, <3>1 DEF ApproveReadAfter, Moves, StepTypeOK
    <2>2. UNCHANGED vars /\ pc[r] = "approve.after"
      BY <1>11 DEF ApproveReadAfter
    <2>3. QED
      BY <2>1, <2>2, QueryUnseen
  <1>12. QED
    BY <1>5, <1>6, <1>7, <1>8, <1>9, <1>10, <1>11

\* A status or a row that was already counted.
LEMMA WriteUnseen ==
  ASSUME SerialIInv, DecidedView, DecidedView', NEW r \in Slots,
         ApproveStatus(r) \/ DirectCreate(r)
  PROVE  UNCHANGED Promise!vars
  <1> DEFINE id == req[r].request
             l == IF pc[r] = "approve.status" THEN "approve.audit" ELSE "direct.audit"
  <1>1. /\ StepTypeOK /\ request \in [Requests -> RequestRow]
        /\ pc[r] \in {"approve.status", "direct.create"} /\ id \in Requests
    BY DEF SerialIInv, StepTypeOK, TypeOK, SlotAlone, ApproveStatus, DirectCreate
  <1>2. /\ l \in Labels /\ GoTo(r, l)
        /\ UNCHANGED <<now, session, brk, entry, audit, req, got>>
    BY <1>1 DEF Labels, ApproveStatus, SetStatus, DirectCreate, Create
  <1>3. Moves(r, l) /\ pc'[r] = l
    BY <1>1, <1>2 DEF Moves, GoTo, StepTypeOK
  <1>4. /\ \A q \in Requests : q # id => request'[q] = request[q]
        /\ request'[id] = DecidedRow(r)
    BY <1>1 DEF DecidedRow, ApproveStatus, SetStatus, DirectCreate, Create, RequestRow
  <1>5. DecidedRow(r)' = request'[id]
    BY <1>1, <1>2, <1>3 DEF DecidedRow
  <1>6. AuditOf(r)' = AuditOf(r)
    <2>1. RowsOwed(r) /\ RowsOwed(r)'
      BY RowsOwedHold, RowsOwedNext
    <2>2. QED
      BY <1>1, <1>2, <1>3, <2>1 DEF RowsOwed, Deciders, Directors, RowOf, Filled
  <1>7. QED
    BY <1>1, <1>2, <1>3, <1>4, <1>5, <1>6, Unseen

\* The audit rows, which were counted with what they are about.
LEMMA AuditUnseen ==
  ASSUME SerialIInv, DecidedView, DecidedView', NEW r \in Slots,
         RequestAudit(r) \/ RejectAudit(r) \/ ApproveAudit(r) \/ DirectAudit(r)
  PROVE  UNCHANGED Promise!vars
  <1>1. /\ pc[r] \in {"request.audit", "reject.audit", "approve.audit", "direct.audit"}
        /\ StepTypeOK /\ SlotKnows(r)
        /\ Finish(r) /\ UNCHANGED <<now, session, brk, entry, request>>
    BY DEF SerialIInv, RequestAudit, RejectAudit, ApproveAudit, DirectAudit, Audit
  <1>2. Moves(r, "idle") /\ "idle" \in Labels
    BY <1>1 DEF Moves, Finish, Labels
  <1>3. pc'[r] = "idle"
    BY <1>1, <1>2, MoveFacts
  <1>4. RowsOwed(r) /\ RowsOwed(r)'
    BY RowsOwedHold, RowsOwedNext
  <1>5. AuditOf(r)' = {}
    BY <1>3, <1>4 DEF RowsOwed, Deciders, Directors
  <1>6. audit' = audit \cup AuditOf(r)
    <2>1. CASE RequestAudit(r)
      BY <1>4, <2>1 DEF RequestAudit, Audit, AuditRecord, RowsOwed, RowOf
    <2>2. CASE RejectAudit(r)
      BY <1>4, <2>2 DEF RejectAudit, Audit, AuditRecord, RowsOwed, RowOf
    <2>3. CASE ApproveAudit(r)
      BY <1>1, <1>4, <2>3 DEF ApproveAudit, Audit, AuditRecord, RowsOwed, RowOf, Deciders,
         SlotKnows
    <2>4. CASE DirectAudit(r)
      BY <1>4, <2>4 DEF DirectAudit, Audit, AuditRecord, RowsOwed, RowOf, Directors
    <2>5. QED
      BY <2>1, <2>2, <2>3, <2>4
  <1>7. DecidedRow(r) = request'[req[r].request]
    BY <1>1 DEF DecidedRow
  <1>8. QED
    BY <1>1, <1>2, <1>5, <1>6, <1>7, Unseen

\* The steps that take effect: of a request, a rejection, an approval, a direct
\* correction, each together with its audit row.
LEMMA RequestCreateSeen ==
  ASSUME SerialIInv, DecidedView, DecidedView', NEW r \in Slots, RequestCreate(r)
  PROVE  Promise!Next
  <1> DEFINE id == req[r].request
             x == req[r].target
             p == req[r].proposed
             u == req[r].user
             row == [status |-> "PENDING", target |-> x, requestedById |-> u,
                     proposed |-> p]
  <1>1. /\ StepTypeOK /\ SlotKnows(r) /\ request \in [Requests -> RequestRow]
        /\ pc[r] = "request.create" /\ id \in Requests /\ x \in Recorded
    BY DEF SerialIInv, StepTypeOK, TypeOK, SlotAlone, RequestCreate
  <1>2. /\ request[id].status = "ABSENT" /\ u \in Users /\ p \in Proposals
        /\ OwnerOf(x) = u
    BY <1>1 DEF SlotKnows, Inserting
  <1>3. /\ "request.audit" \in Labels /\ Moves(r, "request.audit")
        /\ UNCHANGED <<now, session, brk, entry, audit, req, got>>
        /\ request' = [request EXCEPT ![id] = row]
    BY <1>1 DEF Labels, Moves, RequestCreate, Create, StepTypeOK
  <1>4. /\ pc'[r] = "request.audit"
        /\ \A o \in Slots \ {r} : pc'[o] = pc[o] /\ req'[o] = req[o] /\ got'[o] = got[o]
        /\ request'[id] = row
        /\ \A q \in Requests : q # id => request'[q] = request[q]
    BY <1>1, <1>3, MoveFacts
  <1>5. DecidedRow(r)' = row /\ DecidedRow(r) = request[id]
    BY <1>1, <1>3, <1>4 DEF DecidedRow
  <1>6. /\ RequestAsDecided' = [RequestAsDecided EXCEPT ![id] = row]
        /\ RequestAsDecided[id] = request[id]
    BY <1>1, <1>3, <1>4, <1>5, DecidedMapped
  <1>7. AuditAsPromised' = AuditAsPromised \cup
           {[action |-> "CORRECTION_REQUESTED", request |-> id, target |-> x,
             before |-> Unset, after |-> Unset]}
    <2>1. RowsOwed(r) /\ RowsOwed(r)'
      BY RowsOwedHold, RowsOwedNext
    <2>2. AuditOf(r) = {} /\ AuditOf(r)' = RowOf(r, "CORRECTION_REQUESTED", Unset, Unset)
      BY <1>1, <1>3, <1>4, <2>1 DEF RowsOwed, Deciders, Directors, RowOf
    <2>3. audit' \cup AuditOf(r)' =
             audit \cup AuditOf(r) \cup RowOf(r, "CORRECTION_REQUESTED", Unset, Unset)
      BY <1>3, <2>2
    <2>4. QED
      BY <1>1, <1>4, <2>3, AuditMapped DEF RowOf
  <1>8. Promise!RequestCorrection(u, id, x, p)
    BY <1>1, <1>2, <1>3, <1>6, <1>7, PromiseSame
       DEF Promise!RequestCorrection, Promise!AuditRecord, AuditAsPromised
  <1>9. QED
    BY <1>1, <1>2, <1>8, PromiseSame DEF Promise!Next

LEMMA RejectWriteSeen ==
  ASSUME SerialIInv, DecidedView, DecidedView', NEW r \in Slots, RejectWrite(r)
  PROVE  Promise!Next
  <1> DEFINE id == req[r].request
             x == req[r].target
             row == [request[id] EXCEPT !.status = "REJECTED"]
  <1>1. /\ StepTypeOK /\ SlotKnows(r) /\ request \in [Requests -> RequestRow]
        /\ pc[r] = "reject" /\ id \in Requests
    BY DEF SerialIInv, StepTypeOK, TypeOK, SlotAlone, RejectWrite
  <1>2. request[id].status = "PENDING" /\ request[id].target = x
    BY <1>1 DEF SlotKnows, Undecided, Deciding, Inserting
  <1>3. /\ "reject.audit" \in Labels /\ Moves(r, "reject.audit")
        /\ UNCHANGED <<now, session, brk, entry, audit, req, got>>
        /\ request' = [request EXCEPT ![id].status = "REJECTED"]
    BY <1>1 DEF Labels, Moves, RejectWrite, SetStatus, StepTypeOK
  <1>4. /\ pc'[r] = "reject.audit"
        /\ \A o \in Slots \ {r} : pc'[o] = pc[o] /\ req'[o] = req[o] /\ got'[o] = got[o]
        /\ request'[id] = row
        /\ \A q \in Requests : q # id => request'[q] = request[q]
    BY <1>1, <1>3, MoveFacts
  <1>5. DecidedRow(r)' = row /\ DecidedRow(r) = request[id]
    BY <1>1, <1>3, <1>4 DEF DecidedRow
  <1>6. /\ RequestAsDecided' = [RequestAsDecided EXCEPT ![id] = row]
        /\ RequestAsDecided[id] = request[id]
    BY <1>1, <1>3, <1>4, <1>5, DecidedMapped
  <1>7. AuditAsPromised' = AuditAsPromised \cup
           {[action |-> "CORRECTION_REJECTED", request |-> id, target |-> x,
             before |-> Unset, after |-> Unset]}
    <2>1. RowsOwed(r) /\ RowsOwed(r)'
      BY RowsOwedHold, RowsOwedNext
    <2>2. AuditOf(r) = {} /\ AuditOf(r)' = RowOf(r, "CORRECTION_REJECTED", Unset, Unset)
      BY <1>1, <1>3, <1>4, <2>1 DEF RowsOwed, Deciders, Directors, RowOf, Underway
    <2>3. audit' \cup AuditOf(r)' =
             audit \cup AuditOf(r) \cup RowOf(r, "CORRECTION_REJECTED", Unset, Unset)
      BY <1>3, <2>2
    <2>4. QED
      BY <1>1, <1>4, <2>3, AuditMapped DEF RowOf
  <1>8. RequestAsDecided' = [RequestAsDecided EXCEPT ![id].status = "REJECTED"]
    BY <1>6
  <1>9. Promise!Reject(id)
    BY <1>1, <1>2, <1>3, <1>6, <1>7, <1>8, PromiseSame
       DEF Promise!Reject, Promise!AuditRecord, AuditAsPromised
  <1>10. QED
    BY <1>1, <1>9 DEF Promise!Next

LEMMA ApproveApplySeen ==
  ASSUME SerialIInv, DecidedView, DecidedView', NEW r \in Slots, ApproveApply(r)
  PROVE  Promise!Next
  <1> DEFINE id == req[r].request
             x == req[r].target
             p == req[r].proposed
             row == [request[id] EXCEPT !.status = "APPROVED"]
  <1>1. /\ StepTypeOK /\ SlotKnows(r) /\ request \in [Requests -> RequestRow]
        /\ pc[r] = "approve.apply" /\ id \in Requests
    BY DEF SerialIInv, StepTypeOK, TypeOK, SlotAlone, ApproveApply
  <1>2. /\ request[id].status = "PENDING" /\ request[id].target = x
        /\ request[id].proposed = p
        /\ got[r].before = IntervalOf(x) /\ ~Overlaps(x, Filled(r))
    BY <1>1 DEF SlotKnows, Undecided, Deciding, Inserting
  <1>3. Filled(r) = Patched(IntervalOf(x), p)
    BY <1>2 DEF Filled
  <1>4. /\ "approve.after" \in Labels /\ Moves(r, "approve.after")
        /\ UNCHANGED <<now, request, audit, req, got>>
        /\ ApplyCorrection(x, p)
    BY <1>1 DEF Labels, Moves, ApproveApply, Apply, StepTypeOK
  <1>5. /\ pc'[r] = "approve.after"
        /\ \A o \in Slots \ {r} : pc'[o] = pc[o] /\ req'[o] = req[o] /\ got'[o] = got[o]
    BY <1>1, <1>4, MoveFacts
  <1>6. DecidedRow(r)' = row /\ DecidedRow(r) = request[id]
    BY <1>1, <1>4, <1>5 DEF DecidedRow
  <1>7. /\ RequestAsDecided' = [RequestAsDecided EXCEPT ![id] = row]
        /\ RequestAsDecided[id] = request[id]
    BY <1>1, <1>4, <1>5, <1>6, DecidedMapped
  <1>8. AuditAsPromised' = AuditAsPromised \cup
           {[action |-> "CORRECTION_APPROVED", request |-> id, target |-> x,
             before |-> got[r].before, after |-> Filled(r)]}
    <2>1. RowsOwed(r) /\ RowsOwed(r)'
      BY RowsOwedHold, RowsOwedNext
    <2>2. /\ AuditOf(r) = {}
          /\ AuditOf(r)' = RowOf(r, "CORRECTION_APPROVED", got[r].before, Filled(r))
      BY <1>1, <1>4, <1>5, <2>1 DEF RowsOwed, Deciders, Directors, RowOf, Filled
    <2>3. audit' \cup AuditOf(r)' = audit \cup AuditOf(r) \cup
             RowOf(r, "CORRECTION_APPROVED", got[r].before, Filled(r))
      BY <1>4, <2>2
    <2>4. QED
      BY <1>1, <1>5, <2>3, AuditMapped DEF RowOf
  <1>9. RequestAsDecided' = [RequestAsDecided EXCEPT ![id].status = "APPROVED"]
    BY <1>7
  <1>10. Promise!ApplyCorrection(x, p)
    BY <1>4, PromiseApply
  <1>11. Promise!Approve(id)
    BY <1>2, <1>3, <1>4, <1>7, <1>8, <1>9, <1>10, PromiseSame
       DEF Promise!Approve, Promise!AuditRecord, AuditAsPromised
  <1>12. QED
    BY <1>1, <1>11 DEF Promise!Next

LEMMA DirectApplySeen ==
  ASSUME SerialIInv, DecidedView, DecidedView', NEW r \in Slots, DirectApply(r)
  PROVE  Promise!Next
  <1> DEFINE id == req[r].request
             x == req[r].target
             p == req[r].proposed
             a == req[r].user
             row == [status |-> "APPROVED", target |-> x, requestedById |-> a,
                     proposed |-> Filled(r)]
  <1>1. /\ StepTypeOK /\ SlotKnows(r) /\ request \in [Requests -> RequestRow]
        /\ pc[r] = "direct.apply" /\ id \in Requests /\ x \in Recorded
    BY DEF SerialIInv, StepTypeOK, TypeOK, SlotAlone, DirectApply
  <1>2. /\ request[id].status = "ABSENT" /\ p \in Proposals /\ a \in Admins
        /\ got[r].before = IntervalOf(x) /\ ~Overlaps(x, Filled(r))
    BY <1>1 DEF SlotKnows, Inserting, Direct
  <1>3. Filled(r) = Patched(IntervalOf(x), p)
    BY <1>2 DEF Filled
  <1>4. /\ "direct.create" \in Labels /\ Moves(r, "direct.create")
        /\ UNCHANGED <<now, request, audit, req, got>>
        /\ ApplyCorrection(x, Filled(r))
    BY <1>1 DEF Labels, Moves, DirectApply, Apply, StepTypeOK
  <1>5. /\ pc'[r] = "direct.create"
        /\ \A o \in Slots \ {r} : pc'[o] = pc[o] /\ req'[o] = req[o] /\ got'[o] = got[o]
    BY <1>1, <1>4, MoveFacts
  <1>6. Filled(r)' = Filled(r)
    BY <1>4 DEF Filled
  <1>7. DecidedRow(r)' = row /\ DecidedRow(r) = request[id]
    BY <1>1, <1>4, <1>5, <1>6 DEF DecidedRow
  <1>8. /\ RequestAsDecided' = [RequestAsDecided EXCEPT ![id] = row]
        /\ RequestAsDecided[id] = request[id]
    BY <1>1, <1>4, <1>5, <1>7, DecidedMapped
  <1>9. AuditAsPromised' = AuditAsPromised \cup
           {[action |-> "ADMIN_DIRECT_CORRECTION", request |-> id, target |-> x,
             before |-> got[r].before, after |-> Filled(r)]}
    <2>1. RowsOwed(r) /\ RowsOwed(r)'
      BY RowsOwedHold, RowsOwedNext
    <2>2. /\ AuditOf(r) = {}
          /\ AuditOf(r)' = RowOf(r, "ADMIN_DIRECT_CORRECTION", got[r].before, Filled(r))
      BY <1>1, <1>4, <1>5, <1>6, <2>1 DEF RowsOwed, Deciders, Directors, RowOf
    <2>3. audit' \cup AuditOf(r)' = audit \cup AuditOf(r) \cup
             RowOf(r, "ADMIN_DIRECT_CORRECTION", got[r].before, Filled(r))
      BY <1>4, <2>2
    <2>4. QED
      BY <1>1, <1>5, <2>3, AuditMapped DEF RowOf
  <1>10. Promise!ApplyCorrection(x, Filled(r))
    BY <1>4, PromiseApply
  <1>11. Promise!DirectCorrection(a, id, x, p)
    BY <1>1, <1>2, <1>3, <1>4, <1>8, <1>9, <1>10, PromiseSame
       DEF Promise!DirectCorrection, Promise!AuditRecord, AuditAsPromised
  <1>12. QED
    BY <1>1, <1>2, <1>11, PromiseSame DEF Promise!Next

LEMMA StepSeen ==
  ASSUME SerialIInv, DecidedView, DecidedView', NEW r \in Slots, Step(r)
  PROVE  Promise!Next \/ UNCHANGED Promise!vars
  BY QueriesUnseen, WriteUnseen, AuditUnseen, RequestCreateSeen, RejectWriteSeen,
     ApproveApplySeen, DirectApplySeen DEF Step

\* A slot that takes a request up has decided nothing.
LEMMA ReceiveUnseen ==
  ASSUME SerialIInv, DecidedView, DecidedView', NEW r \in Slots, Receive(r)
  PROVE  UNCHANGED Promise!vars
  <1>1. /\ pc[r] = "idle" /\ UNCHANGED <<now, session, brk, entry, request, audit, got>>
        /\ StepTypeOK
    BY DEF SerialIInv, Receive, vars
  <1>2. PICK l \in {"request", "direct", "decide"} :
           GoTo(r, l) /\ (\E y : req' = [req EXCEPT ![r] = y])
    BY DEF Receive
  <1>3. /\ \A o \in Slots \ {r} : pc'[o] = pc[o] /\ req'[o] = req[o] /\ got'[o] = got[o]
        /\ pc'[r] = l
    BY <1>1, <1>2 DEF StepTypeOK, GoTo
  <1>4. ASSUME NEW q \in Requests PROVE RequestAsDecided'[q] = RequestAsDecided[q]
    <2>1. CASE \E o \in Slots \ {r} : pc[o] # "idle" /\ req[o].request = q
      <3> PICK o \in Slots \ {r} : pc[o] # "idle" /\ req[o].request = q
        BY <2>1
      <3>1. DecidedRow(o)' = DecidedRow(o)
        BY <1>1, <1>3 DEF DecidedRow, Filled
      <3>2. QED
        BY <1>3, <3>1 DEF DecidedView
    <2>2. CASE \A o \in Slots \ {r} : pc[o] # "idle" => req[o].request # q
      <3>1. RequestAsDecided[q] = request[q]
        BY <1>1, <2>2 DEF DecidedView
      <3>2. CASE req'[r].request = q
        <4>1. DecidedRow(r)' = request[q]
          BY <1>1, <1>3, <3>2 DEF DecidedRow
        <4>2. RequestAsDecided'[q] = DecidedRow(r)'
          BY <1>3, <3>2 DEF DecidedView
        <4>3. QED
          BY <3>1, <4>1, <4>2
      <3>3. CASE req'[r].request # q
        BY <1>1, <1>3, <2>2, <3>1, <3>3 DEF DecidedView
      <3>4. QED
        BY <3>2, <3>3
    <2>3. QED
      BY <2>1, <2>2
  <1>5. RequestAsDecided' = RequestAsDecided
    <2>1. /\ RequestAsDecided = [q \in Requests |-> RequestAsDecided[q]]
          /\ RequestAsDecided' = [q \in Requests |-> RequestAsDecided'[q]]
      BY DEF DecidedView
    <2>2. QED
      BY <1>4, <2>1
  <1>6. AuditAsPromised' = AuditAsPromised \cup {}
    <2>1. RowsOwed(r) /\ RowsOwed(r)'
      BY RowsOwedHold, RowsOwedNext
    <2>2. AuditOf(r) = {} /\ AuditOf(r)' = {}
      BY <1>1, <1>3, <2>1 DEF RowsOwed, Deciders, Directors
    <2>3. audit' \cup AuditOf(r)' = audit \cup AuditOf(r) \cup {}
      BY <1>1, <2>2
    <2>4. QED
      BY <1>1, <1>3, <2>3, AuditMapped
  <1>7. AuditAsPromised' = AuditAsPromised
    BY <1>6
  <1>8. QED
    BY <1>1, <1>5, <1>7 DEF Promise!vars, AuditAsPromised

\* The clock and the working day.
LEMMA OthersSeen ==
  ASSUME UNCHANGED <<request, audit, pc, req, got>>
  PROVE  /\ RequestAsDecided' = RequestAsDecided /\ AuditAsPromised' = AuditAsPromised
         /\ PassTime => Promise!PassTime
         /\ \A u \in Users : Work(u) => Promise!Work(u)
         /\ UNCHANGED <<now, session, brk, entry>> => UNCHANGED Promise!vars
  <1>1. RequestAsDecided' = RequestAsDecided
    BY DEF RequestAsDecided, Filled
  <1>2. AuditAsPromised' = AuditAsPromised
    BY DEF AuditAsPromised, AuditOf, Filled
  <1>3. PassTime => Promise!PassTime
    BY <1>1, <1>2 DEF PassTime, Promise!PassTime, Tick, Promise!Tick, AuditAsPromised
  <1>4. ASSUME NEW u \in Users, Work(u) PROVE Promise!Work(u)
    <2>1. Promise!Day!ServeAt(u, now)
      BY <1>4, PromiseServe DEF Work
    <2>2. QED
      BY <1>1, <1>2, <2>1 DEF Promise!Work, AuditAsPromised
  <1>5. UNCHANGED <<now, session, brk, entry>> => UNCHANGED Promise!vars
    BY <1>1, <1>2 DEF Promise!vars, AuditAsPromised
  <1>6. QED
    BY <1>1, <1>2, <1>3, <1>4, <1>5

LEMMA PromiseInit == StepInit => Promise!Init
  <1> SUFFICES ASSUME StepInit PROVE Promise!Init
    OBVIOUS
  <1>1. Promise!RecordsInit
    BY DEF StepInit, Init, RecordsInit, Promise!RecordsInit, NoSession, Promise!NoSession,
       NoBreak, Promise!NoBreak, NoEntry, Promise!NoEntry, NoStamp, Promise!NoStamp
  <1>2. \A r \in Slots : pc[r] = "idle"
    BY DEF StepInit
  <1>3. RequestAsDecided = [q \in Requests |-> request[q]]
    BY <1>2 DEF RequestAsDecided
  <1>4. RequestAsDecided = [q \in Requests |-> Promise!NoRequest]
    BY <1>3 DEF StepInit, Init, NoRequest, Promise!NoRequest, Unset, Promise!Unset,
       NoStamp, Promise!NoStamp
  <1>5. \A r \in Slots : AuditOf(r) = {}
    BY <1>2, RowsOwedHold DEF RowsOwed, Deciders, Directors
  <1>6. AuditAsPromised = {}
    BY <1>5 DEF AuditAsPromised, StepInit, Init
  <1>7. QED
    BY <1>1, <1>4, <1>6 DEF Promise!Init, AuditAsPromised

LEMMA PromiseStep ==
  SerialIInv /\ DecidedView /\ DecidedView' /\ [SerialNext]_stepVars
     => [Promise!Next]_(Promise!vars)
  <1> SUFFICES ASSUME SerialIInv, DecidedView, DecidedView', [SerialNext]_stepVars
               PROVE  Promise!Next \/ UNCHANGED Promise!vars
    OBVIOUS
  <1>1. CASE UNCHANGED stepVars
    BY <1>1, OthersSeen DEF stepVars, vars
  <1>2. CASE PassTime /\ UNCHANGED <<pc, req, got, overwritten>>
    <2>1. UNCHANGED <<request, audit, pc, req, got>>
      BY <1>2 DEF PassTime
    <2>2. QED
      BY <1>2, <2>1, OthersSeen DEF Promise!Next
  <1>3. ASSUME NEW u \in Users, Work(u), UNCHANGED <<pc, req, got, overwritten>>
        PROVE  Promise!Next
    <2>1. UNCHANGED <<request, audit, pc, req, got>>
      BY <1>3 DEF Work
    <2>2. QED
      BY <1>3, <2>1, OthersSeen DEF Promise!Next
  <1>4. ASSUME NEW r \in Slots, Receive(r) PROVE UNCHANGED Promise!vars
    BY <1>4, ReceiveUnseen
  <1>5. ASSUME NEW r \in Slots, Step(r) PROVE Promise!Next \/ UNCHANGED Promise!vars
    BY <1>5, StepSeen
  <1>6. ASSUME NEW r \in Slots, pc[r] \notin Underway, Lost(r)
        PROVE  Promise!Next \/ UNCHANGED Promise!vars
    BY <1>6, RefuseUnseen DEF Lost, Underway
  <1>7. QED
    BY <1>1, <1>2, <1>3, <1>4, <1>5, <1>6 DEF SerialNext

\* Every database call that CorrectionsService makes between the first and the last
\* of a request is, on the records as decided, one step of the promise or none:
\* handlers that share no record and are not lost half way act as if each took
\* effect at once.
THEOREM PromiseKept == SerialSpec => KeepsPromise
  BY PromiseInit, PromiseStep, SerialReadsHold, DecidedViewHolds, PTL
     DEF SerialSpec, KeepsPromise, Promise!Spec
=============================================================================
