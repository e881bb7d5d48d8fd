---------------------------- MODULE TimeRecords ----------------------------
(***************************************************************************)
(* The three tables the attendance, break and task-timer services share    *)
(* (attendance_sessions, break_records, task_time_entries), the queries    *)
(* those services run on them, and what a consistent record looks like.    *)
(*                                                                         *)
(* A table is a function from the ids it may ever use to rows; an id whose *)
(* row is not yet inserted has status "ABSENT".  Rows are never deleted.   *)
(* A null timestamp is NoStamp, which is below every real one.             *)
(***************************************************************************)
EXTENDS Integers

CONSTANTS
    Users,      \* user ids
    Sessions,   \* attendance session ids
    Breaks,     \* break record ids
    Entries,    \* task time entry ids
    Tasks,      \* task ids
    None,       \* a null id
    MaxTime     \* bound on the server clock

ASSUME NoneAssumption ==
    None \notin Users \cup Sessions \cup Breaks \cup Entries \cup Tasks
ASSUME MaxTimeAssumption == MaxTime \in Nat

VARIABLES
    now,        \* the server clock, in the unit at which handlers read it
    session,    \* table attendance_sessions
    brk,        \* table break_records
    entry       \* table task_time_entries

tables == <<session, brk, entry>>

NoStamp == -1
Stamp == Nat \cup {NoStamp}

SessionRow == [userId : Users \cup {None}, clockInAt : Stamp,
               clockOutAt : Stamp,
               status : {"ABSENT", "ACTIVE", "ON_BREAK", "COMPLETED"}]
BreakRow == [attendanceSessionId : Sessions \cup {None}, startAt : Stamp,
             endAt : Stamp, status : {"ABSENT", "ACTIVE", "COMPLETED"}]
EntryRow == [taskId : Tasks \cup {None}, userId : Users \cup {None},
             attendanceSessionId : Sessions \cup {None}, startAt : Stamp,
             endAt : Stamp, status : {"ABSENT", "RUNNING", "CLOSED"}]

NoSession == [userId |-> None, clockInAt |-> NoStamp,
              clockOutAt |-> NoStamp, status |-> "ABSENT"]
NoBreak == [attendanceSessionId |-> None, startAt |-> NoStamp,
            endAt |-> NoStamp, status |-> "ABSENT"]
NoEntry == [taskId |-> None, userId |-> None, attendanceSessionId |-> None,
            startAt |-> NoStamp, endAt |-> NoStamp, status |-> "ABSENT"]

RecordsTypeOK ==
    /\ now \in Nat
    /\ session \in [Sessions -> SessionRow]
    /\ brk \in [Breaks -> BreakRow]
    /\ entry \in [Entries -> EntryRow]

RecordsInit ==
    /\ now = 0
    /\ session = [s \in Sessions |-> NoSession]
    /\ brk = [b \in Breaks |-> NoBreak]
    /\ entry = [e \in Entries |-> NoEntry]

\* The server clock moves on; MaxTime bounds it.
Tick ==
    /\ now < MaxTime
    /\ now' = now + 1

----------------------------------------------------------------------------
(* The queries.                                                            *)

Open == {"ACTIVE", "ON_BREAK"}

\* Sessions of user u whose status is one of st.
SessionsIn(u, st) ==
    {s \in Sessions : session[s].userId = u /\ session[s].status \in st}

OpenSessions(u) == SessionsIn(u, Open)

ActiveBreaks(s) ==
    {b \in Breaks : brk[b].attendanceSessionId = s /\ brk[b].status = "ACTIVE"}

RunningEntries(u) ==
    {e \in Entries : entry[e].userId = u /\ entry[e].status = "RUNNING"}

\* The rows the services write.
NewSession(u, t) == [userId |-> u, clockInAt |-> t,
                     clockOutAt |-> NoStamp, status |-> "ACTIVE"]
NewBreak(s, t) == [attendanceSessionId |-> s, startAt |-> t,
                   endAt |-> NoStamp, status |-> "ACTIVE"]
NewEntry(u, k, s, t) == [taskId |-> k, userId |-> u, attendanceSessionId |-> s,
                         startAt |-> t, endAt |-> NoStamp,
                         status |-> "RUNNING"]

\* The tables with the given rows closed at time t.
ClosedEntries(ids, t) ==
    [e \in Entries |-> IF e \in ids
        THEN [entry[e] EXCEPT !.endAt = t, !.status = "CLOSED"] ELSE entry[e]]
EndedBreaks(ids, t) ==
    [b \in Breaks |-> IF b \in ids
        THEN [brk[b] EXCEPT !.endAt = t, !.status = "COMPLETED"] ELSE brk[b]]
ClockedOut(s, t) ==
    [session EXCEPT ![s].clockOutAt = t, ![s].status = "COMPLETED"]

\* The user whose attendance session a break belongs to.
BreakOwner(b) == session[brk[b].attendanceSessionId].userId

----------------------------------------------------------------------------
(* What a consistent record looks like.                                    *)

\* The three partial unique indexes of the first migration (BR-002, BR-003):
\* at most one open session and one running timer per user, one active break
\* per session, whatever requests ran in whatever order.
OneOpenPerOwner ==
    /\ \A s, t \in Sessions :
          /\ session[s].status \in Open
          /\ session[t].status \in Open
          /\ session[s].userId = session[t].userId
          => s = t
    /\ \A e, f \in Entries :
          /\ entry[e].status = "RUNNING"
          /\ entry[f].status = "RUNNING"
          /\ entry[e].userId = entry[f].userId
          => e = f
    /\ \A b, c \in Breaks :
          /\ brk[b].status = "ACTIVE"
          /\ brk[c].status = "ACTIVE"
          /\ brk[b].attendanceSessionId = brk[c].attendanceSessionId
          => b = c

\* Every break hangs from an inserted session, and every segment from an
\* inserted session of the same user and from a task.
OwnersAgree ==
    /\ \A s \in Sessions :
          session[s].status # "ABSENT" => session[s].userId \in Users
    /\ \A b \in Breaks :
          brk[b].status # "ABSENT" =>
             /\ brk[b].attendanceSessionId \in Sessions
             /\ session[brk[b].attendanceSessionId].status # "ABSENT"
    /\ \A e \in Entries :
          entry[e].status # "ABSENT" =>
             /\ entry[e].userId \in Users
             /\ entry[e].taskId \in Tasks
             /\ entry[e].attendanceSessionId \in Sessions
             /\ session[entry[e].attendanceSessionId].status # "ABSENT"
             /\ session[entry[e].attendanceSessionId].userId = entry[e].userId

\* A break or a timer is active exactly while it has no end.
EndMeansClosed ==
    /\ \A b \in Breaks : brk[b].status = "ACTIVE" => brk[b].endAt = NoStamp
    /\ \A b \in Breaks : brk[b].status = "COMPLETED" => brk[b].endAt \in Nat
    /\ \A e \in Entries : entry[e].status = "RUNNING" => entry[e].endAt = NoStamp
    /\ \A e \in Entries : entry[e].status = "CLOSED" => entry[e].endAt \in Nat

\* A session is open exactly while it has no clock-out stamp
\* (the rule stated above CorrectionsService.applyCorrection).
ClockOutMeansCompleted ==
    /\ \A s \in Sessions :
          session[s].status \in Open => session[s].clockOutAt = NoStamp
    /\ \A s \in Sessions :
          session[s].status = "COMPLETED" => session[s].clockOutAt \in Nat

\* A session is on break exactly while one of its breaks is active (BR-005,
\* BR-006): endBreak and clockOut both rely on it to find what to close.
OnBreakMeansActiveBreak ==
    \A s \in Sessions :
       session[s].status # "ABSENT" =>
          (session[s].status = "ON_BREAK" <=> ActiveBreaks(s) # {})

\* A timer runs only in a session that is ACTIVE: not on break (BR-005), not
\* clocked out (BR-007).
TimerOnlyWhileWorking ==
    \A e \in Entries :
       entry[e].status = "RUNNING" =>
          session[entry[e].attendanceSessionId].status = "ACTIVE"

\* No interval ends before it starts.
EndsAfterStart ==
    /\ \A s \in Sessions : session[s].clockOutAt \in Nat =>
          session[s].clockInAt =< session[s].clockOutAt
    /\ \A b \in Breaks : brk[b].endAt \in Nat => brk[b].startAt =< brk[b].endAt
    /\ \A e \in Entries :
          entry[e].endAt \in Nat => entry[e].startAt =< entry[e].endAt

\* Segment e is over by the time t.
OverBy(e, t) == entry[e].status = "CLOSED" /\ entry[e].endAt =< t

\* BR-009: two segments of one user never overlap.
SegmentsApart ==
    \A e, f \in Entries :
       /\ e # f
       /\ entry[e].status # "ABSENT"
       /\ entry[f].status # "ABSENT"
       /\ entry[e].userId = entry[f].userId
       => OverBy(e, entry[f].startAt) \/ OverBy(f, entry[e].startAt)

\* A segment is not worked during a break of its user: it is over when the
\* break starts, or starts when the break is over (BR-005, BR-006).
SegmentsOutsideBreaks ==
    \A e \in Entries, b \in Breaks :
       /\ entry[e].status # "ABSENT"
       /\ brk[b].status # "ABSENT"
       /\ BreakOwner(b) = entry[e].userId
       => \/ OverBy(e, brk[b].startAt)
          \/ brk[b].status = "COMPLETED" /\ brk[b].endAt =< entry[e].startAt

\* Breaks and segments lie inside the attendance session they belong to:
\* what makes net working time an upper bound of task time (BR-008, BR-010).
WithinSession ==
    /\ \A b \in Breaks : brk[b].status # "ABSENT" =>
          LET s == session[brk[b].attendanceSessionId]
          IN  /\ s.clockInAt =< brk[b].startAt
              /\ s.clockOutAt \in Nat => brk[b].endAt =< s.clockOutAt
    /\ \A e \in Entries : entry[e].status # "ABSENT" =>
          LET s == session[entry[e].attendanceSessionId]
          IN  /\ s.clockInAt =< entry[e].startAt
              /\ s.clockOutAt \in Nat => entry[e].endAt =< s.clockOutAt

\* A finished row is history: no later request rewrites it.  ("Only an active
\* timer can be paused", "... stopped": TaskTimerService.)
HistoryUntouched ==
    /\ \A s \in Sessions :
          session[s].status = "COMPLETED" => session'[s] = session[s]
    /\ \A b \in Breaks : brk[b].status = "COMPLETED" => brk'[b] = brk[b]
    /\ \A e \in Entries : entry[e].status = "CLOSED" => entry'[e] = entry[e]

HistoryIsFinal == [][HistoryUntouched]_tables
=============================================================================
