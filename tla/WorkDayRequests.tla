-------------------------- MODULE WorkDayRequests --------------------------
(***************************************************************************)
(* AttendanceService, BreaksService, TaskTimerService and the status part  *)
(* of TasksService.update, one database call per step.                     *)
(*                                                                         *)
(* A request occupies a slot.  Its handler awaits one query after another, *)
(* keeps what it read in got, and ends with one write: a single insert or  *)
(* update, or an array $transaction of blind updates by id, which Postgres *)
(* applies as a whole (its row locks are held to the commit).  Between two *)
(* of its steps any other request may run.  The partial unique indexes     *)
(* refuse a write at its commit (P2002) and the request ends there.  A     *)
(* request may also die at any step: the connection or the process is      *)
(* lost, or Postgres picks its transaction to break a lock cycle.          *)
(***************************************************************************)
EXTENDS TimeRecords

CONSTANTS
    Slots,      \* requests being served at the same time
    Admins,     \* the users who are administrators
    Kinds       \* the endpoints clients call

ASSUME NoneNotSlot == None \notin Slots
ASSUME AdminsAreUsers == Admins \subseteq Users

VARIABLES
    task,       \* table tasks: status and assignee
    pc,         \* the next step of each slot
    req,        \* what each slot was asked
    got         \* what each slot has read so far

vars == <<now, session, brk, entry, task, pc, req, got>>

TaskStatus == {"TO_DO", "IN_PROGRESS", "PAUSED", "COMPLETED", "CANCELLED"}
Finished == {"COMPLETED", "CANCELLED"}
TaskRow == [status : TaskStatus, assigneeId : Users]

AllKinds == {"clockIn", "clockOut", "startBreak", "endBreak", "start",
             "resume", "pause", "stop", "switch", "update"}

\* confirm is clockOut's flag; status and assigneeId are update's body, with
\* "KEEP" and None for a field the body does not carry.
Input == [user : Users \cup {None}, task : Tasks \cup {None},
          confirm : BOOLEAN, status : TaskStatus \cup {"KEEP"},
          assigneeId : Users \cup {None}]
NoInput == [user |-> None, task |-> None, confirm |-> FALSE,
            status |-> "KEEP", assigneeId |-> None]

\* at is the earliest value the handler's next new Date() can return.
Found == [session : Sessions \cup {None}, brk : Breaks \cup {None},
          timer : Entries \cup {None}, todo : BOOLEAN, at : Nat]
Nothing == [session |-> None, brk |-> None, timer |-> None,
            todo |-> FALSE, at |-> 0]

Labels == {"idle", "clockIn", "clockIn.create",
           "clockOut", "clockOut.break", "clockOut.timer", "clockOut.commit",
           "startBreak", "startBreak.timer", "startBreak.commit",
           "endBreak", "endBreak.break", "endBreak.commit",
           "resume", "start", "start.task", "start.timer", "start.commit",
           "pause", "stop", "close.commit",
           "switch", "switch.timer", "switch.task", "switch.commit",
           "update", "update.running", "update.write"}

\* The steps of a handler that has found its session, or that has a task.
AfterSession == {"clockOut.break", "clockOut.timer", "clockOut.commit",
                 "startBreak.timer", "startBreak.commit",
                 "endBreak.break", "endBreak.commit",
                 "start.task", "start.timer", "start.commit",
                 "switch.timer", "switch.task", "switch.commit"}
NeedsTask == {"resume", "start", "start.task", "start.timer", "start.commit",
              "switch", "switch.timer", "switch.task", "switch.commit",
              "update", "update.running", "update.write"}

Init ==
    /\ RecordsInit
    /\ task \in [Tasks -> [status : {"TO_DO"}, assigneeId : Users]]
    /\ pc = [r \in Slots |-> "idle"]
    /\ req = [r \in Slots |-> NoInput]
    /\ got = [r \in Slots |-> Nothing]

User(r) == req[r].user

\* The request arrives with the arguments of its endpoint.
Receive(r) ==
    /\ pc[r] = "idle"
    /\ \E kind \in Kinds, u \in Users :
          /\ pc' = [pc EXCEPT ![r] = kind]
          /\ \/ /\ kind \in {"clockIn", "startBreak", "endBreak", "pause", "stop"}
                /\ req' = [req EXCEPT ![r].user = u]
             \/ /\ kind = "clockOut"
                /\ \E c \in BOOLEAN :
                      req' = [req EXCEPT ![r].user = u, ![r].confirm = c]
             \/ /\ kind \in {"start", "resume", "switch"}
                /\ \E k \in Tasks :
                      req' = [req EXCEPT ![r].user = u, ![r].task = k]
             \/ /\ kind = "update"
                /\ \E k \in Tasks, st \in TaskStatus \cup {"KEEP"},
                      a \in Users \cup {None} :
                      req' = [req EXCEPT ![r].user = u, ![r].task = k,
                                         ![r].status = st, ![r].assigneeId = a]
    /\ UNCHANGED <<now, session, brk, entry, task, got>>

\* The slot is free again: the handler returned or threw, or was lost.
Finish(r) ==
    /\ pc' = [pc EXCEPT ![r] = "idle"]
    /\ req' = [req EXCEPT ![r] = NoInput]
    /\ got' = [got EXCEPT ![r] = Nothing]

Refuse(r) == Finish(r) /\ UNCHANGED <<now, session, brk, entry, task>>

Lost(r) == pc[r] # "idle" /\ Refuse(r)

\* A query was answered with g; the handler awaits step l next.
Read(r, g, l) ==
    /\ pc' = [pc EXCEPT ![r] = l]
    /\ got' = [got EXCEPT ![r] = g]
    /\ UNCHANGED <<now, session, brk, entry, task, req>>

\* Mutant: a stamp the client sends instead of the server's clock.
ClientStamps(r) == 0 .. now

\* The times new Date() can return between the last answer and the commit.
Stamps(r) == got[r].at .. now

\* Mutants: the query without its status filter, or without its user filter.
FindAnySession(r, st, l) ==
    \/ OpenSessions(User(r)) = {} /\ Refuse(r)
    \/ \E s \in OpenSessions(User(r)) :
          Read(r, [got[r] EXCEPT !.session = s, !.at = now], l)
FindAnyonesSession(r, st, l) ==
    \E s \in Sessions :
       /\ session[s].status \in st
       /\ Read(r, [got[r] EXCEPT !.session = s, !.at = now], l)

\* The session query, with no session an error.
FindSession(r, st, l) ==
    \/ SessionsIn(User(r), st) = {} /\ Refuse(r)
    \/ \E s \in SessionsIn(User(r), st) :
          Read(r, [got[r] EXCEPT !.session = s, !.at = now], l)

\* The running-timer query, with no timer an error.
FindTimer(r, l) ==
    \/ RunningEntries(User(r)) = {} /\ Refuse(r)
    \/ \E e \in RunningEntries(User(r)) :
          Read(r, [got[r] EXCEPT !.timer = e, !.at = now], l)

\* requireEligibleTask
FindTask(r, l) ==
    LET k == task[req[r].task]
        eligible == k.assigneeId = User(r) /\ k.status \notin Finished
    IN  \/ ~eligible /\ Refuse(r)
        \/ /\ eligible
           /\ Read(r, [got[r] EXCEPT !.todo = (k.status = "TO_DO"), !.at = now], l)

\* Mutant: the partial unique index is missing.
NoIndex(s) == FALSE

\* Another open session of the owner of s: what the unique index on
\* attendance_sessions objects to when s is written open.
OtherOpen(s) == OpenSessions(session[s].userId) \ {s} # {}

----------------------------------------------------------------------------
ClockInFind(r) ==
    /\ pc[r] = "clockIn"
    /\ \/ OpenSessions(User(r)) # {} /\ Refuse(r)
       \/ /\ OpenSessions(User(r)) = {}
          /\ Read(r, [got[r] EXCEPT !.at = now], "clockIn.create")

ClockInCreate(r) ==
    /\ pc[r] = "clockIn.create"
    /\ \/ OpenSessions(User(r)) # {} /\ Refuse(r)
       \/ /\ OpenSessions(User(r)) = {}
          /\ \E s \in Sessions, t \in Stamps(r) :
                /\ session[s].status = "ABSENT"
                /\ session' = [session EXCEPT ![s] = NewSession(User(r), t)]
          /\ Finish(r)
          /\ UNCHANGED <<now, brk, entry, task>>

ClockOutFindSession(r) ==
    pc[r] = "clockOut" /\ FindSession(r, Open, "clockOut.break")

ClockOutFindBreak(r) ==
    /\ pc[r] = "clockOut.break"
    /\ \/ /\ ActiveBreaks(got[r].session) = {}
          /\ Read(r, [got[r] EXCEPT !.at = now], "clockOut.timer")
       \/ \E b \in ActiveBreaks(got[r].session) :
             Read(r, [got[r] EXCEPT !.brk = b, !.at = now], "clockOut.timer")

\* With something to resolve and no confirm, the answer is the blocking state.
ClockOutFindTimer(r) ==
    /\ pc[r] = "clockOut.timer"
    /\ \/ /\ RunningEntries(User(r)) = {}
          /\ got[r].brk = None \/ req[r].confirm
          /\ Read(r, [got[r] EXCEPT !.at = now], "clockOut.commit")
       \/ \E e \in RunningEntries(User(r)) :
             /\ req[r].confirm
             /\ Read(r, [got[r] EXCEPT !.timer = e, !.at = now], "clockOut.commit")
       \/ /\ RunningEntries(User(r)) # {} \/ got[r].brk # None
          /\ ~req[r].confirm
          /\ Refuse(r)

ClockOutCommit(r) ==
    /\ pc[r] = "clockOut.commit"
    /\ \E t \in Stamps(r) :
          /\ entry' = ClosedEntries({got[r].timer}, t)
          /\ brk' = EndedBreaks({got[r].brk}, t)
          /\ session' = ClockedOut(got[r].session, t)
    /\ Finish(r)
    /\ UNCHANGED <<now, task>>

StartBreakFindSession(r) ==
    pc[r] = "startBreak" /\ FindSession(r, {"ACTIVE"}, "startBreak.timer")

\* now is read before this query, so at is from here on the stamp itself.
StartBreakFindTimer(r) ==
    /\ pc[r] = "startBreak.timer"
    /\ \E t \in Stamps(r) :
          \/ /\ RunningEntries(User(r)) = {}
             /\ Read(r, [got[r] EXCEPT !.at = t], "startBreak.commit")
          \/ \E e \in RunningEntries(User(r)) :
                Read(r, [got[r] EXCEPT !.timer = e, !.at = t], "startBreak.commit")

StartBreakCommit(r) ==
    LET s == got[r].session
        refused == ActiveBreaks(s) # {} \/ OtherOpen(s)
    IN  /\ pc[r] = "startBreak.commit"
        /\ \/ refused /\ Refuse(r)
           \/ /\ ~refused
              /\ \E b \in Breaks :
                    /\ brk[b].status = "ABSENT"
                    /\ brk' = [brk EXCEPT ![b] = NewBreak(s, got[r].at)]
              /\ session' = [session EXCEPT ![s].status = "ON_BREAK"]
              /\ entry' = ClosedEntries({got[r].timer}, got[r].at)
              /\ Finish(r)
              /\ UNCHANGED <<now, task>>

EndBreakFindSession(r) ==
    pc[r] = "endBreak" /\ FindSession(r, {"ON_BREAK"}, "endBreak.break")

EndBreakFindBreak(r) ==
    /\ pc[r] = "endBreak.break"
    /\ \/ ActiveBreaks(got[r].session) = {} /\ Refuse(r)
       \/ \E b \in ActiveBreaks(got[r].session) :
             Read(r, [got[r] EXCEPT !.brk = b, !.at = now], "endBreak.commit")

\* Mutant: the update forgets the end.
EndBreakForgetsEnd(r) ==
    /\ pc[r] = "endBreak.commit"
    /\ ~OtherOpen(got[r].session)
    /\ brk' = [brk EXCEPT ![got[r].brk].status = "COMPLETED"]
    /\ session' = [session EXCEPT ![got[r].session].status = "ACTIVE"]
    /\ Finish(r)
    /\ UNCHANGED <<now, entry, task>>

\* The handler does not catch P2002: the client sees a 500, the rows nothing.
EndBreakCommit(r) ==
    LET s == got[r].session
    IN  /\ pc[r] = "endBreak.commit"
        /\ \/ OtherOpen(s) /\ Refuse(r)
           \/ /\ ~OtherOpen(s)
              /\ \E t \in Stamps(r) : brk' = EndedBreaks({got[r].brk}, t)
              /\ session' = [session EXCEPT ![s].status = "ACTIVE"]
              /\ Finish(r)
              /\ UNCHANGED <<now, entry, task>>

----------------------------------------------------------------------------
\* resume is start() after a check that the user has timed the task before.
ResumeFindPrior(r) ==
    /\ pc[r] = "resume"
    /\ LET prior == {e \in Entries : /\ entry[e].userId = User(r)
                                     /\ entry[e].taskId = req[r].task}
       IN  \/ prior = {} /\ Refuse(r)
           \/ prior # {} /\ Read(r, got[r], "start")

StartFindSession(r) ==
    pc[r] = "start" /\ FindSession(r, {"ACTIVE"}, "start.task")

StartFindTask(r) == pc[r] = "start.task" /\ FindTask(r, "start.timer")

\* requireNoRunningTimer
StartFindTimer(r) ==
    /\ pc[r] = "start.timer"
    /\ \/ RunningEntries(User(r)) # {} /\ Refuse(r)
       \/ /\ RunningEntries(User(r)) = {}
          /\ Read(r, [got[r] EXCEPT !.at = now], "start.commit")

\* The task row, with IN_PROGRESS written over whatever its status is by now
\* if it was TO_DO when the handler read it.
TaskPickedUp(r) ==
    IF got[r].todo THEN [task EXCEPT ![req[r].task].status = "IN_PROGRESS"]
                   ELSE task

StartCommit(r) ==
    /\ pc[r] = "start.commit"
    /\ \/ RunningEntries(User(r)) # {} /\ Refuse(r)
       \/ /\ RunningEntries(User(r)) = {}
          /\ \E e \in Entries, t \in Stamps(r) :
                /\ entry[e].status = "ABSENT"
                /\ entry' = [entry EXCEPT ![e] =
                      NewEntry(User(r), req[r].task, got[r].session, t)]
          /\ task' = TaskPickedUp(r)
          /\ Finish(r)
          /\ UNCHANGED <<now, session, brk>>

PauseFind(r) == pc[r] = "pause" /\ FindTimer(r, "close.commit")

StopFind(r) == pc[r] = "stop" /\ FindTimer(r, "close.commit")

\* The update of pause and of stop: by id, with no look at the status.
CloseCommit(r) ==
    /\ pc[r] = "close.commit"
    /\ \E t \in Stamps(r) : entry' = ClosedEntries({got[r].timer}, t)
    /\ Finish(r)
    /\ UNCHANGED <<now, session, brk, task>>

SwitchFindSession(r) ==
    pc[r] = "switch" /\ FindSession(r, {"ACTIVE"}, "switch.timer")

SwitchFindTimer(r) ==
    /\ pc[r] = "switch.timer"
    /\ \/ \E e \in RunningEntries(User(r)) :
             entry[e].taskId = req[r].task /\ Refuse(r)
       \/ /\ \A e \in RunningEntries(User(r)) : entry[e].taskId # req[r].task
          /\ FindTimer(r, "switch.task")

SwitchFindTask(r) == pc[r] = "switch.task" /\ FindTask(r, "switch.commit")

\* P2002 is not caught here either.
SwitchCommit(r) ==
    LET refused == RunningEntries(User(r)) \ {got[r].timer} # {}
    IN  /\ pc[r] = "switch.commit"
        /\ \/ refused /\ Refuse(r)
           \/ /\ ~refused
              /\ \E e \in Entries, t \in Stamps(r) :
                    /\ entry[e].status = "ABSENT"
                    /\ entry' = [ClosedEntries({got[r].timer}, t) EXCEPT ![e] =
                          NewEntry(User(r), req[r].task, got[r].session, t)]
              /\ task' = TaskPickedUp(r)
              /\ Finish(r)
              /\ UNCHANGED <<now, session, brk>>

----------------------------------------------------------------------------
\* Mutant: an assignee may set any status.
UpdateReopens(r) ==
    LET k == task[req[r].task]
        denied == /\ User(r) \notin Admins
                  /\ k.assigneeId # User(r) \/ req[r].assigneeId # None
        next == IF req[r].status = "COMPLETED" THEN "update.running"
                                               ELSE "update.write"
    IN  /\ pc[r] = "update"
        /\ \/ denied /\ Refuse(r)
           \/ ~denied /\ Read(r, got[r], next)

\* TasksService.update.  Whether the caller may reopen a finished task is
\* decided on the row read here; the order of the two refusals is immaterial.
UpdateFind(r) ==
    LET k == task[req[r].task]
        admin == User(r) \in Admins
        denied ==
            \/ ~admin /\ (k.assigneeId # User(r) \/ req[r].assigneeId # None)
            \/ ~admin /\ k.status \in Finished
                 /\ req[r].status \notin {"KEEP", k.status}
        next == IF req[r].status = "COMPLETED" THEN "update.running"
                                               ELSE "update.write"
    IN  /\ pc[r] = "update"
        /\ \/ denied /\ Refuse(r)
           \/ ~denied /\ Read(r, got[r], next)

\* Mutant: only the caller's own timers are looked for.
UpdateFindOwnRunning(r) ==
    /\ pc[r] = "update.running"
    /\ LET running == {e \in RunningEntries(User(r)) :
                         entry[e].taskId = req[r].task}
       IN  \/ running # {} /\ Refuse(r)
           \/ running = {} /\ Read(r, got[r], "update.write")

UpdateFindRunning(r) ==
    /\ pc[r] = "update.running"
    /\ LET running == {e \in Entries : /\ entry[e].taskId = req[r].task
                                       /\ entry[e].status = "RUNNING"}
       IN  \/ running # {} /\ Refuse(r)
           \/ running = {} /\ Read(r, got[r], "update.write")

UpdateWrite(r) ==
    /\ pc[r] = "update.write"
    /\ task' = [task EXCEPT ![req[r].task] =
          [status |-> IF req[r].status = "KEEP" THEN @.status ELSE req[r].status,
           assigneeId |-> IF req[r].assigneeId = None THEN @.assigneeId
                                                      ELSE req[r].assigneeId]]
    /\ Finish(r)
    /\ UNCHANGED <<now, session, brk, entry>>

----------------------------------------------------------------------------
Step(r) ==
    \/ ClockInFind(r) \/ ClockInCreate(r)
    \/ ClockOutFindSession(r) \/ ClockOutFindBreak(r) \/ ClockOutFindTimer(r)
    \/ ClockOutCommit(r)
    \/ StartBreakFindSession(r) \/ StartBreakFindTimer(r) \/ StartBreakCommit(r)
    \/ EndBreakFindSession(r) \/ EndBreakFindBreak(r) \/ EndBreakCommit(r)
    \/ ResumeFindPrior(r)
    \/ StartFindSession(r) \/ StartFindTask(r) \/ StartFindTimer(r)
    \/ StartCommit(r)
    \/ PauseFind(r) \/ StopFind(r) \/ CloseCommit(r)
    \/ SwitchFindSession(r) \/ SwitchFindTimer(r) \/ SwitchFindTask(r)
    \/ SwitchCommit(r)
    \/ UpdateFind(r) \/ UpdateFindRunning(r) \/ UpdateWrite(r)

PassTime == Tick /\ UNCHANGED <<session, brk, entry, task, pc, req, got>>

Next == PassTime \/ \E r \in Slots : Receive(r) \/ Step(r) \/ Lost(r)

Spec == Init /\ [][Next]_vars

\* One request of a user at a time, the next when the last has ended, and no
\* update of a task beside another request that names it.
Updating == {"update", "update.running", "update.write"}
OneAtATime(r) ==
    \A q \in Slots \ {r} : pc[q] # "idle" =>
       /\ req'[r].user # req[q].user
       /\ pc'[r] = "update" \/ pc[q] \in Updating => req'[r].task # req[q].task

SerialNext ==
    \/ PassTime
    \/ \E r \in Slots : (Receive(r) /\ OneAtATime(r)) \/ Step(r) \/ Lost(r)

SerialSpec == Init /\ [][SerialNext]_vars

----------------------------------------------------------------------------
TypeOK ==
    /\ RecordsTypeOK
    /\ task \in [Tasks -> TaskRow]
    /\ pc \in [Slots -> Labels]
    /\ req \in [Slots -> Input]
    /\ got \in [Slots -> Found]

\* Served one at a time, a user's requests do what WorkDay promises, however
\* their steps interleave with the requests of others.
Day == INSTANCE WorkDay
ServesWorkDay == Day!Spec

\* The stamps different requests leave on one session agree in whatever order
\* the requests ran: no session or break ends before it starts, and no break or
\* segment starts before its session.  (A segment may end before it starts:
\* startBreak reads the clock before it looks for the timer it closes.)
StampOrder ==
    /\ \A s \in Sessions : session[s].clockOutAt \in Nat =>
          session[s].clockInAt =< session[s].clockOutAt
    /\ \A b \in Breaks : brk[b].endAt \in Nat => brk[b].startAt =< brk[b].endAt
    /\ \A b \in Breaks : brk[b].status # "ABSENT" =>
          session[brk[b].attendanceSessionId].clockInAt =< brk[b].startAt
    /\ \A e \in Entries : entry[e].status # "ABSENT" =>
          session[entry[e].attendanceSessionId].clockInAt =< entry[e].startAt

\* What a slot has read stays true of the rows it will write: they exist, they
\* are the user's, and they began no later than the stamp to come.  What may
\* have changed since is their status and end.
SlotAgrees(q, l, g) ==
    /\ l # "idle" => q.user \in Users
    /\ l \in NeedsTask => q.task \in Tasks
    /\ g.at =< now
    /\ l \in AfterSession =>
          /\ g.session \in Sessions
          /\ session[g.session].status # "ABSENT"
          /\ session[g.session].userId = q.user
          /\ session[g.session].clockInAt =< g.at
    /\ l = "endBreak.commit" => g.brk # None
    /\ g.brk # None => /\ brk[g.brk].status # "ABSENT"
                       /\ brk[g.brk].startAt =< g.at
    /\ g.timer # None => entry[g.timer].status # "ABSENT"

StartsPast ==
    /\ \A s \in Sessions : session[s].clockInAt =< now
    /\ \A b \in Breaks : brk[b].startAt =< now

\* The inductive invariant of any interleaving.
IInv ==
    /\ TypeOK
    /\ OneOpenPerOwner
    /\ OwnersAgree
    /\ EndMeansClosed
    /\ StampOrder
    /\ StartsPast
    /\ \A r \in Slots : SlotAgrees(req[r], pc[r], got[r])

----------------------------------------------------------------------------
(* What comments of the code promise.  It holds when requests are served   *)
(* one at a time, and two in flight break it.                              *)

\* "Only an administrator can reopen a completed or cancelled task"
\* (TasksService.update).
ReopenedByAdmin ==
    \A k \in Tasks :
       task[k].status \in Finished /\ task'[k].status \notin Finished =>
          \E r \in Slots : /\ pc[r] = "update.write"
                           /\ pc'[r] = "idle"
                           /\ req[r].task = k
                           /\ User(r) \in Admins
OnlyAdminReopens == [][ReopenedByAdmin]_vars

\* "Stop the active timer on this task before completing it"
\* (TasksService.update).
CompletedTaskNotTimed ==
    \A e \in Entries :
       entry[e].status = "RUNNING" => task[entry[e].taskId].status # "COMPLETED"
=============================================================================
