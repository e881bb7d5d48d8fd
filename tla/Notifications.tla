--------------------------- MODULE Notifications ---------------------------
(***************************************************************************)
(* NotificationsService.runReminderScans: the three reminder scans, which  *)
(* every API process starts every five minutes whether or not its last     *)
(* ones have ended, beside the working day.  One database call per step,   *)
(* and any call may be the last of its run.                                *)
(*                                                                         *)
(* No transaction or unique index holds two runs apart: each looks for a   *)
(* notification under a dedupe key, and inserts one if it finds none.      *)
(* Audit rows and e-mails, which nothing here reads, are left out.         *)
(***************************************************************************)
EXTENDS Reconciliation, Sequences

CONSTANTS
    Runs,       \* runs of runReminderScans going on at the same time
    \* The settings, in ticks; CutoffHour counts from the start of a day.
    ClockOutThreshold, TimerThreshold, TimerCooldown,
    UnallocatedThreshold, CutoffHour

ASSUME RunsAssumption == IsFiniteSet(Runs)
ASSUME SettingsAssumption ==
    {ClockOutThreshold, TimerThreshold, TimerCooldown, UnallocatedThreshold,
     CutoffHour} \subseteq Nat

VARIABLES
    notification,   \* table notifications, in the order of insertion
    run             \* what each run is doing

vars == <<now, session, brk, entry, notification, run>>

\* The dedupe keys, and the table.  Who is notified is part of the key or the
\* owner of the record it names.  listedAt, which the table does not have, is
\* when the run that inserted the row had listed what it reminds of.
Keys == ({"session"} \X Sessions) \cup ({"timer"} \X Entries)
           \cup ({"unallocated"} \X Users \X Int)
Row == [dedupeKey : Keys, createdAt : Nat, listedAt : Nat]

\* A run goes through the three scans, and in each through the rows it listed
\* at the start of it.
Stages == {"clockOuts", "timers", "unallocated"}
RunState == [pc : {"idle", "list", "find", "summary", "create"},
             stage : Stages, todo : SUBSET Keys, key : Keys \cup {None},
             listedAt : Nat]
AtRest == [pc |-> "idle", stage |-> "clockOuts", todo |-> {}, key |-> None,
           listedAt |-> 0]

Day == INSTANCE WorkDay

Init ==
    /\ RecordsInit
    /\ notification = << >>
    /\ run = [r \in Runs |-> AtRest]

----------------------------------------------------------------------------
\* Mutant: the sessions are listed by their age alone.
EverLong ==
    {s \in Sessions : /\ session[s].status # "ABSENT"
                      /\ session[s].clockInAt =< now - ClockOutThreshold}

\* The sessions, timers and days a scan lists.
LongOpen ==
    {s \in Sessions : /\ session[s].status \in Open
                      /\ session[s].clockInAt =< now - ClockOutThreshold}
LongRunning ==
    {e \in Entries : /\ entry[e].status = "RUNNING"
                     /\ entry[e].startAt =< now - TimerThreshold}
CompletedUsers(day) ==
    {u \in Users : /\ SessionsOf(u, day) # {}
                   /\ \A s \in SessionsOf(u, day) : session[s].clockOutAt # NoStamp}
Yesterday == now \div DayLength - 1

Listed(stage) ==
    CASE stage = "clockOuts" -> {<<"session", s>> : s \in LongOpen}
      [] stage = "timers" -> {<<"timer", e>> : e \in LongRunning}
      [] stage = "unallocated" /\ now % DayLength >= CutoffHour ->
            {<<"unallocated", u, Yesterday>> : u \in CompletedUsers(Yesterday)}
      [] OTHER -> {}

unallocatedMinutes(u, day) ==
    SumFunction([s \in SessionsOf(u, day) |-> reconcile(s).unallocatedMinutes])

\* The notifications that keep another one under key k from being sent: any, or
\* for a timer one of the last TimerCooldown ticks.
Blocking(k) ==
    {i \in DOMAIN notification :
        /\ notification[i].dedupeKey = k
        /\ k[1] = "timer" => notification[i].createdAt > now - TimerCooldown}

GoOn(r, state) ==
    run' = [run EXCEPT ![r] = state] /\ UNCHANGED <<now, tables, notification>>

\* The schedule fires.
Begin(r) == run[r].pc = "idle" /\ GoOn(r, [run[r] EXCEPT !.pc = "list"])

\* Mutant: the first scan looks for the sessions that pass the threshold now.
ListNew(r) ==
    /\ run[r].pc = "list"
    /\ GoOn(r, [run[r] EXCEPT !.pc = "find", !.listedAt = now, !.todo =
          IF run[r].stage # "clockOuts" THEN Listed(run[r].stage)
          ELSE {k \in Listed("clockOuts") :
                   session[k[2]].clockInAt = now - ClockOutThreshold}])

List(r) ==
    /\ run[r].pc = "list"
    /\ GoOn(r, [run[r] EXCEPT !.pc = "find", !.todo = Listed(run[r].stage),
                              !.listedAt = now])

\* Mutant: the look for an earlier notification is forgotten.
FindAlways(r) ==
    /\ run[r].pc = "find"
    /\ \E k \in run[r].todo :
          GoOn(r, [run[r] EXCEPT
             !.todo = @ \ {k}, !.key = k,
             !.pc = IF run[r].stage = "unallocated" THEN "summary" ELSE "create"])

\* The next of the rows, in whatever order the query returned them.
Find(r) ==
    /\ run[r].pc = "find"
    /\ \E k \in run[r].todo :
          IF Blocking(k) # {} THEN GoOn(r, [run[r] EXCEPT !.todo = @ \ {k}])
          ELSE GoOn(r, [run[r] EXCEPT
                  !.todo = @ \ {k}, !.key = k,
                  !.pc = IF run[r].stage = "unallocated" THEN "summary" ELSE "create"])

Summary(r) ==
    LET k == run[r].key
    IN  /\ run[r].pc = "summary"
        /\ IF unallocatedMinutes(k[2], k[3]) >= UnallocatedThreshold
           THEN GoOn(r, [run[r] EXCEPT !.pc = "create"])
           ELSE GoOn(r, [run[r] EXCEPT !.pc = "find", !.key = None])

Create(r) ==
    /\ run[r].pc = "create"
    /\ notification' = Append(notification,
          [dedupeKey |-> run[r].key, createdAt |-> now,
           listedAt |-> run[r].listedAt])
    /\ run' = [run EXCEPT ![r].pc = "find", ![r].key = None]
    /\ UNCHANGED <<now, tables>>

\* The rows are done: the next scan, or the end.
NextStage(r) ==
    /\ run[r].pc = "find" /\ run[r].todo = {}
    /\ CASE run[r].stage = "clockOuts" ->
               GoOn(r, [run[r] EXCEPT !.pc = "list", !.stage = "timers"])
         [] run[r].stage = "timers" ->
               GoOn(r, [run[r] EXCEPT !.pc = "list", !.stage = "unallocated"])
         [] OTHER -> GoOn(r, AtRest)

Step(r) == List(r) \/ Find(r) \/ Summary(r) \/ Create(r) \/ NextStage(r)

\* A run ends early: its process stops, or a call fails and nothing catches it.
AtEnd(r) == run[r].pc = "find" /\ run[r].todo = {} /\ run[r].stage = "unallocated"
Lost(r) == run[r].pc # "idle" /\ ~AtEnd(r) /\ GoOn(r, AtRest)

\* Meanwhile users work and time passes.
Others ==
    /\ \/ Tick /\ UNCHANGED tables
       \/ \E u \in Users : Day!ServeAt(u, now)
    /\ UNCHANGED <<notification, run>>

Next ==
    \/ Others
    \/ \E r \in Runs : Begin(r) \/ Step(r) \/ Lost(r)

Spec == Init /\ [][Next]_vars

\* The schedule keeps firing, and from some time on no run is lost.
FairSpec ==
    /\ Spec
    /\ \A r \in Runs : WF_vars(Begin(r)) /\ WF_vars(Step(r))
    /\ <>[][\A r \in Runs : ~Lost(r)]_vars

----------------------------------------------------------------------------
TypeOK ==
    /\ now \in Nat
    /\ notification \in Seq(Row)
    /\ run \in [Runs -> RunState]

\* "dedupeKey guards against spamming the same event twice" (schema.prisma), as
\* far as it does: however runs overlap and are lost, a session or a day is
\* reminded of at most as often as runs go on at the same time, and a timer so
\* often in any TimerCooldown ticks.  With one run at a time that is once.
AtMostOnePerRun ==
    \A i \in DOMAIN notification :
       Cardinality(Blocking(notification[i].dedupeKey)) =< Cardinality(Runs)

\* The inductive invariant behind it: a run that has looked for a notification
\* under a key and found none holds the key until it inserts one or gives up,
\* and has a share of the bound for it.
Holders(k) ==
    {r \in Runs : run[r].pc \in {"summary", "create"} /\ run[r].key = k}
Named == {notification[i].dedupeKey : i \in DOMAIN notification}
            \cup {run[r].key : r \in Runs}
IInv ==
    /\ TypeOK
    /\ \A r \in Runs : run[r].pc \in {"summary", "create"} => run[r].key \in Keys
    /\ \A k \in Named :
          Cardinality(Blocking(k)) + Cardinality(Holders(k)) =< Cardinality(Runs)

\* What a reminder says was so when its run listed the row, which is as much as
\* the code promises: a session was then open, or a timer running, and as old as
\* the setting says, so that a reminder which finds its session closed or its
\* timer stopped was overtaken by that between list and insert; and a day was over
\* and complete, with as much unallocated time, and is so ever after.
OpenAt(end, t) == end = NoStamp \/ end >= t
RemindersTrue ==
    \A i \in DOMAIN notification :
       LET k == notification[i].dedupeKey
           at == notification[i].listedAt
       IN  /\ at =< notification[i].createdAt
           /\ k[1] = "session" =>
                 /\ session[k[2]].clockInAt + ClockOutThreshold =< at
                 /\ OpenAt(session[k[2]].clockOutAt, at)
           /\ k[1] = "timer" =>
                 /\ entry[k[2]].startAt + TimerThreshold =< at
                 /\ OpenAt(entry[k[2]].endAt, at)
           /\ k[1] = "unallocated" =>
                 /\ k[2] \in CompletedUsers(k[3])
                 /\ k[3] < at \div DayLength
                 /\ unallocatedMinutes(k[2], k[3]) >= UnallocatedThreshold

\* AC-011-002: somebody who has been clocked in for too long is reminded in the
\* end, or clocks out first.
Reminded(s) == \E i \in DOMAIN notification : notification[i].dedupeKey = <<"session", s>>
RemindedInTheEnd ==
    \A s \in Sessions : s \in LongOpen ~> (session[s].status = "COMPLETED" \/ Reminded(s))
=============================================================================
