------------------------ MODULE Notifications_proofs ------------------------
(***************************************************************************)
(* Two facts of the reminder scans, however many runs overlap and wherever *)
(* they are lost.  First: a dedupe key is used at most once per run at a   *)
(* time.  A run that finds no notification under a key becomes a holder of *)
(* the key; then no notification blocks it, so what counts are the holders *)
(* alone, and there are no more holders than runs.  To insert is to stop   *)
(* holding.  Second: what was listed as due stays due while other requests *)
(* are served, so that every reminder is true when sent and ever after.    *)
(***************************************************************************)
EXTENDS Notifications, FiniteSetTheorems, TLAPS

\* What the bound says of one key.
Share(k) == Cardinality(Blocking(k)) + Cardinality(Holders(k)) =< Cardinality(Runs)

\* All that is counted is finite.
Counted(k) ==
    /\ IsFiniteSet(Blocking(k)) /\ Cardinality(Blocking(k)) \in Nat
    /\ IsFiniteSet(Holders(k)) /\ Cardinality(Holders(k)) \in Nat
    /\ IsFiniteSet(Runs) /\ Cardinality(Runs) \in Nat
    /\ Cardinality(Holders(k)) =< Cardinality(Runs)

LEMMA Finite == TypeOK => \A k : Counted(k)
  <1> SUFFICES ASSUME TypeOK, NEW k PROVE Counted(k)
    OBVIOUS
  <1>1. DOMAIN notification = 1 .. Len(notification) /\ Len(notification) \in Nat
    BY DEF TypeOK
  <1>2. IsFiniteSet(DOMAIN notification)
    BY <1>1, FS_Interval
  <1>3. Blocking(k) \in SUBSET DOMAIN notification /\ Holders(k) \in SUBSET Runs
    BY DEF Blocking, Holders
  <1>4. IsFiniteSet(Runs)
    BY RunsAssumption
  <1>5. IsFiniteSet(Blocking(k)) /\ IsFiniteSet(Holders(k))
           /\ Cardinality(Holders(k)) =< Cardinality(Runs)
    BY <1>2, <1>3, <1>4, FS_Subset
  <1>6. QED
    BY <1>4, <1>5, FS_CardinalityType DEF Counted

LEMMA FiniteNext == TypeOK' => (\A k : Counted(k))'
  BY Finite, PTL

\* A key that is neither used nor held has its share too.
LEMMA EveryKey ==
  ASSUME IInv, NEW k
  PROVE  Share(k)
  <1>1. CASE k \in Named
    BY <1>1 DEF IInv, Share
  <1>2. CASE k \notin Named
    <2>1. Blocking(k) = {} /\ Holders(k) = {}
      BY <1>2 DEF Named, Blocking, Holders
    <2>2. Cardinality(Blocking(k)) = 0 /\ Cardinality(Holders(k)) = 0
      BY <2>1, FS_EmptySet
    <2>3. QED
      BY <2>2, Finite DEF IInv, Share, Counted
  <1>3. QED
    BY <1>1, <1>2

LEMMA InitIInv == Init => IInv
  <1> SUFFICES ASSUME Init PROVE IInv
    OBVIOUS
  <1>1. TypeOK
    BY DEF Init, RecordsInit, TypeOK, RunState, AtRest, Stages, Row
  <1>2. ASSUME NEW k PROVE Share(k)
    <2>1. Blocking(k) = {} /\ Holders(k) = {}
      BY DEF Init, Blocking, Holders, AtRest
    <2>2. Cardinality(Blocking(k)) = 0 /\ Cardinality(Holders(k)) = 0
      BY <2>1, FS_EmptySet
    <2>3. QED
      BY <1>1, <2>2, Finite DEF Share, Counted
  <1>3. QED
    BY <1>1, <1>2 DEF IInv, Share, Init, AtRest

\* Once every key has its share, the invariant holds in the next state.
LEMMA SharesSuffice ==
  ASSUME TypeOK',
         \A r \in Runs : run'[r].pc \in {"summary", "create"} => run'[r].key \in Keys,
         \A k : Share(k)'
  PROVE  IInv'
  BY DEF IInv, Share

\* As long as nothing is inserted, the notifications that block a key can only
\* become fewer: the cooldown of a timer passes.
LEMMA BlockingShrinks ==
  ASSUME TypeOK, TypeOK', UNCHANGED notification, now' >= now, NEW k
  PROVE  Blocking(k)' \subseteq Blocking(k)
  <1>1. /\ now \in Nat /\ now' \in Nat /\ TimerCooldown \in Nat
        /\ \A i \in DOMAIN notification : notification[i].createdAt \in Nat
    <2>1. \A i \in DOMAIN notification : notification[i] \in Row
      BY DEF TypeOK
    <2>2. QED
      BY <2>1, SettingsAssumption DEF TypeOK, Row
  <1>2. \A i \in DOMAIN notification :
           notification[i].createdAt > now' - TimerCooldown =>
              notification[i].createdAt > now - TimerCooldown
    BY <1>1
  <1>3. QED
    BY <1>2 DEF Blocking

\* A step that inserts nothing: no key gets a holder unless nothing blocks it.
LEMMA QuietKeeps ==
  ASSUME IInv, TypeOK', UNCHANGED notification, now' >= now,
         \A r \in Runs : run'[r].pc \in {"summary", "create"} => run'[r].key \in Keys,
         \A k : Holders(k)' \subseteq Holders(k) \/ Blocking(k) = {}
  PROVE  IInv'
  <1> SUFFICES ASSUME NEW k PROVE Share(k)'
    BY SharesSuffice
  <1>1. TypeOK
    BY DEF IInv
  <1>2. /\ Cardinality(Blocking(k)) \in Nat /\ IsFiniteSet(Blocking(k))
        /\ Cardinality(Holders(k)) \in Nat /\ IsFiniteSet(Holders(k))
        /\ Cardinality(Runs) \in Nat
    BY <1>1, Finite DEF Counted
  <1>3. /\ Cardinality(Blocking(k)') \in Nat /\ Cardinality(Holders(k)') \in Nat
        /\ Cardinality(Holders(k)') =< Cardinality(Runs)
    BY FiniteNext DEF Counted
  <1>4. Blocking(k)' \subseteq Blocking(k)
    BY <1>1, BlockingShrinks
  <1>5. Cardinality(Blocking(k)') =< Cardinality(Blocking(k))
    BY <1>2, <1>4, FS_Subset
  <1>6. CASE Blocking(k) = {}
    <2>1. Cardinality(Blocking(k)') = 0
      BY <1>4, <1>6, FS_EmptySet
    <2>2. QED
      BY <2>1, <1>3 DEF Share
  <1>7. CASE Holders(k)' \subseteq Holders(k)
    <2>1. Cardinality(Holders(k)') =< Cardinality(Holders(k))
      BY <1>2, <1>7, FS_Subset
    <2>2. Share(k)
      BY EveryKey
    <2>3. QED
      BY <2>1, <2>2, <1>2, <1>3, <1>5 DEF Share
  <1>8. QED
    BY <1>6, <1>7

\* The time service's requests and the clock.
LEMMA OthersKeep ==
  ASSUME IInv, Others
  PROVE  IInv'
  <1>1. now' = now \/ now' = now + 1
    BY DEF Others, Tick, Day!ServeAt, Day!ClockIn, Day!ClockOut, Day!StartBreak,
           Day!EndBreak, Day!StopTimer, Day!StartTimer, Day!SwitchTask
  <1>2. UNCHANGED <<notification, run>>
    BY DEF Others
  <1>3. TypeOK' /\ now' >= now
    BY <1>1, <1>2 DEF IInv, TypeOK
  <1>4. \A k : Holders(k)' \subseteq Holders(k)
    BY <1>2 DEF Holders
  <1>5. \A r \in Runs : run'[r].pc \in {"summary", "create"} => run'[r].key \in Keys
    BY <1>2 DEF IInv
  <1>6. QED
    BY <1>2, <1>3, <1>4, <1>5, QuietKeeps

\* A run that goes on without a key of its own, or with the one it had.
LEMMA GoOnKeeps ==
  ASSUME IInv, NEW r \in Runs, NEW state \in RunState, GoOn(r, state),
         state.pc \in {"summary", "create"} =>
            /\ state.key \in Keys
            /\ \/ run[r].pc \in {"summary", "create"} /\ state.key = run[r].key
               \/ Blocking(state.key) = {}
  PROVE  IInv'
  <1>1. run \in [Runs -> RunState] /\ now \in Nat
    BY DEF IInv, TypeOK
  <1>2. UNCHANGED <<now, notification>> /\ run' = [run EXCEPT ![r] = state]
    BY DEF GoOn
  <1>3. TypeOK' /\ now' >= now
    BY <1>1, <1>2 DEF IInv, TypeOK
  <1>4. ASSUME NEW q \in Runs, run'[q].pc \in {"summary", "create"}
        PROVE  run'[q].key \in Keys
    BY <1>1, <1>2, <1>4 DEF IInv
  <1>5. ASSUME NEW k PROVE Holders(k)' \subseteq Holders(k) \/ Blocking(k) = {}
    BY <1>1, <1>2 DEF Holders
  <1>6. QED
    BY <1>2, <1>3, <1>4, <1>5, QuietKeeps

\* What a scan lists are keys.
LEMMA ListedKeys ==
  ASSUME TypeOK, NEW stage
  PROVE  Listed(stage) \subseteq Keys
  <1>1. Yesterday \in Int
    BY DayLengthAssumption DEF TypeOK, Yesterday
  <1>2. {<<"session", s>> : s \in LongOpen} \subseteq Keys
    BY DEF LongOpen, Keys
  <1>3. {<<"timer", e>> : e \in LongRunning} \subseteq Keys
    BY DEF LongRunning, Keys
  <1>4. {<<"unallocated", u, Yesterday>> : u \in CompletedUsers(Yesterday)}
           \subseteq Keys
    BY <1>1 DEF CompletedUsers, Keys
  <1>5. QED
    BY <1>2, <1>3, <1>4 DEF Listed

LEMMA BeginKeeps ==
  ASSUME IInv, NEW r \in Runs, Begin(r)
  PROVE  IInv'
  <1>1. [run[r] EXCEPT !.pc = "list"] \in RunState
    BY DEF IInv, TypeOK, RunState
  <1>2. [run[r] EXCEPT !.pc = "list"].pc = "list"
    BY DEF IInv, TypeOK, RunState
  <1>3. QED
    BY <1>1, <1>2, GoOnKeeps DEF Begin

LEMMA ListKeeps ==
  ASSUME IInv, NEW r \in Runs, List(r)
  PROVE  IInv'
  <1> DEFINE next == [run[r] EXCEPT !.pc = "find", !.todo = Listed(run[r].stage),
                                    !.listedAt = now]
  <1>1. Listed(run[r].stage) \subseteq Keys /\ run[r] \in RunState /\ now \in Nat
    BY ListedKeys DEF IInv, TypeOK
  <1>2. next \in RunState /\ next.pc = "find"
    BY <1>1 DEF RunState
  <1>3. QED
    BY <1>2, GoOnKeeps DEF List

\* Here a run becomes a holder, of a key that nothing blocks.
LEMMA FindKeeps ==
  ASSUME IInv, NEW r \in Runs, Find(r)
  PROVE  IInv'
  <1>1. run[r] \in RunState /\ run[r].pc = "find" /\ run[r].todo \subseteq Keys
    BY DEF IInv, TypeOK, RunState, Find
  <1>2. PICK k \in run[r].todo :
           IF Blocking(k) # {} THEN GoOn(r, [run[r] EXCEPT !.todo = @ \ {k}])
           ELSE GoOn(r, [run[r] EXCEPT
                   !.todo = @ \ {k}, !.key = k,
                   !.pc = IF run[r].stage = "unallocated" THEN "summary" ELSE "create"])
    BY DEF Find
  <1>3. CASE Blocking(k) # {}
    <2> DEFINE next == [run[r] EXCEPT !.todo = @ \ {k}]
    <2>1. next \in RunState /\ next.pc = "find"
      BY <1>1 DEF RunState
    <2>2. QED
      BY <1>2, <1>3, <2>1, GoOnKeeps
  <1>4. CASE Blocking(k) = {}
    <2> DEFINE next == [run[r] EXCEPT
                  !.todo = @ \ {k}, !.key = k,
                  !.pc = IF run[r].stage = "unallocated" THEN "summary" ELSE "create"]
    <2>1. next \in RunState /\ next.key = k /\ k \in Keys
      BY <1>1 DEF RunState
    <2>2. QED
      BY <1>2, <1>4, <2>1, GoOnKeeps
  <1>5. QED
    BY <1>3, <1>4

LEMMA SummaryKeeps ==
  ASSUME IInv, NEW r \in Runs, Summary(r)
  PROVE  IInv'
  <1> DEFINE skip == [run[r] EXCEPT !.pc = "find", !.key = None]
             keep == [run[r] EXCEPT !.pc = "create"]
  <1>1. run[r] \in RunState /\ run[r].pc = "summary" /\ run[r].key \in Keys
    BY DEF IInv, TypeOK, RunState, Summary
  <1>2. skip \in RunState /\ skip.pc = "find"
    BY <1>1 DEF RunState
  <1>3. keep \in RunState /\ keep.key = run[r].key
    BY <1>1 DEF RunState
  <1>4. GoOn(r, skip) \/ GoOn(r, keep)
    BY DEF Summary
  <1>5. QED
    BY <1>1, <1>2, <1>3, <1>4, GoOnKeeps

LEMMA NextStageKeeps ==
  ASSUME IInv, NEW r \in Runs, NextStage(r)
  PROVE  IInv'
  <1> DEFINE to(stage) == [run[r] EXCEPT !.pc = "list", !.stage = stage]
  <1>1. run[r] \in RunState
    BY DEF IInv, TypeOK
  <1>2. \A stage \in Stages : to(stage) \in RunState /\ to(stage).pc = "list"
    BY <1>1 DEF RunState
  <1>3. AtRest \in RunState /\ AtRest.pc = "idle"
    BY DEF RunState, AtRest, Stages
  <1>4. GoOn(r, to("timers")) \/ GoOn(r, to("unallocated")) \/ GoOn(r, AtRest)
    BY DEF NextStage
  <1>5. QED
    BY <1>2, <1>3, <1>4, GoOnKeeps DEF Stages

LEMMA LostKeeps ==
  ASSUME IInv, NEW r \in Runs, Lost(r)
  PROVE  IInv'
  <1>1. AtRest \in RunState /\ AtRest.pc = "idle"
    BY DEF RunState, AtRest, Stages
  <1>2. QED
    BY <1>1, GoOnKeeps DEF Lost

\* The insert: the key's share passes from the holder to the notification.
LEMMA CreateKeeps ==
  ASSUME IInv, NEW r \in Runs, Create(r)
  PROVE  IInv'
  <1> DEFINE key == run[r].key
             last == Len(notification) + 1
             row == [dedupeKey |-> key, createdAt |-> now, listedAt |-> run[r].listedAt]
  <1>1. /\ run \in [Runs -> RunState] /\ run[r].pc = "create" /\ key \in Keys
        /\ notification \in Seq(Row) /\ now \in Nat /\ TypeOK /\ run[r].listedAt \in Nat
    BY DEF IInv, TypeOK, RunState, Create
  <1>2. /\ notification' = Append(notification, row) /\ row \in Row
        /\ run' = [run EXCEPT ![r].pc = "find", ![r].key = None]
        /\ UNCHANGED now
    BY <1>1 DEF Create, Row
  <1>3. /\ notification' \in Seq(Row)
        /\ Len(notification) \in Nat
        /\ DOMAIN notification' = 1 .. last
        /\ DOMAIN notification = 1 .. Len(notification)
        /\ notification'[last] = row
        /\ \A i \in DOMAIN notification : notification'[i] = notification[i]
    BY <1>1, <1>2
  <1>4. run' \in [Runs -> RunState] /\ TypeOK'
    <2> DEFINE next == [run[r] EXCEPT !.pc = "find", !.key = None]
    <2>1. run[r] \in RunState
      BY <1>1
    <2>2. next \in RunState
      BY <2>1 DEF RunState
    <2>3. run' = [run EXCEPT ![r] = next]
      BY <1>1, <1>2
    <2>4. run' \in [Runs -> RunState]
      BY <1>1, <2>2, <2>3
    <2>5. QED
      BY <1>1, <1>2, <1>3, <2>4 DEF TypeOK
  <1>5. \A q \in Runs : run'[q].pc \in {"summary", "create"} => run'[q].key \in Keys
    BY <1>1, <1>2 DEF IInv, RunState
  <1>6. ASSUME NEW k PROVE Share(k)'
    <2>1. Share(k)
      BY EveryKey
    <2>2. /\ Cardinality(Blocking(k)) \in Nat /\ IsFiniteSet(Blocking(k))
          /\ Cardinality(Holders(k)) \in Nat /\ IsFiniteSet(Holders(k))
          /\ Cardinality(Runs) \in Nat
      BY <1>1, Finite DEF Counted
    <2>3. Cardinality(Blocking(k)') \in Nat /\ Cardinality(Holders(k)') \in Nat
      BY <1>4, FiniteNext DEF Counted
    <2>4. CASE k # key
      <3>1. Blocking(k)' \subseteq Blocking(k)
        BY <1>2, <1>3, <2>4 DEF Blocking
      <3>2. Holders(k)' \subseteq Holders(k)
        BY <1>1, <1>2 DEF Holders, RunState
      <3>3. /\ Cardinality(Blocking(k)') =< Cardinality(Blocking(k))
            /\ Cardinality(Holders(k)') =< Cardinality(Holders(k))
        BY <2>2, <3>1, <3>2, FS_Subset
      <3>4. QED
        BY <2>1, <2>2, <2>3, <3>3 DEF Share
    <2>5. CASE k = key
      <3>1. Blocking(k)' \subseteq Blocking(k) \cup {last}
        BY <1>2, <1>3 DEF Blocking
      <3>2. Holders(k)' \subseteq Holders(k) \ {r} /\ r \in Holders(k)
        BY <1>1, <1>2, <2>5 DEF Holders, RunState
      <3>3. /\ IsFiniteSet(Blocking(k) \cup {last})
            /\ Cardinality(Blocking(k) \cup {last}) =< Cardinality(Blocking(k)) + 1
        <4>1. /\ IsFiniteSet(Blocking(k) \cup {last})
              /\ Cardinality(Blocking(k) \cup {last}) =
                    IF last \in Blocking(k) THEN Cardinality(Blocking(k))
                    ELSE Cardinality(Blocking(k)) + 1
          BY <2>2, FS_AddElement
        <4>2. QED
          BY <4>1, <2>2
      <3>4. /\ IsFiniteSet(Holders(k) \ {r})
            /\ Cardinality(Holders(k) \ {r}) = Cardinality(Holders(k)) - 1
        BY <2>2, <3>2, FS_RemoveElement
      <3>5. Cardinality(Blocking(k)') =< Cardinality(Blocking(k) \cup {last})
        BY <3>1, <3>3, FS_Subset
      <3>6. Cardinality(Holders(k)') =< Cardinality(Holders(k) \ {r})
        BY <3>2, <3>4, FS_Subset
      <3>7. Cardinality(Blocking(k) \cup {last}) \in Nat
        BY <3>3, FS_CardinalityType
      <3>8. QED
        BY <2>1, <2>2, <2>3, <3>3, <3>4, <3>5, <3>6, <3>7 DEF Share
    <2>6. QED
      BY <2>4, <2>5
  <1>7. QED
    BY <1>4, <1>5, <1>6, SharesSuffice

LEMMA StutterKeeps == IInv /\ UNCHANGED vars => IInv'
  BY DEF IInv, TypeOK, vars, Named, Blocking, Holders

\* Every reachable state of the scans satisfies the inductive invariant.
THEOREM ScansBounded == Spec => []IInv
  <1>1. ASSUME IInv, [Next]_vars PROVE IInv'
    BY <1>1, OthersKeep, BeginKeeps, ListKeeps, FindKeeps, SummaryKeeps, CreateKeeps,
       NextStageKeeps, LostKeeps, StutterKeeps
    DEF Next, Step
  <1>2. QED
    BY InitIInv, <1>1, PTL DEF Spec

\* A session or a day is reminded of at most as often as scans overlap, and a
\* timer so often in any cooldown: AtMostOnePerRun, for any number of runs.
THEOREM RemindersBounded == Spec => []AtMostOnePerRun
  <1>1. ASSUME IInv PROVE AtMostOnePerRun
    <2> SUFFICES ASSUME NEW i \in DOMAIN notification
                 PROVE  Cardinality(Blocking(notification[i].dedupeKey))
                           =< Cardinality(Runs)
      BY DEF AtMostOnePerRun
    <2> DEFINE k == notification[i].dedupeKey
    <2>1. Share(k)
      BY <1>1, EveryKey
    <2>2. Counted(k)
      BY <1>1, Finite DEF IInv
    <2>3. QED
      BY <2>1, <2>2 DEF Share, Counted
  <1>2. QED
    BY ScansBounded, <1>1, PTL

----------------------------------------------------------------------------
(***************************************************************************)
(* Reminders are true of the moment their run listed the row, and what    *)
(* they say of a day is so ever after.  A session or segment keeps its     *)
(* start, and once it has ended, its end; one that ends does so at the     *)
(* time the request is served, so no earlier than any run listed it.  Of a *)
(* day that was over when it was listed nothing changes any more, because  *)
(* every request stamps what it inserts with the time it is served at, and *)
(* touches only breaks and segments of sessions that are open.             *)
(***************************************************************************)

\* What is needed of the records for that: what is still going on belongs to an
\* open session, of the same user, and what is over has an end.
Settled ==
    /\ RecordsTypeOK
    /\ \A s \in Sessions : session[s].status \in Open => session[s].clockOutAt = NoStamp
    /\ \A b \in Breaks :
          /\ brk[b].status = "ABSENT" => brk[b].attendanceSessionId = None
          /\ brk[b].status = "ACTIVE" =>
                /\ brk[b].attendanceSessionId \in Sessions
                /\ session[brk[b].attendanceSessionId].status \in Open
          /\ brk[b].status = "COMPLETED" => brk[b].endAt # NoStamp
    /\ \A e \in Entries :
          /\ entry[e].status = "ABSENT" => entry[e].attendanceSessionId = None
          /\ entry[e].status = "RUNNING" =>
                /\ entry[e].endAt = NoStamp
                /\ entry[e].attendanceSessionId \in Sessions
                /\ session[entry[e].attendanceSessionId].status \in Open
                /\ session[entry[e].attendanceSessionId].userId = entry[e].userId
          /\ entry[e].status = "CLOSED" => entry[e].endAt # NoStamp

\* What a request, or the clock, does to the records.
RowsAdvance ==
    /\ \A s \in Sessions :
          /\ session[s].status = "ABSENT" =>
                session'[s] = session[s] \/ session'[s].clockInAt = now
          /\ session[s].status # "ABSENT" =>
                /\ session'[s].status # "ABSENT"
                /\ session'[s].clockInAt = session[s].clockInAt
                /\ session'[s].userId = session[s].userId
                /\ session'[s].clockOutAt \in {session[s].clockOutAt, now}
          /\ session[s].status = "COMPLETED" => session'[s] = session[s]
    /\ \A b \in Breaks :
          \/ brk'[b] = brk[b]
          \/ /\ brk'[b].attendanceSessionId \in Sessions
             /\ session[brk'[b].attendanceSessionId].status \in Open
             /\ brk[b].attendanceSessionId \in {None, brk'[b].attendanceSessionId}
    /\ \A e \in Entries :
          \/ entry'[e] = entry[e]
          \/ /\ entry'[e].attendanceSessionId \in Sessions
             /\ session[entry'[e].attendanceSessionId].status \in Open
             /\ entry[e].attendanceSessionId \in {None, entry'[e].attendanceSessionId}
             /\ entry[e].status # "ABSENT" =>
                   /\ entry'[e].status # "ABSENT"
                   /\ entry'[e].startAt = entry[e].startAt
                   /\ entry'[e].endAt \in {entry[e].endAt, now}
    /\ now' \in {now, now + 1}

\* Every segment that ends is one that was running; what a stop of a user's timers
\* does to the segments, whatever else the request writes.
TimersStop(u) ==
    /\ entry' \in [Entries -> EntryRow]
    /\ \A e \in Entries :
          \/ entry'[e] = entry[e] /\ ~(entry[e].status = "RUNNING" /\ entry[e].userId = u)
          \/ /\ entry[e].status = "RUNNING" /\ entry[e].userId = u
             /\ entry'[e].status = "CLOSED" /\ entry'[e].endAt = now
             /\ entry'[e].endAt # NoStamp
             /\ entry'[e].userId = entry[e].userId
             /\ entry'[e].attendanceSessionId = entry[e].attendanceSessionId
             /\ entry'[e].startAt = entry[e].startAt

LEMMA ClosedStop ==
  ASSUME Settled, NEW u \in Users, entry' = ClosedEntries(RunningEntries(u), now)
  PROVE  TimersStop(u)
  <1>1. /\ RecordsTypeOK /\ now \in Nat
        /\ \A e \in Entries : e \in RunningEntries(u) <=>
              entry[e].status = "RUNNING" /\ entry[e].userId = u
    BY DEF Settled, RecordsTypeOK, RunningEntries
  <1>2. now # NoStamp
    BY <1>1 DEF NoStamp
  <1>3. QED
    BY <1>1, <1>2, ZenonT(60) DEF ClosedEntries, TimersStop, RecordsTypeOK, EntryRow, Stamp

BreaksStop(s) ==
    /\ brk' \in [Breaks -> BreakRow]
    /\ \A b \in Breaks :
          \/ brk'[b] = brk[b] /\ ~(brk[b].status = "ACTIVE" /\ brk[b].attendanceSessionId = s)
          \/ /\ brk[b].status = "ACTIVE" /\ brk[b].attendanceSessionId = s
             /\ brk'[b].status = "COMPLETED" /\ brk'[b].endAt # NoStamp
             /\ brk'[b].attendanceSessionId = s

LEMMA EndedStop ==
  ASSUME Settled, NEW s \in Sessions, brk' = EndedBreaks(ActiveBreaks(s), now)
  PROVE  BreaksStop(s)
  <1>1. /\ RecordsTypeOK /\ now \in Nat
        /\ \A b \in Breaks : b \in ActiveBreaks(s) <=>
              brk[b].status = "ACTIVE" /\ brk[b].attendanceSessionId = s
    BY DEF Settled, RecordsTypeOK, ActiveBreaks
  <1>2. now # NoStamp
    BY <1>1 DEF NoStamp
  <1>3. QED
    BY <1>1, <1>2, ZenonT(60) DEF EndedBreaks, BreaksStop, RecordsTypeOK, BreakRow, Stamp

\* The session row that changes, and the rows that do not.
SessionMoves(s) ==
    /\ session' \in [Sessions -> SessionRow]
    /\ \A r \in Sessions \ {s} : session'[r] = session[r]
    /\ session[s].status \in Open
    /\ session'[s].userId = session[s].userId
    /\ session'[s].clockInAt = session[s].clockInAt
    /\ session'[s].clockOutAt \in {session[s].clockOutAt, now}

LEMMA ClockInSettled ==
  ASSUME Settled, NEW u \in Users, Day!ClockIn(u, now)
  PROVE  Settled' /\ RowsAdvance
  <1>1. PICK s \in Sessions : /\ session[s].status = "ABSENT"
                              /\ session' = [session EXCEPT ![s] = NewSession(u, now)]
    BY DEF Day!ClockIn, NewSession, Day!NewSession, NoStamp, Day!NoStamp
  <1>2. UNCHANGED <<now, brk, entry>>
    BY DEF Day!ClockIn
  <1>3. /\ session' \in [Sessions -> SessionRow]
        /\ \A r \in Sessions \ {s} : session'[r] = session[r]
        /\ session'[s].clockInAt = now /\ session'[s].clockOutAt = NoStamp
        /\ session'[s].status = "ACTIVE"
    BY <1>1 DEF Settled, RecordsTypeOK, SessionRow, NewSession, Stamp
  <1>4. Settled'
    BY <1>1, <1>2, <1>3 DEF Settled, RecordsTypeOK, Open
  <1>5. RowsAdvance
    BY <1>1, <1>2, <1>3 DEF RowsAdvance
  <1>6. QED
    BY <1>4, <1>5

LEMMA ClockOutSettled ==
  ASSUME Settled, NEW u \in Users, Day!ClockOut(u, now)
  PROVE  Settled' /\ RowsAdvance
  <1>1. PICK s \in Sessions :
           /\ session[s].userId = u /\ session[s].status \in Open
           /\ entry' = ClosedEntries(RunningEntries(u), now)
           /\ brk' = EndedBreaks(ActiveBreaks(s), now)
           /\ session' = ClockedOut(s, now)
    BY DEF Day!ClockOut, Day!OpenSessions, Day!SessionsIn, Open, Day!Open, ClosedEntries,
           Day!ClosedEntries, RunningEntries, Day!RunningEntries, EndedBreaks, Day!EndedBreaks,
           ActiveBreaks, Day!ActiveBreaks, ClockedOut, Day!ClockedOut
  <1>2. UNCHANGED now
    BY DEF Day!ClockOut
  <1>3. /\ SessionMoves(s) /\ session'[s].status = "COMPLETED"
    <2>1. session \in [Sessions -> SessionRow] /\ now \in Stamp
      BY DEF Settled, RecordsTypeOK, Stamp
    <2>2. /\ session' \in [Sessions -> SessionRow]
          /\ \A r \in Sessions \ {s} : session'[r] = session[r]
          /\ session'[s].userId = session[s].userId
          /\ session'[s].clockInAt = session[s].clockInAt
          /\ session'[s].clockOutAt = now /\ session'[s].status = "COMPLETED"
      BY <1>1, <2>1 DEF ClockedOut, SessionRow
    <2>3. QED
      BY <1>1, <2>2 DEF SessionMoves
  <1>4. TimersStop(u)
    BY <1>1, ClosedStop
  <1>5. BreaksStop(s)
    BY <1>1, EndedStop
  <1>6. Settled'
    BY <1>1, <1>2, <1>3, <1>4, <1>5
    DEF Settled, RecordsTypeOK, SessionMoves, TimersStop, BreaksStop, Open
  <1>7. RowsAdvance
    BY <1>1, <1>2, <1>3, <1>4, <1>5
    DEF Settled, RowsAdvance, SessionMoves, TimersStop, BreaksStop, Open
  <1>8. QED
    BY <1>6, <1>7

LEMMA StartBreakSettled ==
  ASSUME Settled, NEW u \in Users, Day!StartBreak(u, now)
  PROVE  Settled' /\ RowsAdvance
  <1>1. PICK s \in Sessions, b \in Breaks :
           /\ session[s].userId = u /\ session[s].status = "ACTIVE"
           /\ brk[b].status = "ABSENT"
           /\ brk' = [brk EXCEPT ![b] = NewBreak(s, now)]
           /\ session' = [session EXCEPT ![s].status = "ON_BREAK"]
           /\ entry' = ClosedEntries(RunningEntries(u), now)
    BY DEF Day!StartBreak, Day!SessionsIn, ClosedEntries, Day!ClosedEntries, RunningEntries,
           Day!RunningEntries, NewBreak, Day!NewBreak, NoStamp, Day!NoStamp
  <1>2. UNCHANGED now
    BY DEF Day!StartBreak
  <1>3. /\ SessionMoves(s) /\ session'[s].status = "ON_BREAK"
        /\ session'[s].clockOutAt = session[s].clockOutAt
    BY <1>1 DEF Settled, RecordsTypeOK, SessionRow, SessionMoves, Open
  <1>4. TimersStop(u)
    BY <1>1, ClosedStop
  <1>5. /\ brk' \in [Breaks -> BreakRow]
        /\ \A c \in Breaks \ {b} : brk'[c] = brk[c]
        /\ brk'[b].attendanceSessionId = s /\ brk'[b].status = "ACTIVE"
    BY <1>1 DEF Settled, RecordsTypeOK, BreakRow, NewBreak, Stamp
  <1>6. Settled'
    BY <1>1, <1>2, <1>3, <1>4, <1>5 DEF Settled, RecordsTypeOK, SessionMoves, TimersStop, Open
  <1>7. RowsAdvance
    BY <1>1, <1>2, <1>3, <1>4, <1>5 DEF Settled, RowsAdvance, SessionMoves, TimersStop, Open
  <1>8. QED
    BY <1>6, <1>7

LEMMA EndBreakSettled ==
  ASSUME Settled, NEW u \in Users, Day!EndBreak(u, now)
  PROVE  Settled' /\ RowsAdvance
  <1>1. PICK s \in Sessions :
           /\ session[s].status = "ON_BREAK"
           /\ brk' = EndedBreaks(ActiveBreaks(s), now)
           /\ session' = [session EXCEPT ![s].status = "ACTIVE"]
    BY DEF Day!EndBreak, Day!SessionsIn, EndedBreaks, Day!EndedBreaks, ActiveBreaks,
           Day!ActiveBreaks
  <1>2. UNCHANGED <<now, entry>>
    BY DEF Day!EndBreak
  <1>3. /\ SessionMoves(s) /\ session'[s].status = "ACTIVE"
        /\ session'[s].clockOutAt = session[s].clockOutAt
    BY <1>1 DEF Settled, RecordsTypeOK, SessionRow, SessionMoves, Open
  <1>4. BreaksStop(s)
    BY <1>1, EndedStop
  <1>5. Settled'
    BY <1>1, <1>2, <1>3, <1>4 DEF Settled, RecordsTypeOK, SessionMoves, BreaksStop, Open
  <1>6. RowsAdvance
    BY <1>1, <1>2, <1>3, <1>4 DEF Settled, RowsAdvance, SessionMoves, BreaksStop, Open
  <1>7. QED
    BY <1>5, <1>6

\* The segments of a user whose timer stops, and one that may be inserted.
LEMMA TimersSettle ==
  ASSUME Settled, NEW u \in Users, UNCHANGED <<now, session, brk>>,
         entry' \in [Entries -> EntryRow],
         \A e \in Entries :
            \/ entry'[e] = entry[e]
            \/ /\ entry[e].status = "RUNNING"
               /\ entry'[e].status = "CLOSED" /\ entry'[e].endAt = now
               /\ entry'[e].endAt # NoStamp
               /\ entry'[e].userId = entry[e].userId
               /\ entry'[e].attendanceSessionId = entry[e].attendanceSessionId
               /\ entry'[e].startAt = entry[e].startAt
            \/ /\ entry[e].status = "ABSENT"
               /\ entry'[e].status = "RUNNING" /\ entry'[e].endAt = NoStamp
               /\ entry'[e].attendanceSessionId \in Sessions
               /\ session[entry'[e].attendanceSessionId].status \in Open
               /\ session[entry'[e].attendanceSessionId].userId = entry'[e].userId
  PROVE  Settled' /\ RowsAdvance
  <1>1. Settled'
    BY DEF Settled, RecordsTypeOK
  <1>2. RowsAdvance
    BY DEF Settled, RowsAdvance
  <1>3. QED
    BY <1>1, <1>2

LEMMA StartTimerSettled ==
  ASSUME Settled, NEW u \in Users, NEW k \in Tasks, Day!StartTimer(u, k, now)
  PROVE  Settled' /\ RowsAdvance
  <1>1. PICK s \in Sessions, e \in Entries :
           /\ session[s].userId = u /\ session[s].status = "ACTIVE"
           /\ entry[e].status = "ABSENT"
           /\ entry' = [entry EXCEPT ![e] = NewEntry(u, k, s, now)]
           /\ UNCHANGED <<now, session, brk>>
    BY DEF Day!StartTimer, Day!SessionsIn, NewEntry, Day!NewEntry, NoStamp, Day!NoStamp
  <1>2. /\ entry' \in [Entries -> EntryRow]
        /\ \A f \in Entries \ {e} : entry'[f] = entry[f]
        /\ entry'[e].userId = u /\ entry'[e].attendanceSessionId = s
        /\ entry'[e].status = "RUNNING" /\ entry'[e].endAt = NoStamp
    BY <1>1 DEF Settled, RecordsTypeOK, EntryRow, NewEntry, Stamp
  <1>3. Settled' /\ RowsAdvance
    BY <1>1, <1>2, TimersSettle DEF Open
  <1>4. QED
    BY <1>3

LEMMA StopTimerSettled ==
  ASSUME Settled, NEW u \in Users, Day!StopTimer(u, now)
  PROVE  Settled' /\ RowsAdvance
  <1>1. entry' = ClosedEntries(RunningEntries(u), now) /\ UNCHANGED <<now, session, brk>>
    BY DEF Day!StopTimer, ClosedEntries, Day!ClosedEntries, RunningEntries, Day!RunningEntries
  <1>2. TimersStop(u)
    BY <1>1, ClosedStop
  <1>3. Settled' /\ RowsAdvance
    BY <1>1, <1>2, TimersSettle DEF TimersStop
  <1>4. QED
    BY <1>3

LEMMA SwitchTaskSettled ==
  ASSUME Settled, NEW u \in Users, NEW k \in Tasks, Day!SwitchTask(u, k, now)
  PROVE  Settled' /\ RowsAdvance
  <1>1. PICK s \in Sessions, e \in Entries :
           /\ session[s].userId = u /\ session[s].status = "ACTIVE"
           /\ entry[e].status = "ABSENT"
           /\ entry' = [ClosedEntries(RunningEntries(u), now)
                           EXCEPT ![e] = NewEntry(u, k, s, now)]
           /\ UNCHANGED <<now, session, brk>>
    BY DEF Day!SwitchTask, Day!SessionsIn, NewEntry, Day!NewEntry, NoStamp, Day!NoStamp,
           ClosedEntries, Day!ClosedEntries, RunningEntries, Day!RunningEntries
  <1> DEFINE closed == ClosedEntries(RunningEntries(u), now)
  <1>2. /\ closed \in [Entries -> EntryRow]
        /\ \A f \in Entries :
              \/ closed[f] = entry[f]
              \/ /\ entry[f].status = "RUNNING"
                 /\ closed[f].status = "CLOSED" /\ closed[f].endAt = now
                 /\ closed[f].endAt # NoStamp
                 /\ closed[f].userId = entry[f].userId
                 /\ closed[f].attendanceSessionId = entry[f].attendanceSessionId
                 /\ closed[f].startAt = entry[f].startAt
    <2>1. /\ RecordsTypeOK /\ now \in Nat
          /\ \A f \in Entries : f \in RunningEntries(u) => entry[f].status = "RUNNING"
      BY DEF Settled, RecordsTypeOK, RunningEntries
    <2>2. now # NoStamp
      BY <2>1 DEF NoStamp
    <2> HIDE DEF closed
    <2>3. QED
      BY <2>1, <2>2, ZenonT(60) DEF closed, ClosedEntries, RecordsTypeOK, EntryRow, Stamp
  <1> HIDE DEF closed
  <1>3. NewEntry(u, k, s, now) \in EntryRow
    BY DEF Settled, RecordsTypeOK, EntryRow, NewEntry, Stamp, NoStamp
  <1>4. /\ entry' \in [Entries -> EntryRow]
        /\ \A f \in Entries \ {e} : entry'[f] = closed[f]
        /\ entry'[e] = NewEntry(u, k, s, now)
    BY <1>1, <1>2, <1>3 DEF closed
  <1>5. /\ entry'[e].userId = u /\ entry'[e].attendanceSessionId = s
        /\ entry'[e].status = "RUNNING" /\ entry'[e].endAt = NoStamp
    BY <1>4 DEF NewEntry
  <1>6. Settled' /\ RowsAdvance
    BY <1>1, <1>2, <1>4, <1>5, TimersSettle DEF Open
  <1>7. QED
    BY <1>6

LEMMA OthersSettled ==
  ASSUME Settled, Others
  PROVE  Settled' /\ RowsAdvance
  <1>1. CASE Tick /\ UNCHANGED tables
    <2>1. Settled' /\ RowsAdvance
      BY <1>1 DEF Tick, tables, Settled, RecordsTypeOK, RowsAdvance
    <2>2. QED
      BY <2>1
  <1>2. ASSUME NEW u \in Users, Day!ServeAt(u, now) PROVE Settled' /\ RowsAdvance
    BY <1>2, ClockInSettled, ClockOutSettled, StartBreakSettled, EndBreakSettled,
       StartTimerSettled, StopTimerSettled, SwitchTaskSettled DEF Day!ServeAt
  <1>3. QED
    BY <1>1, <1>2 DEF Others

\* A day that was over is behind the clock.
LEMMA DayBehind ==
  ASSUME now \in Nat, NEW day \in Int, day < now \div DayLength
  PROVE  (day + 1) * DayLength =< now
  <1> DEFINE q == now \div DayLength
  <1>1. DayLength \in Nat /\ DayLength > 0
    BY DayLengthAssumption
  <1>2. q \in Int /\ q * DayLength =< now
    BY <1>1
  <1> HIDE DEF q
  <1>3. \A m, n, l \in Int : m =< n /\ 0 =< l => m * l =< n * l
    OBVIOUS
  <1>4. day + 1 =< q
    BY <1>2 DEF q
  <1>5. (day + 1) * DayLength =< q * DayLength
    BY <1>1, <1>2, <1>3, <1>4
  <1>6. (day + 1) * DayLength \in Int /\ q * DayLength \in Int
    BY <1>1, <1>2
  <1>7. QED
    BY <1>2, <1>5, <1>6

\* ... and stays there.
LEMMA DaysPass ==
  ASSUME NEW t \in Nat, NEW n \in Nat, t =< n
  PROVE  t \div DayLength \in Int /\ n \div DayLength \in Int
         /\ t \div DayLength =< n \div DayLength
  <1> DEFINE p == t \div DayLength
             q == n \div DayLength
  <1>1. DayLength \in Nat /\ DayLength > 0
    BY DayLengthAssumption
  <1>2. /\ p \in Int /\ p * DayLength =< t
        /\ q \in Int /\ n < (q + 1) * DayLength
    BY <1>1
  <1> HIDE DEF p, q
  <1>3. \A m, l \in Int : 0 < l /\ q + 1 =< m => (q + 1) * l =< m * l
    BY <1>2
  <1>4. p =< q
    <2> SUFFICES ASSUME q + 1 =< p PROVE FALSE
      BY <1>2
    <2>1. (q + 1) * DayLength =< p * DayLength
      BY <1>1, <1>2, <1>3
    <2>2. (q + 1) * DayLength \in Int /\ p * DayLength \in Int
      BY <1>1, <1>2
    <2>3. QED
      BY <1>2, <2>1, <2>2
  <1>5. QED
    BY <1>2, <1>4 DEF p, q

\* The rows of a session that is over.
LEMMA OverRows ==
  ASSUME Settled, NEW s \in Sessions, session[s].status = "COMPLETED"
  PROVE  /\ \A b \in BreaksOf(s) : b \in Breaks /\ brk[b].endAt # NoStamp
         /\ \A e \in EntriesOf(s) : e \in Entries /\ entry[e].endAt # NoStamp
  <1>1. s # None
    BY NoneAssumption
  <1>2. ASSUME NEW b \in BreaksOf(s) PROVE b \in Breaks /\ brk[b].endAt # NoStamp
    <2>1. b \in Breaks /\ brk[b].attendanceSessionId = s /\ brk[b] \in BreakRow
      BY DEF BreaksOf, Settled, RecordsTypeOK
    <2>2. brk[b].status = "COMPLETED"
      BY <1>1, <2>1 DEF Settled, BreakRow, Open
    <2>3. QED
      BY <2>1, <2>2 DEF Settled
  <1>3. ASSUME NEW e \in EntriesOf(s) PROVE e \in Entries /\ entry[e].endAt # NoStamp
    <2>1. e \in Entries /\ entry[e].attendanceSessionId = s /\ entry[e] \in EntryRow
      BY DEF EntriesOf, Settled, RecordsTypeOK
    <2>2. entry[e].status = "CLOSED"
      BY <1>1, <2>1 DEF Settled, EntryRow, Open
    <2>3. QED
      BY <2>1, <2>2 DEF Settled
  <1>4. QED
    BY <1>2, <1>3

\* What they add up to no longer depends on the clock or on what is served.
LEMMA SumsStand ==
  ASSUME Settled, RowsAdvance, NEW s \in Sessions,
         session[s].status = "COMPLETED", session[s].clockOutAt # NoStamp
  PROVE  reconcile(s)' = reconcile(s)
  <1>1. session'[s] = session[s]
    BY DEF RowsAdvance
  <1>2. /\ BreaksOf(s)' = BreaksOf(s)
        /\ \A b \in BreaksOf(s) : brk'[b] = brk[b]
    <2>1. \A b \in Breaks : brk[b].attendanceSessionId = s \/ brk'[b].attendanceSessionId = s
                               => brk'[b] = brk[b]
      BY NoneAssumption DEF RowsAdvance, Open
    <2>2. QED
      BY <2>1 DEF BreaksOf
  <1>3. /\ EntriesOf(s)' = EntriesOf(s)
        /\ \A e \in EntriesOf(s) : entry'[e] = entry[e]
    <2>1. \A e \in Entries : entry[e].attendanceSessionId = s \/ entry'[e].attendanceSessionId = s
                                => entry'[e] = entry[e]
      BY NoneAssumption DEF RowsAdvance, Open
    <2>2. QED
      BY <2>1 DEF EntriesOf
  <1>4. /\ AttendanceOf(s)' = AttendanceOf(s)
        /\ EndOr(AttendanceOf(s), now)' = EndOr(AttendanceOf(s), now)
    BY <1>1 DEF AttendanceOf, EndOr
  <1>5. \A b \in BreaksOf(s) :
           /\ BreakOf(b)' = BreakOf(b)
           /\ EndOr(BreakOf(b), now)' = EndOr(BreakOf(b), now)
    BY <1>2, OverRows DEF BreakOf, EndOr
  <1>6. \A e \in EntriesOf(s) :
           /\ SegmentOf(e)' = SegmentOf(e)
           /\ EndOr(SegmentOf(e), now)' = EndOr(SegmentOf(e), now)
    BY <1>3, OverRows DEF SegmentOf, EndOr
  <1>7. calculateBreakMinutes(s)' = calculateBreakMinutes(s)
    <2> DEFINE clip(a, b, z) == overlapMinutes(a, b.start, z)
               f == [b \in BreaksOf(s) |->
                       clip(AttendanceOf(s), BreakOf(b), EndOr(BreakOf(b), now))]
    <2>1. calculateBreakMinutes(s) = SumFunction(f)
      BY DEF calculateBreakMinutes
    <2>2. f' = f
      BY <1>2, <1>4, <1>5 DEF overlapMinutes, EndOr
    <2>3. calculateBreakMinutes(s)' = SumFunction(f')
      BY DEF calculateBreakMinutes
    <2>4. QED
      BY <2>1, <2>2, <2>3
  <1>8. calculateTaskMinutes(s)' = calculateTaskMinutes(s)
    <2> DEFINE f == [e \in EntriesOf(s) |->
                       Positive(EndOr(SegmentOf(e), now) - SegmentOf(e).start)]
    <2>1. calculateTaskMinutes(s) = SumFunction(f)
      BY DEF calculateTaskMinutes
    <2>2. f' = f
      BY <1>3, <1>6 DEF Positive
    <2>3. calculateTaskMinutes(s)' = SumFunction(f')
      BY DEF calculateTaskMinutes
    <2>4. QED
      BY <2>1, <2>2, <2>3
  <1>9. calculateNetWorkingMinutes(s)' = calculateNetWorkingMinutes(s)
    BY <1>4, <1>7 DEF calculateNetWorkingMinutes, Positive
  <1>10. QED
    BY <1>7, <1>8, <1>9 DEF reconcile, Positive

\* No session joins or leaves a day that is over.
LEMMA SessionsStand ==
  ASSUME Settled, Settled', RowsAdvance, NEW u, NEW day \in Int, day < now \div DayLength
  PROVE  SessionsOf(u, day)' = SessionsOf(u, day)
  <1>1. now \in Nat /\ session \in [Sessions -> SessionRow] /\ session' \in [Sessions -> SessionRow]
    BY DEF Settled, RecordsTypeOK
  <1> DEFINE from == day * DayLength
             to == (day + 1) * DayLength
  <1>2. from \in Int /\ to \in Int
    BY DayLengthAssumption
  <1>3. to =< now
    BY <1>1, DayBehind
  <1>4. \A s : /\ s \in SessionsOf(u, day) <=>
                     /\ s \in Sessions /\ session[s].userId = u
                     /\ session[s].status \in Open \cup {"COMPLETED"}
                     /\ session[s].clockInAt \in from .. to - 1
               /\ s \in SessionsOf(u, day)' <=>
                     /\ s \in Sessions /\ session'[s].userId = u
                     /\ session'[s].status \in Open \cup {"COMPLETED"}
                     /\ session'[s].clockInAt \in from .. to - 1
    BY DEF SessionsOf, SessionsIn
  <1> HIDE DEF from, to
  <1>5. now \notin from .. to - 1
    BY <1>1, <1>2, <1>3
  <1>6. \A s \in Sessions :
           /\ session[s].status \in Open \cup {"COMPLETED"} <=> session[s].status # "ABSENT"
           /\ session'[s].status \in Open \cup {"COMPLETED"} <=> session'[s].status # "ABSENT"
    BY <1>1 DEF SessionRow, Open
  <1>7. ASSUME NEW s \in SessionsOf(u, day) PROVE s \in SessionsOf(u, day)'
    BY <1>4, <1>6, <1>7 DEF RowsAdvance
  <1>8. ASSUME NEW s \in SessionsOf(u, day)' PROVE s \in SessionsOf(u, day)
    BY <1>4, <1>5, <1>6, <1>8 DEF RowsAdvance
  <1>9. QED
    BY <1>7, <1>8

\* A user whose day is over and completed keeps the unallocated time of that day.
LEMMA DayStands ==
  ASSUME Settled, Settled', RowsAdvance, NEW u \in Users, NEW day \in Int,
         day < now \div DayLength, u \in CompletedUsers(day)
  PROVE  /\ u \in CompletedUsers(day)'
         /\ unallocatedMinutes(u, day)' = unallocatedMinutes(u, day)
  <1>1. SessionsOf(u, day)' = SessionsOf(u, day)
    BY SessionsStand
  <1>2. \A s \in SessionsOf(u, day) :
           /\ s \in Sessions /\ session[s].status = "COMPLETED"
           /\ session[s].clockOutAt # NoStamp
    BY DEF CompletedUsers, SessionsOf, SessionsIn, Settled
  <1>3. \A s \in SessionsOf(u, day) : session'[s] = session[s] /\ reconcile(s)' = reconcile(s)
    BY <1>2, SumsStand DEF RowsAdvance
  <1>4. u \in CompletedUsers(day)'
    BY <1>1, <1>3 DEF CompletedUsers
  <1> DEFINE f == [s \in SessionsOf(u, day) |-> reconcile(s).unallocatedMinutes]
  <1>5. unallocatedMinutes(u, day) = SumFunction(f)
    BY DEF unallocatedMinutes
  <1>6. f' = f
    BY <1>1, <1>3
  <1>7. unallocatedMinutes(u, day)' = SumFunction(f')
    BY DEF unallocatedMinutes
  <1>8. QED
    BY <1>4, <1>5, <1>6, <1>7

\* Key k was rightly listed at time t.
Due(k, t) ==
    /\ k[1] = "session" =>
          /\ session[k[2]].status # "ABSENT"
          /\ session[k[2]].clockInAt + ClockOutThreshold =< t
          /\ OpenAt(session[k[2]].clockOutAt, t)
    /\ k[1] = "timer" =>
          /\ entry[k[2]].status # "ABSENT"
          /\ entry[k[2]].startAt + TimerThreshold =< t
          /\ OpenAt(entry[k[2]].endAt, t)
    /\ k[1] = "unallocated" => k[2] \in CompletedUsers(k[3]) /\ k[3] < t \div DayLength
Enough(k) ==
    k[1] = "unallocated" => unallocatedMinutes(k[2], k[3]) >= UnallocatedThreshold

\* Every key a run has yet to look at, or holds, was rightly listed, and what it
\* is about to insert is enough.
Rightly(state) ==
    /\ state.listedAt \in Nat /\ state.listedAt =< now
    /\ \A k \in Keys :
          /\ k \in state.todo =>
                /\ Due(k, state.listedAt)
                /\ state.stage # "unallocated" => k[1] # "unallocated"
          /\ state.pc \in {"summary", "create"} /\ state.key = k => Due(k, state.listedAt)
          /\ state.pc = "create" /\ state.key = k => Enough(k)
\* What was inserted was rightly listed, and is enough.
Truly(row) ==
    /\ row \in Row
    /\ row.listedAt =< row.createdAt /\ row.createdAt =< now
    /\ Due(row.dedupeKey, row.listedAt) /\ Enough(row.dedupeKey)

\* The inductive invariant.
TruthIInv ==
    /\ Settled
    /\ \A i \in DOMAIN notification : Truly(notification[i])
    /\ \A r \in Runs : Rightly(run[r])

LEMMA KeyKinds ==
  ASSUME NEW k \in Keys
  PROVE  \/ k[1] = "session" /\ k[2] \in Sessions
         \/ k[1] = "timer" /\ k[2] \in Entries
         \/ k[1] = "unallocated" /\ k[2] \in Users /\ k[3] \in Int
  BY DEF Keys

\* What was rightly listed stays so, and enough of a day that was over stays enough.
LEMMA DueStays ==
  ASSUME Settled, Settled', RowsAdvance, NEW k \in Keys, NEW t \in Nat, t =< now, Due(k, t)
  PROVE  /\ Due(k, t)'
         /\ Enough(k) => Enough(k)'
  <1>1. /\ now \in Nat /\ now' \in Nat /\ now =< now' /\ t =< now'
        /\ session \in [Sessions -> SessionRow] /\ entry \in [Entries -> EntryRow]
    BY DEF Settled, RecordsTypeOK, RowsAdvance
  <1>2. CASE k[1] = "session" /\ k[2] \in Sessions
    <2>1. /\ session'[k[2]].status # "ABSENT"
          /\ session'[k[2]].clockInAt = session[k[2]].clockInAt
      BY <1>2 DEF Due, RowsAdvance
    <2>2. session[k[2]].clockInAt \in Int /\ ClockOutThreshold \in Int
      BY <1>1, <1>2, SettingsAssumption DEF SessionRow, Stamp, NoStamp
    <2>3. session'[k[2]].clockInAt + ClockOutThreshold =< t
      BY <1>2, <2>1 DEF Due
    <2>4. OpenAt(session'[k[2]].clockOutAt, t)
      <3>1. /\ OpenAt(session[k[2]].clockOutAt, t) /\ session[k[2]].status # "ABSENT"
            /\ session[k[2]].clockOutAt \in Int
        BY <1>1, <1>2 DEF Due, SessionRow, Stamp, NoStamp
      <3>2. session'[k[2]].clockOutAt \in {session[k[2]].clockOutAt, now}
        BY <1>2, <3>1 DEF RowsAdvance
      <3> QED BY <1>1, <3>1, <3>2 DEF OpenAt
    <2>5. QED
      BY <1>2, <2>1, <2>3, <2>4 DEF Due, Enough
  <1>3. CASE k[1] = "timer" /\ k[2] \in Entries
    <2>1. /\ entry'[k[2]].status # "ABSENT"
          /\ entry'[k[2]].startAt = entry[k[2]].startAt
      BY <1>3 DEF Due, RowsAdvance
    <2>2. entry[k[2]].startAt \in Int /\ TimerThreshold \in Int
      BY <1>1, <1>3, SettingsAssumption DEF EntryRow, Stamp, NoStamp
    <2>3. entry'[k[2]].startAt + TimerThreshold =< t
      BY <1>3, <2>1 DEF Due
    <2>4. OpenAt(entry'[k[2]].endAt, t)
      <3>1. /\ OpenAt(entry[k[2]].endAt, t) /\ entry[k[2]].status # "ABSENT"
            /\ entry[k[2]].endAt \in Int
        BY <1>1, <1>3 DEF Due, EntryRow, Stamp, NoStamp
      <3>2. entry'[k[2]].endAt \in {entry[k[2]].endAt, now}
        BY <1>3, <3>1 DEF RowsAdvance
      <3> QED BY <1>1, <3>1, <3>2 DEF OpenAt
    <2>5. QED
      BY <1>3, <2>1, <2>3, <2>4 DEF Due, Enough
  <1>4. CASE k[1] = "unallocated" /\ k[2] \in Users /\ k[3] \in Int
    <2>1. k[2] \in CompletedUsers(k[3]) /\ k[3] < t \div DayLength
      BY <1>4 DEF Due
    <2>2. /\ t \div DayLength \in Int /\ now \div DayLength \in Int
          /\ t \div DayLength =< now \div DayLength
      BY <1>1, DaysPass
    <2>4. k[3] < now \div DayLength
      BY <1>4, <2>1, <2>2
    <2>5. /\ k[2] \in CompletedUsers(k[3])'
          /\ unallocatedMinutes(k[2], k[3])' = unallocatedMinutes(k[2], k[3])
      BY <1>4, <2>1, <2>4, DayStands
    <2>6. Enough(k) => Enough(k)'
      BY <2>5 DEF Enough
    <2>7. QED
      BY <1>4, <2>1, <2>4, <2>5, <2>6 DEF Due
  <1>5. QED
    BY <1>2, <1>3, <1>4, KeyKinds

\* A step keeps the invariant if what it lists, holds and inserts is right.
LEMMA TruthKept ==
  ASSUME TruthIInv, Settled', RowsAdvance,
         \A i \in DOMAIN notification' : Truly(notification'[i]),
         \A r \in Runs : Rightly(run'[r])
  PROVE  TruthIInv'
  <1>1. /\ Settled /\ now \in Nat /\ now' \in Nat /\ now =< now'
    BY DEF TruthIInv, Settled, RecordsTypeOK, RowsAdvance
  <1>2. \A k \in Keys, t \in Nat : t =< now /\ Due(k, t) =>
           Due(k, t)' /\ (Enough(k) => Enough(k)')
    BY <1>1, DueStays
  <1>3. ASSUME NEW i \in DOMAIN notification'
        PROVE  Truly(notification[i])'
    <2> PICK row : row = notification'[i]
      OBVIOUS
    <2>1. Truly(row)
      OBVIOUS
    <2>2. /\ row \in Row /\ row.dedupeKey \in Keys /\ row.listedAt \in Nat
          /\ row.createdAt \in Nat /\ row.listedAt =< row.createdAt /\ row.createdAt =< now
          /\ Due(row.dedupeKey, row.listedAt) /\ Enough(row.dedupeKey)
      BY <2>1 DEF Truly, Row
    <2>3. PICK k \in Keys, t \in Nat : k = row.dedupeKey /\ t = row.listedAt
      BY <2>2
    <2>4. Due(k, t)' /\ Enough(k)'
      BY <1>1, <1>2, <2>2, <2>3
    <2>5. row.createdAt =< now'
      BY <1>1, <2>2
    <2> QED BY <2>2, <2>3, <2>4, <2>5 DEF Truly
  <1>4. ASSUME NEW r \in Runs
        PROVE  Rightly(run[r])'
    <2> PICK state : state = run'[r]
      OBVIOUS
    <2>1. Rightly(state)
      OBVIOUS
    <2>2. PICK t \in Nat : t = state.listedAt /\ t =< now
      BY <2>1 DEF Rightly
    <2>3. t =< now'
      BY <1>1, <2>2
    <2>4. ASSUME NEW k \in Keys
          PROVE  /\ k \in state.todo =>
                       /\ Due(k, t)'
                       /\ state.stage # "unallocated" => k[1] # "unallocated"
                 /\ state.pc \in {"summary", "create"} /\ state.key = k => Due(k, t)'
                 /\ state.pc = "create" /\ state.key = k => Enough(k)'
      BY <1>2, <2>1, <2>2 DEF Rightly
    <2> QED BY <2>2, <2>3, <2>4 DEF Rightly
  <1>5. QED
    BY <1>1, <1>3, <1>4 DEF TruthIInv

\* What a scan lists is rightly listed now.
LEMMA ListedDue ==
  ASSUME Settled, NEW stage \in Stages, NEW k \in Listed(stage)
  PROVE  Due(k, now) /\ (stage # "unallocated" => k[1] # "unallocated")
  <1>1. now \in Nat /\ session \in [Sessions -> SessionRow] /\ entry \in [Entries -> EntryRow]
    BY DEF Settled, RecordsTypeOK
  <1>2. CASE stage = "clockOuts"
    <2>1. PICK s \in LongOpen : k = <<"session", s>>
      BY <1>2 DEF Listed
    <2>2. /\ s \in Sessions /\ session[s].status # "ABSENT"
          /\ session[s].clockInAt =< now - ClockOutThreshold
          /\ session[s].clockOutAt = NoStamp
      BY DEF LongOpen, Open, Settled
    <2>3. session[s].clockInAt + ClockOutThreshold =< now
      BY <1>1, <2>2, SettingsAssumption DEF SessionRow, Stamp, NoStamp
    <2>4. QED
      BY <2>1, <2>2, <2>3 DEF Due, OpenAt
  <1>3. CASE stage = "timers"
    <2>1. PICK e \in LongRunning : k = <<"timer", e>>
      BY <1>3 DEF Listed
    <2>2. /\ e \in Entries /\ entry[e].status # "ABSENT"
          /\ entry[e].startAt =< now - TimerThreshold
          /\ entry[e].endAt = NoStamp
      BY DEF LongRunning, Settled
    <2>3. entry[e].startAt + TimerThreshold =< now
      BY <1>1, <2>2, SettingsAssumption DEF EntryRow, Stamp, NoStamp
    <2>4. QED
      BY <2>1, <2>2, <2>3 DEF Due, OpenAt
  <1>4. CASE stage = "unallocated"
    <2>1. PICK u \in CompletedUsers(Yesterday) : k = <<"unallocated", u, Yesterday>>
      BY <1>4 DEF Listed
    <2>2. Yesterday < now \div DayLength
      BY <1>1, DayLengthAssumption DEF Yesterday
    <2>3. QED
      BY <1>4, <2>1, <2>2 DEF Due
  <1>5. QED
    BY <1>2, <1>3, <1>4 DEF Stages

LEMMA InitTruth == Init => TruthIInv
  <1> SUFFICES ASSUME Init PROVE TruthIInv
    OBVIOUS
  <1>1. Settled
    BY DEF Init, RecordsInit, Settled, RecordsTypeOK, SessionRow, BreakRow, EntryRow,
           NoSession, NoBreak, NoEntry, Stamp, NoStamp, Open
  <1>2. now = 0 /\ notification = << >> /\ \A r \in Runs : run[r] = AtRest
    BY DEF Init, RecordsInit
  <1>3. \A r \in Runs : Rightly(run[r])
    BY <1>2 DEF Rightly, AtRest
  <1>4. QED
    BY <1>1, <1>2, <1>3 DEF TruthIInv

\* A step of a run leaves the records and the clock alone.
LEMMA RecordsStay ==
  ASSUME TruthIInv, UNCHANGED <<now, tables>>
  PROVE  Settled' /\ RowsAdvance
  <1>1. Settled'
    BY DEF TruthIInv, tables, Settled, RecordsTypeOK
  <1>2. RowsAdvance
    BY DEF tables, RowsAdvance
  <1>3. QED
    BY <1>1, <1>2

\* A run that goes on inserts nothing: what matters is what it has left to do.
LEMMA GoOnTrue ==
  ASSUME TruthIInv, TypeOK, NEW r \in Runs, NEW state, GoOn(r, state), Rightly(state)
  PROVE  TruthIInv'
  <1>1. UNCHANGED <<now, tables, notification>> /\ run' = [run EXCEPT ![r] = state]
    BY DEF GoOn
  <1>2. run'[r] = state /\ \A q \in Runs \ {r} : run'[q] = run[q]
    BY <1>1 DEF TypeOK
  <1>3. \A q \in Runs : Rightly(run'[q])
    BY <1>2 DEF TruthIInv
  <1>4. \A i \in DOMAIN notification' : Truly(notification'[i])
    BY <1>1 DEF TruthIInv
  <1>5. Settled' /\ RowsAdvance
    BY <1>1, RecordsStay
  <1>6. QED
    BY <1>3, <1>4, <1>5, TruthKept

LEMMA BeginTrue ==
  ASSUME TruthIInv, TypeOK, NEW r \in Runs, Begin(r)
  PROVE  TruthIInv'
  <1> DEFINE state == [run[r] EXCEPT !.pc = "list"]
  <1>1. run[r] \in RunState
    BY DEF TypeOK
  <1>2. /\ state.pc = "list" /\ state.todo = run[r].todo /\ state.stage = run[r].stage
        /\ state.listedAt = run[r].listedAt
    BY <1>1 DEF RunState
  <1>3. GoOn(r, state)
    BY DEF Begin
  <1> HIDE DEF state
  <1>4. Rightly(state)
    BY <1>2, <1>3 DEF TruthIInv, Rightly
  <1>5. QED
    BY <1>2, <1>3, <1>4, GoOnTrue

LEMMA ListTrue ==
  ASSUME TruthIInv, TypeOK, NEW r \in Runs, List(r)
  PROVE  TruthIInv'
  <1> DEFINE state == [run[r] EXCEPT !.pc = "find", !.todo = Listed(run[r].stage),
                                     !.listedAt = now]
  <1>1. run[r] \in RunState /\ now \in Nat
    BY DEF TypeOK
  <1>2. /\ state.pc = "find" /\ state.todo = Listed(run[r].stage) /\ state.listedAt = now
        /\ state.stage = run[r].stage /\ run[r].stage \in Stages
    BY <1>1 DEF RunState
  <1>3. GoOn(r, state) /\ Settled
    BY DEF List, TruthIInv
  <1> HIDE DEF state
  <1>4. \A k \in Keys : k \in state.todo =>
           Due(k, now) /\ (state.stage # "unallocated" => k[1] # "unallocated")
    BY <1>2, <1>3, ListedDue
  <1>5. Rightly(state)
    BY <1>1, <1>2, <1>4 DEF Rightly
  <1>6. QED
    BY <1>3, <1>5, GoOnTrue

LEMMA FindTrue ==
  ASSUME TruthIInv, TypeOK, NEW r \in Runs, Find(r)
  PROVE  TruthIInv'
  <1>1. run[r] \in RunState /\ run[r].pc = "find" /\ run[r].todo \subseteq Keys
    BY DEF TypeOK, RunState, Find
  <1>2. PICK k \in run[r].todo :
           IF Blocking(k) # {} THEN GoOn(r, [run[r] EXCEPT !.todo = @ \ {k}])
           ELSE GoOn(r, [run[r] EXCEPT
                   !.todo = @ \ {k}, !.key = k,
                   !.pc = IF run[r].stage = "unallocated" THEN "summary" ELSE "create"])
    BY DEF Find
  <1>3. CASE Blocking(k) # {}
    <2> DEFINE state == [run[r] EXCEPT !.todo = @ \ {k}]
    <2>1. /\ state.pc = "find" /\ state.todo \subseteq run[r].todo /\ state.stage = run[r].stage
          /\ state.listedAt = run[r].listedAt
      BY <1>1 DEF RunState
    <2>2. GoOn(r, state)
      BY <1>2, <1>3
    <2> HIDE DEF state
    <2>3. Rightly(state)
      BY <2>1, <2>2 DEF TruthIInv, Rightly
    <2>4. QED
      BY <2>1, <2>2, <2>3, GoOnTrue
  <1>4. CASE Blocking(k) = {}
    <2> DEFINE state == [run[r] EXCEPT
                  !.todo = @ \ {k}, !.key = k,
                  !.pc = IF run[r].stage = "unallocated" THEN "summary" ELSE "create"]
    <2>1. /\ state.key = k /\ state.todo \subseteq run[r].todo /\ state.stage = run[r].stage
          /\ state.listedAt = run[r].listedAt
          /\ state.pc = "create" => run[r].stage # "unallocated"
      BY <1>1 DEF RunState
    <2>2. GoOn(r, state)
      BY <1>2, <1>4
    <2> HIDE DEF state
    <2>3. /\ k \in Keys /\ Due(k, state.listedAt)
          /\ run[r].stage # "unallocated" => k[1] # "unallocated"
      BY <1>1, <1>2, <2>1 DEF TruthIInv, Rightly
    <2>4. state.pc = "create" => Enough(k)
      BY <2>1, <2>3 DEF Enough
    <2>5. Rightly(state)
      BY <2>1, <2>3, <2>4 DEF TruthIInv, Rightly
    <2>6. QED
      BY <2>2, <2>5, GoOnTrue
  <1>5. QED
    BY <1>3, <1>4

\* The summary is of a day whose sums no longer change.
LEMMA SummaryTrue ==
  ASSUME TruthIInv, IInv, NEW r \in Runs, Summary(r)
  PROVE  TruthIInv'
  <1> DEFINE skip == [run[r] EXCEPT !.pc = "find", !.key = None]
             keep == [run[r] EXCEPT !.pc = "create"]
             k == run[r].key
  <1>1. /\ run[r] \in RunState /\ run[r].pc = "summary" /\ run[r].key \in Keys /\ TypeOK
    BY DEF IInv, TypeOK, RunState, Summary
  <1>2. CASE GoOn(r, skip)
    <2>1. /\ skip.pc = "find" /\ skip.todo = run[r].todo /\ skip.stage = run[r].stage
          /\ skip.listedAt = run[r].listedAt
      BY <1>1 DEF RunState
    <2> HIDE DEF skip
    <2>2. Rightly(skip)
      BY <1>1, <1>2, <2>1 DEF TruthIInv, Rightly
    <2>3. QED
      BY <1>1, <1>2, <2>1, <2>2, GoOnTrue
  <1>3. CASE GoOn(r, keep) /\ unallocatedMinutes(k[2], k[3]) >= UnallocatedThreshold
    <2>1. /\ keep.pc = "create" /\ keep.todo = run[r].todo /\ keep.stage = run[r].stage
          /\ keep.key = k /\ keep.listedAt = run[r].listedAt
      BY <1>1 DEF RunState
    <2> HIDE DEF keep
    <2>2. Enough(k)
      BY <1>3 DEF Enough
    <2>3. Rightly(keep)
      BY <1>1, <2>1, <2>2 DEF TruthIInv, Rightly
    <2>4. QED
      BY <1>1, <1>3, <2>3, GoOnTrue
  <1>4. QED
    BY <1>2, <1>3 DEF Summary

LEMMA NextStageTrue ==
  ASSUME TruthIInv, TypeOK, NEW r \in Runs, NextStage(r) \/ Lost(r)
  PROVE  TruthIInv'
  <1> DEFINE to(stage) == [run[r] EXCEPT !.pc = "list", !.stage = stage]
  <1>1. run[r] \in RunState /\ now \in Nat
    BY DEF TypeOK
  <1>2. CASE GoOn(r, AtRest)
    <2>1. Rightly(AtRest)
      BY <1>1 DEF AtRest, Rightly
    <2>2. QED
      BY <1>2, <2>1, GoOnTrue
  <1>3. ASSUME NEW stage, GoOn(r, to(stage)), run[r].todo = {}
        PROVE  TruthIInv'
    <2>1. /\ to(stage).pc = "list" /\ to(stage).todo = {}
          /\ to(stage).listedAt = run[r].listedAt
      BY <1>1, <1>3 DEF RunState
    <2> HIDE DEF to
    <2>2. Rightly(to(stage))
      BY <1>3, <2>1 DEF TruthIInv, Rightly
    <2>3. QED
      BY <1>3, <2>1, <2>2, GoOnTrue
  <1>4. QED
    BY <1>2, <1>3 DEF NextStage, Lost

\* The insert: what was held is now in the table.
LEMMA CreateTrue ==
  ASSUME TruthIInv, IInv, NEW r \in Runs, Create(r)
  PROVE  TruthIInv'
  <1> DEFINE key == run[r].key
             last == Len(notification) + 1
             row == [dedupeKey |-> key, createdAt |-> now, listedAt |-> run[r].listedAt]
  <1>1. /\ run \in [Runs -> RunState] /\ run[r].pc = "create" /\ key \in Keys
        /\ notification \in Seq(Row) /\ now \in Nat /\ TypeOK /\ run[r].listedAt \in Nat
    BY DEF IInv, TypeOK, RunState, Create
  <1>2. /\ notification' = Append(notification, row) /\ row \in Row
        /\ run' = [run EXCEPT ![r].pc = "find", ![r].key = None]
        /\ UNCHANGED <<now, tables>>
    BY <1>1 DEF Create, Row
  <1>3. /\ DOMAIN notification' = 1 .. last
        /\ Len(notification) \in Nat
        /\ DOMAIN notification = 1 .. Len(notification)
        /\ notification'[last] = row
        /\ \A i \in DOMAIN notification : notification'[i] = notification[i]
    BY <1>1, <1>2
  <1>4. Truly(row)
    <2>1. run[r].listedAt =< now /\ Due(key, run[r].listedAt) /\ Enough(key)
      BY <1>1 DEF TruthIInv, Rightly
    <2> QED BY <1>1, <1>2, <2>1 DEF Truly
  <1>5. \A q \in Runs : /\ run'[q].listedAt = run[q].listedAt
                        /\ run'[q].todo = run[q].todo /\ run'[q].stage = run[q].stage
                        /\ run'[q].pc \in {"summary", "create"} =>
                              run'[q].pc = run[q].pc /\ run'[q].key = run[q].key
    BY <1>1, <1>2 DEF RunState
  <1> HIDE DEF key, last, row
  <1>6. \A i \in DOMAIN notification' : Truly(notification'[i])
    BY <1>3, <1>4 DEF TruthIInv, last
  <1>7. \A q \in Runs : Rightly(run'[q])
    BY <1>5 DEF TruthIInv, Rightly
  <1>8. Settled' /\ RowsAdvance
    BY <1>2, RecordsStay
  <1>9. QED
    BY <1>6, <1>7, <1>8, TruthKept

\* The runs wait while the records move on.
LEMMA MeanwhileTrue ==
  ASSUME TruthIInv, UNCHANGED <<notification, run>>, Settled', RowsAdvance
  PROVE  TruthIInv'
  <1>1. \A i \in DOMAIN notification' : Truly(notification'[i])
    BY DEF TruthIInv
  <1>2. \A r \in Runs : Rightly(run'[r])
    BY DEF TruthIInv
  <1>3. QED
    BY <1>1, <1>2, TruthKept

LEMMA OthersTrue ==
  ASSUME TruthIInv, Others
  PROVE  TruthIInv'
  <1>1. UNCHANGED <<notification, run>>
    BY DEF Others
  <1>2. Settled' /\ RowsAdvance
    BY OthersSettled DEF TruthIInv
  <1>3. QED
    BY <1>1, <1>2, MeanwhileTrue

\* The reminders of all reachable states were true when their run listed the row,
\* and what they say of a day still is: RemindersTrue, for any number of runs,
\* users, sessions, breaks and segments, and whatever is served meanwhile.
THEOREM RemindersStayTrue == Spec => []RemindersTrue
  <1>1. ASSUME IInv, TruthIInv, [Next]_vars PROVE TruthIInv'
    <2>1. TypeOK
      BY <1>1 DEF IInv
    <2>2. CASE UNCHANGED vars
      <3>1. UNCHANGED <<now, tables, notification, run>>
        BY <2>2 DEF vars, tables
      <3>2. Settled' /\ RowsAdvance
        BY <1>1, <3>1, RecordsStay
      <3>3. QED
        BY <1>1, <3>1, <3>2, MeanwhileTrue
    <2>3. CASE Next
      BY <1>1, <2>1, <2>3, OthersTrue, BeginTrue, ListTrue, FindTrue, SummaryTrue, CreateTrue,
         NextStageTrue DEF Next, Step
    <2>4. QED
      BY <1>1, <2>2, <2>3
  <1>2. TruthIInv => RemindersTrue
    BY DEF TruthIInv, Truly, Due, Enough, RemindersTrue
  <1>3. QED
    BY InitTruth, ScansBounded, <1>1, <1>2, PTL DEF Spec
=============================================================================
