----------------------- MODULE WorkDayRequests_proofs -----------------------
(***************************************************************************)
(* What survives any interleaving of any number of requests: the partial   *)
(* unique indexes' uniqueness, ownership, the agreement of status and end, *)
(* and the order of stamps.  A query only changes its slot (QueryKeeps), a *)
(* refusal empties it (RefuseKeeps); the eight writes are treated one by   *)
(* one, and each leaves what other slots have read true (OthersAgree).     *)
(* Then what holds where a user's requests, and a task's updates, are      *)
(* served one at a time: the handlers implement WorkDay, and a task is     *)
(* neither timed when completed nor brought back by a timer.               *)
(***************************************************************************)
EXTENDS WorkDayRequests, TLAPS

\* Closing segments at t touches their end and status only, and only theirs.
LEMMA EntryUpdate ==
  ASSUME RecordsTypeOK, NEW ids, NEW t \in Nat
  PROVE  /\ ClosedEntries(ids, t) \in [Entries -> EntryRow]
         /\ \A e \in Entries :
               /\ ClosedEntries(ids, t)[e].taskId = entry[e].taskId
               /\ ClosedEntries(ids, t)[e].userId = entry[e].userId
               /\ ClosedEntries(ids, t)[e].attendanceSessionId
                     = entry[e].attendanceSessionId
               /\ ClosedEntries(ids, t)[e].startAt = entry[e].startAt
         /\ \A e \in Entries : e \in ids =>
               /\ ClosedEntries(ids, t)[e].endAt = t
               /\ ClosedEntries(ids, t)[e].status = "CLOSED"
         /\ \A e \in Entries : e \notin ids => ClosedEntries(ids, t)[e] = entry[e]
  BY ZenonT(60) DEF ClosedEntries, RecordsTypeOK, EntryRow, Stamp

\* Completing breaks at t touches their end and status only, and only theirs.
LEMMA BreakUpdate ==
  ASSUME RecordsTypeOK, NEW ids, NEW t \in Nat
  PROVE  /\ EndedBreaks(ids, t) \in [Breaks -> BreakRow]
         /\ \A b \in Breaks :
               /\ EndedBreaks(ids, t)[b].attendanceSessionId
                     = brk[b].attendanceSessionId
               /\ EndedBreaks(ids, t)[b].startAt = brk[b].startAt
         /\ \A b \in Breaks : b \in ids =>
               /\ EndedBreaks(ids, t)[b].endAt = t
               /\ EndedBreaks(ids, t)[b].status = "COMPLETED"
         /\ \A b \in Breaks : b \notin ids => EndedBreaks(ids, t)[b] = brk[b]
  BY ZenonT(60) DEF EndedBreaks, RecordsTypeOK, BreakRow, Stamp

Tables == /\ OneOpenPerOwner
          /\ OwnersAgree
          /\ EndMeansClosed
          /\ StampOrder
          /\ StartsPast

\* The empty tables and idle slots.
LEMMA InitIInv == Init => IInv
  <1> SUFFICES ASSUME Init PROVE IInv
    OBVIOUS
  <1> USE NoneAssumption DEF Init, RecordsInit, NoSession, NoBreak, NoEntry,
            NoStamp, Stamp
  <1>1. TypeOK
    BY DEF TypeOK, RecordsTypeOK, SessionRow, BreakRow, EntryRow, TaskRow,
       TaskStatus, Labels, Input, NoInput, Found, Nothing
  <1>2. OneOpenPerOwner /\ OwnersAgree /\ EndMeansClosed
    BY DEF OneOpenPerOwner, OwnersAgree, EndMeansClosed, Open
  <1>3. StampOrder /\ StartsPast
    BY DEF StampOrder, StartsPast
  <1>4. \A r \in Slots : SlotAgrees(req[r], pc[r], got[r])
    BY DEF SlotAgrees, NeedsTask, AfterSession, NoInput, Nothing
  <1>5. QED
    BY <1>1, <1>2, <1>3, <1>4 DEF IInv

\* A query moves its slot to a step whose knowledge it has just gathered.
LEMMA QueryKeeps ==
  ASSUME IInv, NEW r \in Slots, NEW g \in Found, NEW l \in Labels,
         Read(r, g, l), SlotAgrees(req[r], l, g)
  PROVE  IInv'
  <1>1. UNCHANGED <<now, session, brk, entry, task, req>>
    BY DEF Read
  <1>2. TypeOK'
    BY <1>1 DEF IInv, TypeOK, RecordsTypeOK, Read
  <1>3. Tables'
    BY <1>1 DEF IInv, Tables, OneOpenPerOwner, OwnersAgree, EndMeansClosed,
       StampOrder, StartsPast
  <1>4. ASSUME NEW q \in Slots
        PROVE  SlotAgrees(req[q], pc[q], got[q])'
    BY <1>1 DEF IInv, TypeOK, Read, SlotAgrees
  <1>5. QED
    BY <1>2, <1>3, <1>4 DEF IInv, Tables

\* An error answer, a lost request: the slot forgets what it read.
LEMMA RefuseKeeps ==
  ASSUME IInv, NEW r \in Slots, Refuse(r)
  PROVE  IInv'
  <1>1. UNCHANGED <<now, session, brk, entry, task>>
    BY DEF Refuse
  <1>2. /\ pc' = [pc EXCEPT ![r] = "idle"]
        /\ req' = [req EXCEPT ![r] = NoInput]
        /\ got' = [got EXCEPT ![r] = Nothing]
    BY DEF Refuse, Finish
  <1>3. TypeOK'
    BY <1>1, <1>2 DEF IInv, TypeOK, RecordsTypeOK, Labels, Input, NoInput,
       Found, Nothing
  <1>4. Tables'
    BY <1>1 DEF IInv, Tables, OneOpenPerOwner, OwnersAgree, EndMeansClosed,
       StampOrder, StartsPast
  <1>5. SlotAgrees(NoInput, "idle", Nothing)'
    BY <1>1, NoneAssumption DEF IInv, TypeOK, RecordsTypeOK, SlotAgrees,
       NeedsTask, AfterSession, NoInput, Nothing
  <1>6. ASSUME NEW q \in Slots
        PROVE  SlotAgrees(req[q], pc[q], got[q])'
    <2>1. CASE q = r
      BY <1>2, <1>5, <2>1 DEF IInv, TypeOK, SlotAgrees
    <2>2. CASE q # r
      BY <1>1, <1>2, <2>2 DEF IInv, TypeOK, SlotAgrees
    <2>3. QED
      BY <2>1, <2>2
  <1>7. QED
    BY <1>3, <1>4, <1>6 DEF IInv, Tables

----------------------------------------------------------------------------
(* What a write may do to the rows: insert, or go on with one that exists.  *)

SessionsAdvance ==
    \A s \in Sessions :
       \/ session'[s] = session[s]
       \/ /\ session[s].status = "ABSENT"
          /\ session'[s].status = "ACTIVE"
          /\ session'[s].userId \in Users
          /\ session'[s].clockInAt =< now
          /\ session'[s].clockOutAt = NoStamp
       \/ /\ session[s].status # "ABSENT"
          /\ session'[s].status # "ABSENT"
          /\ session'[s].userId = session[s].userId
          /\ session'[s].clockInAt = session[s].clockInAt
          /\ \/ session'[s].clockOutAt = session[s].clockOutAt
             \/ session'[s].clockInAt =< session'[s].clockOutAt

\* The session a new break or segment hangs from exists, and began before it.
Hosts(s, t) ==
    s \in Sessions /\ session[s].status # "ABSENT" /\ session[s].clockInAt =< t

BreaksAdvance ==
    \A b \in Breaks :
       \/ brk'[b] = brk[b]
       \/ /\ brk[b].status = "ABSENT"
          /\ brk'[b].status = "ACTIVE"
          /\ brk'[b].endAt = NoStamp
          /\ brk'[b].startAt =< now
          /\ Hosts(brk'[b].attendanceSessionId, brk'[b].startAt)
       \/ /\ brk[b].status # "ABSENT"
          /\ brk'[b].status = "COMPLETED"
          /\ brk'[b].attendanceSessionId = brk[b].attendanceSessionId
          /\ brk'[b].startAt = brk[b].startAt
          /\ brk'[b].endAt \in Nat
          /\ brk'[b].startAt =< brk'[b].endAt

EntriesAdvance ==
    \A e \in Entries :
       \/ entry'[e] = entry[e]
       \/ /\ entry[e].status = "ABSENT"
          /\ entry'[e].status = "RUNNING"
          /\ entry'[e].endAt = NoStamp
          /\ entry'[e].userId \in Users
          /\ entry'[e].taskId \in Tasks
          /\ Hosts(entry'[e].attendanceSessionId, entry'[e].startAt)
          /\ session[entry'[e].attendanceSessionId].userId = entry'[e].userId
       \/ /\ entry[e].status # "ABSENT"
          /\ entry'[e].status = "CLOSED"
          /\ entry'[e].userId = entry[e].userId
          /\ entry'[e].taskId = entry[e].taskId
          /\ entry'[e].attendanceSessionId = entry[e].attendanceSessionId
          /\ entry'[e].startAt = entry[e].startAt
          /\ entry'[e].endAt \in Nat

\* Rows are not deleted and keep their owner and their start, so what any slot
\* has read about them stays true; the slot that wrote forgets.
LEMMA OthersAgree ==
  ASSUME IInv, NEW r \in Slots, Finish(r), now' = now,
         \A s \in Sessions : session[s].status # "ABSENT" =>
            /\ session'[s].status # "ABSENT"
            /\ session'[s].userId = session[s].userId
            /\ session'[s].clockInAt = session[s].clockInAt,
         \A b \in Breaks : brk[b].status # "ABSENT" =>
            brk'[b].status # "ABSENT" /\ brk'[b].startAt = brk[b].startAt,
         \A e \in Entries : entry[e].status # "ABSENT" =>
            entry'[e].status # "ABSENT"
  PROVE  \A q \in Slots : SlotAgrees(req[q], pc[q], got[q])'
  <1> SUFFICES ASSUME NEW q \in Slots
               PROVE  SlotAgrees(req[q], pc[q], got[q])'
    OBVIOUS
  <1>2. /\ pc' = [pc EXCEPT ![r] = "idle"]
        /\ req' = [req EXCEPT ![r] = NoInput]
        /\ got' = [got EXCEPT ![r] = Nothing]
    BY DEF Finish
  <1>3. CASE q = r
    BY <1>2, <1>3, NoneAssumption DEF IInv, TypeOK, RecordsTypeOK, SlotAgrees,
       NeedsTask, AfterSession, NoInput, Nothing
  <1>4. CASE q # r
    <2>1. req'[q] = req[q] /\ pc'[q] = pc[q] /\ got'[q] = got[q]
      BY <1>2, <1>4 DEF IInv, TypeOK
    <2>2. SlotAgrees(req[q], pc[q], got[q]) /\ got[q] \in Found
      BY DEF IInv, TypeOK
    <2>3. QED
      BY <2>1, <2>2 DEF SlotAgrees, Found
  <1>5. QED
    BY <1>3, <1>4

\* The slots of a write are typed.
LEMMA FinishTyped ==
  ASSUME TypeOK, NEW r \in Slots, Finish(r)
  PROVE  /\ pc' \in [Slots -> Labels]
         /\ req' \in [Slots -> Input]
         /\ got' \in [Slots -> Found]
  BY DEF TypeOK, Finish, Labels, Input, NoInput, Found, Nothing

\* A write that advances the rows, and lets the unique indexes hold, keeps the
\* invariant.
LEMMA AdvanceKeeps ==
  ASSUME IInv, NEW r \in Slots, Finish(r), now' = now,
         task' \in [Tasks -> TaskRow],
         session' \in [Sessions -> SessionRow],
         brk' \in [Breaks -> BreakRow],
         entry' \in [Entries -> EntryRow],
         SessionsAdvance, BreaksAdvance, EntriesAdvance,
         OneOpenPerOwner'
  PROVE  IInv'
  <1>1. TypeOK'
    BY FinishTyped DEF IInv, TypeOK, RecordsTypeOK
  <1>2. \A s \in Sessions : session[s].status # "ABSENT" =>
           /\ session'[s].status # "ABSENT"
           /\ session'[s].userId = session[s].userId
           /\ session'[s].clockInAt = session[s].clockInAt
    BY DEF SessionsAdvance
  <1>3. \A b \in Breaks : brk[b].status # "ABSENT" =>
           brk'[b].status # "ABSENT" /\ brk'[b].startAt = brk[b].startAt
    BY DEF BreaksAdvance
  <1>4. \A e \in Entries : entry[e].status # "ABSENT" => entry'[e].status # "ABSENT"
    BY DEF EntriesAdvance
  <1>5. \A q \in Slots : SlotAgrees(req[q], pc[q], got[q])'
    BY <1>2, <1>3, <1>4, OthersAgree
  <1>6. OwnersAgree'
    <2>1. OwnersAgree
      BY DEF IInv
    <2>2. \A s \in Sessions : session'[s].status # "ABSENT" => session'[s].userId \in Users
      BY <2>1 DEF SessionsAdvance, OwnersAgree
    <2>3. ASSUME NEW b \in Breaks, brk'[b].status # "ABSENT"
          PROVE  /\ brk'[b].attendanceSessionId \in Sessions
                 /\ session[brk'[b].attendanceSessionId].status # "ABSENT"
      BY <2>1, <2>3 DEF BreaksAdvance, OwnersAgree, Hosts
    <2>4. ASSUME NEW e \in Entries, entry'[e].status # "ABSENT"
          PROVE  /\ entry'[e].userId \in Users
                 /\ entry'[e].taskId \in Tasks
                 /\ entry'[e].attendanceSessionId \in Sessions
                 /\ session[entry'[e].attendanceSessionId].status # "ABSENT"
                 /\ session[entry'[e].attendanceSessionId].userId = entry'[e].userId
      BY <2>1, <2>4 DEF EntriesAdvance, OwnersAgree, Hosts
    <2>5. QED
      BY <1>2, <2>2, <2>3, <2>4 DEF OwnersAgree
  <1>7. EndMeansClosed'
    <2>1. EndMeansClosed
      BY DEF IInv
    <2>2. \A b \in Breaks : /\ brk'[b].status = "ACTIVE" => brk'[b].endAt = NoStamp
                            /\ brk'[b].status = "COMPLETED" => brk'[b].endAt \in Nat
      BY <2>1 DEF BreaksAdvance, EndMeansClosed
    <2>3. \A e \in Entries : /\ entry'[e].status = "RUNNING" => entry'[e].endAt = NoStamp
                             /\ entry'[e].status = "CLOSED" => entry'[e].endAt \in Nat
      BY <2>1 DEF EntriesAdvance, EndMeansClosed
    <2>4. QED
      BY <2>2, <2>3 DEF EndMeansClosed
  <1>8. StampOrder'
    <2>1. StampOrder /\ OwnersAgree
      BY DEF IInv
    <2>2. \A s \in Sessions : session'[s].clockOutAt \in Nat =>
             session'[s].clockInAt =< session'[s].clockOutAt
      BY <2>1 DEF SessionsAdvance, StampOrder, NoStamp
    <2>3. \A b \in Breaks : brk'[b].endAt \in Nat => brk'[b].startAt =< brk'[b].endAt
      BY <2>1 DEF BreaksAdvance, StampOrder, NoStamp
    <2>4. ASSUME NEW b \in Breaks, brk'[b].status # "ABSENT"
          PROVE  Hosts(brk'[b].attendanceSessionId, brk'[b].startAt)
      BY <2>1, <2>4 DEF BreaksAdvance, StampOrder, OwnersAgree, Hosts
    <2>5. ASSUME NEW e \in Entries, entry'[e].status # "ABSENT"
          PROVE  Hosts(entry'[e].attendanceSessionId, entry'[e].startAt)
      BY <2>1, <2>5 DEF EntriesAdvance, StampOrder, OwnersAgree, Hosts
    <2>6. QED
      BY <1>2, <2>2, <2>3, <2>4, <2>5 DEF StampOrder, Hosts
  <1>9. StartsPast'
    <2>1. \A s \in Sessions : session'[s].clockInAt =< now
      BY DEF IInv, StartsPast, SessionsAdvance
    <2>2. \A b \in Breaks : brk'[b].startAt =< now
      BY DEF IInv, StartsPast, BreaksAdvance
    <2>3. QED
      BY <2>1, <2>2 DEF StartsPast
  <1>10. QED
    BY <1>1, <1>5, <1>6, <1>7, <1>8, <1>9 DEF IInv

\* A write that opens nothing cannot break a unique index.
LEMMA NoneOpened ==
  ASSUME OneOpenPerOwner,
         \A s \in Sessions : session'[s].status \in Open =>
            session[s].status \in Open /\ session'[s].userId = session[s].userId,
         \A b \in Breaks : brk'[b].status = "ACTIVE" => brk'[b] = brk[b],
         \A e \in Entries : entry'[e].status = "RUNNING" => entry'[e] = entry[e]
  PROVE  OneOpenPerOwner'
  <1>1. \A s, t \in Sessions :
           /\ session'[s].status \in Open
           /\ session'[t].status \in Open
           /\ session'[s].userId = session'[t].userId
           => s = t
    BY DEF OneOpenPerOwner
  <1>2. \A e, f \in Entries :
           /\ entry'[e].status = "RUNNING"
           /\ entry'[f].status = "RUNNING"
           /\ entry'[e].userId = entry'[f].userId
           => e = f
    BY DEF OneOpenPerOwner
  <1>3. \A b, c \in Breaks :
           /\ brk'[b].status = "ACTIVE"
           /\ brk'[c].status = "ACTIVE"
           /\ brk'[b].attendanceSessionId = brk'[c].attendanceSessionId
           => b = c
    BY DEF OneOpenPerOwner
  <1>4. QED
    BY <1>1, <1>2, <1>3 DEF OneOpenPerOwner, Open

\* The segments closed by a write, if they exist, advance.
LEMMA ClosingAdvances ==
  ASSUME RecordsTypeOK, NEW e, NEW t \in Nat, entry' = ClosedEntries({e}, t),
         e \in Entries => entry[e].status # "ABSENT"
  PROVE  /\ entry' \in [Entries -> EntryRow]
         /\ EntriesAdvance
         /\ \A f \in Entries : entry'[f].status = "RUNNING" => entry'[f] = entry[f]
  BY EntryUpdate DEF EntriesAdvance

\* The breaks completed by a write, if they exist, advance.
LEMMA EndingAdvances ==
  ASSUME RecordsTypeOK, NEW b, NEW t \in Nat, brk' = EndedBreaks({b}, t),
         b \in Breaks => brk[b].status # "ABSENT" /\ brk[b].startAt =< t
  PROVE  /\ brk' \in [Breaks -> BreakRow]
         /\ BreaksAdvance
         /\ \A c \in Breaks : brk'[c].status = "ACTIVE" => brk'[c] = brk[c]
  BY BreakUpdate DEF BreaksAdvance

\* What the stamp of a write and the rows its slot has read have in common.
LEMMA StampOfWrite ==
  ASSUME IInv, NEW r \in Slots, NEW t \in Stamps(r)
  PROVE  /\ t \in Nat /\ t =< now /\ got[r].at \in Nat /\ got[r].at =< t
         /\ got[r].brk \in Breaks => brk[got[r].brk].status # "ABSENT"
                                     /\ brk[got[r].brk].startAt =< t
         /\ got[r].timer \in Entries => entry[got[r].timer].status # "ABSENT"
         /\ pc[r] \in AfterSession =>
               /\ Hosts(got[r].session, t)
               /\ session[got[r].session].userId = req[r].user
  <1>1. got[r] \in Found /\ now \in Nat /\ SlotAgrees(req[r], pc[r], got[r])
    BY DEF IInv, TypeOK, RecordsTypeOK
  <1>2. t \in Nat /\ t =< now /\ got[r].at \in Nat /\ got[r].at =< t
    BY <1>1 DEF Stamps, Found
  <1>3. /\ \A s \in Sessions : session[s].clockInAt \in Int
        /\ \A b \in Breaks : brk[b].startAt \in Int
    BY DEF IInv, TypeOK, RecordsTypeOK, SessionRow, BreakRow, Stamp, NoStamp
  <1>4. QED
    BY <1>1, <1>2, <1>3, NoneAssumption DEF SlotAgrees, Hosts

----------------------------------------------------------------------------
(* The eight writes.                                                       *)

\* clockIn inserts a session only if the user has no open one.
LEMMA ClockInCreateKeeps ==
  ASSUME IInv, NEW r \in Slots, ClockInCreate(r)
  PROVE  IInv'
  <1>1. CASE Refuse(r)
    BY <1>1, RefuseKeeps
  <1>2. CASE ~Refuse(r)
    <2> PICK s \in Sessions, t \in Stamps(r) :
           /\ session[s].status = "ABSENT"
           /\ session' = [session EXCEPT ![s] = NewSession(User(r), t)]
      BY <1>2 DEF ClockInCreate
    <2>1. /\ OpenSessions(User(r)) = {}
          /\ UNCHANGED <<now, brk, entry, task>>
          /\ Finish(r)
      BY <1>2 DEF ClockInCreate
    <2>2. t \in Nat /\ t =< now /\ User(r) \in Users
      BY StampOfWrite DEF IInv, ClockInCreate, SlotAgrees, User
    <2>3. /\ session' \in [Sessions -> SessionRow]
          /\ \A x \in Sessions \ {s} : session'[x] = session[x]
          /\ session'[s] = NewSession(User(r), t)
      BY <2>2 DEF IInv, TypeOK, RecordsTypeOK, NewSession, SessionRow, Stamp
    <2>4. SessionsAdvance /\ BreaksAdvance /\ EntriesAdvance
      BY <2>1, <2>2, <2>3 DEF SessionsAdvance, BreaksAdvance, EntriesAdvance,
         NewSession
    <2>5. OneOpenPerOwner'
      BY <2>1, <2>3 DEF IInv, OneOpenPerOwner, OpenSessions, SessionsIn, Open,
         NewSession
    <2>6. QED
      BY <2>1, <2>3, <2>4, <2>5, AdvanceKeeps DEF IInv, TypeOK, RecordsTypeOK
  <1>3. QED
    BY <1>1, <1>2

\* clockOut's transaction finishes rows and opens none.
LEMMA ClockOutCommitKeeps ==
  ASSUME IInv, NEW r \in Slots, ClockOutCommit(r)
  PROVE  IInv'
  <1> DEFINE s == got[r].session
  <1> PICK t \in Stamps(r) :
         /\ entry' = ClosedEntries({got[r].timer}, t)
         /\ brk' = EndedBreaks({got[r].brk}, t)
         /\ session' = ClockedOut(s, t)
    BY DEF ClockOutCommit
  <1>1. UNCHANGED <<now, task>> /\ Finish(r) /\ pc[r] \in AfterSession
    BY DEF ClockOutCommit, AfterSession
  <1>2. t \in Nat /\ Hosts(s, t) /\ RecordsTypeOK
    BY <1>1, StampOfWrite DEF IInv, TypeOK
  <1>3. /\ session' \in [Sessions -> SessionRow]
        /\ SessionsAdvance
        /\ \A x \in Sessions : session'[x].status \in Open =>
              session[x].status \in Open /\ session'[x].userId = session[x].userId
    <2>1. s \in Sessions /\ session[s] \in SessionRow /\ t \in Stamp
      BY <1>2 DEF Hosts, RecordsTypeOK, Stamp
    <2>2. [session[s] EXCEPT !.clockOutAt = t, !.status = "COMPLETED"] \in SessionRow
      BY <2>1 DEF SessionRow
    <2>3. session' = [session EXCEPT ![s] =
                         [session[s] EXCEPT !.clockOutAt = t, !.status = "COMPLETED"]]
      BY <1>2, <2>1 DEF ClockedOut, RecordsTypeOK
    <2>4. /\ session' \in [Sessions -> SessionRow]
          /\ \A x \in Sessions : x # s => session'[x] = session[x]
      BY <1>2, <2>2, <2>3 DEF RecordsTypeOK
    <2>5. /\ session'[s].status = "COMPLETED" /\ session'[s].userId = session[s].userId
          /\ session'[s].clockInAt = session[s].clockInAt
          /\ session'[s].clockOutAt = t
      BY <1>2, <2>1, <2>3 DEF SessionRow, RecordsTypeOK
    <2>6. QED
      BY <1>2, <2>4, <2>5 DEF SessionsAdvance, Hosts, Open
  <1>4. /\ brk' \in [Breaks -> BreakRow]
        /\ BreaksAdvance
        /\ \A c \in Breaks : brk'[c].status = "ACTIVE" => brk'[c] = brk[c]
    BY <1>2, StampOfWrite, EndingAdvances
  <1>5. /\ entry' \in [Entries -> EntryRow]
        /\ EntriesAdvance
        /\ \A f \in Entries : entry'[f].status = "RUNNING" => entry'[f] = entry[f]
    BY <1>2, StampOfWrite, ClosingAdvances
  <1>6. OneOpenPerOwner'
    BY <1>3, <1>4, <1>5, NoneOpened DEF IInv
  <1>7. QED
    BY <1>1, <1>3, <1>4, <1>5, <1>6, AdvanceKeeps DEF IInv, TypeOK

\* startBreak's transaction starts a break in a session that has no other.
LEMMA StartBreakCommitKeeps ==
  ASSUME IInv, NEW r \in Slots, StartBreakCommit(r)
  PROVE  IInv'
  <1>1. CASE Refuse(r)
    BY <1>1, RefuseKeeps
  <1>2. CASE ~Refuse(r)
    <2> DEFINE s == got[r].session
               t == got[r].at
    <2> PICK b \in Breaks : /\ brk[b].status = "ABSENT"
                            /\ brk' = [brk EXCEPT ![b] = NewBreak(s, t)]
      BY <1>2 DEF StartBreakCommit
    <2>1. /\ UNCHANGED <<now, task>> /\ Finish(r)
          /\ ActiveBreaks(s) = {} /\ ~OtherOpen(s)
          /\ session' = [session EXCEPT ![s].status = "ON_BREAK"]
          /\ entry' = ClosedEntries({got[r].timer}, t)
          /\ pc[r] \in AfterSession
      BY <1>2 DEF StartBreakCommit, AfterSession
    <2>2. t \in Stamps(r)
      BY DEF IInv, TypeOK, RecordsTypeOK, Found, SlotAgrees, Stamps
    <2>3. t \in Nat /\ t =< now /\ Hosts(s, t) /\ RecordsTypeOK
      BY <2>1, <2>2, StampOfWrite DEF IInv, TypeOK
    <2>4. /\ session' \in [Sessions -> SessionRow]
          /\ \A x \in Sessions \ {s} : session'[x] = session[x]
          /\ session'[s].userId = session[s].userId
          /\ SessionsAdvance
      BY <2>1, <2>3 DEF RecordsTypeOK, SessionRow, SessionsAdvance, Hosts
    <2>5. /\ brk' \in [Breaks -> BreakRow]
          /\ \A c \in Breaks \ {b} : brk'[c] = brk[c]
          /\ brk'[b] = NewBreak(s, t)
      BY <2>3 DEF RecordsTypeOK, BreakRow, NewBreak, Stamp, Hosts
    <2>6. BreaksAdvance
      BY <2>3, <2>5 DEF BreaksAdvance, NewBreak
    <2>7. /\ entry' \in [Entries -> EntryRow]
          /\ EntriesAdvance
          /\ \A f \in Entries : entry'[f].status = "RUNNING" => entry'[f] = entry[f]
      BY <2>1, <2>2, <2>3, StampOfWrite, ClosingAdvances
    <2>8. OneOpenPerOwner'
      <3>i. OneOpenPerOwner
        BY DEF IInv
      <3>1. \A x \in Sessions \ {s} : session[x].status \in Open =>
               session[x].userId # session[s].userId
        BY <2>1 DEF OtherOpen, OpenSessions, SessionsIn
      <3>2. \A x, y \in Sessions :
               /\ session'[x].status \in Open
               /\ session'[y].status \in Open
               /\ session'[x].userId = session'[y].userId
               => x = y
        BY <3>i, <3>1, <2>4 DEF OneOpenPerOwner
      <3>3. \A c \in Breaks \ {b} : brk[c].status = "ACTIVE" =>
               brk[c].attendanceSessionId # s
        BY <2>1 DEF ActiveBreaks
      <3>4. \A c, d \in Breaks :
               /\ brk'[c].status = "ACTIVE"
               /\ brk'[d].status = "ACTIVE"
               /\ brk'[c].attendanceSessionId = brk'[d].attendanceSessionId
               => c = d
        BY <3>i, <3>3, <2>5 DEF OneOpenPerOwner, NewBreak
      <3>5. \A e, f \in Entries :
               /\ entry'[e].status = "RUNNING"
               /\ entry'[f].status = "RUNNING"
               /\ entry'[e].userId = entry'[f].userId
               => e = f
        BY <3>i, <2>7 DEF OneOpenPerOwner
      <3>6. QED
        BY <3>2, <3>4, <3>5 DEF OneOpenPerOwner, Open
    <2>9. QED
      BY <2>1, <2>4, <2>5, <2>6, <2>7, <2>8, AdvanceKeeps DEF IInv, TypeOK
  <1>3. QED
    BY <1>1, <1>2

\* endBreak's transaction reopens its session only if no other is open.
LEMMA EndBreakCommitKeeps ==
  ASSUME IInv, NEW r \in Slots, EndBreakCommit(r)
  PROVE  IInv'
  <1>1. CASE Refuse(r)
    BY <1>1, RefuseKeeps
  <1>2. CASE ~Refuse(r)
    <2> DEFINE s == got[r].session
    <2> PICK t \in Stamps(r) : brk' = EndedBreaks({got[r].brk}, t)
      BY <1>2 DEF EndBreakCommit
    <2>1. /\ UNCHANGED <<now, entry, task>> /\ Finish(r)
          /\ ~OtherOpen(s)
          /\ session' = [session EXCEPT ![s].status = "ACTIVE"]
          /\ pc[r] \in AfterSession
      BY <1>2 DEF EndBreakCommit, AfterSession
    <2>2. t \in Nat /\ Hosts(s, t) /\ RecordsTypeOK
      BY <2>1, StampOfWrite DEF IInv, TypeOK
    <2>3. /\ session' \in [Sessions -> SessionRow]
          /\ \A x \in Sessions \ {s} : session'[x] = session[x]
          /\ session'[s].userId = session[s].userId
          /\ SessionsAdvance
      BY <2>1, <2>2 DEF RecordsTypeOK, SessionRow, SessionsAdvance, Hosts
    <2>4. /\ brk' \in [Breaks -> BreakRow]
          /\ BreaksAdvance
          /\ \A c \in Breaks : brk'[c].status = "ACTIVE" => brk'[c] = brk[c]
      BY <2>2, StampOfWrite, EndingAdvances
    <2>5. EntriesAdvance
      BY <2>1 DEF EntriesAdvance
    <2>6. OneOpenPerOwner'
      <3>i. OneOpenPerOwner
        BY DEF IInv
      <3>1. \A x \in Sessions \ {s} : session[x].status \in Open =>
               session[x].userId # session[s].userId
        BY <2>1 DEF OtherOpen, OpenSessions, SessionsIn
      <3>2. \A x, y \in Sessions :
               /\ session'[x].status \in Open
               /\ session'[y].status \in Open
               /\ session'[x].userId = session'[y].userId
               => x = y
        BY <3>i, <3>1, <2>3 DEF OneOpenPerOwner
      <3>3. \A c, d \in Breaks :
               /\ brk'[c].status = "ACTIVE"
               /\ brk'[d].status = "ACTIVE"
               /\ brk'[c].attendanceSessionId = brk'[d].attendanceSessionId
               => c = d
        BY <3>i, <2>4, ZenonT(60) DEF OneOpenPerOwner
      <3>4. \A e, f \in Entries :
               /\ entry'[e].status = "RUNNING"
               /\ entry'[f].status = "RUNNING"
               /\ entry'[e].userId = entry'[f].userId
               => e = f
        BY <3>i, <2>1 DEF OneOpenPerOwner
      <3>5. QED
        BY <3>2, <3>3, <3>4 DEF OneOpenPerOwner, Open
    <2>7. QED
      BY <2>1, <2>2, <2>3, <2>4, <2>5, <2>6, AdvanceKeeps
      DEF IInv, TypeOK, RecordsTypeOK
  <1>3. QED
    BY <1>1, <1>2

\* The task row a start or a switch leaves is a task row.
LEMMA PickedUpTyped ==
  ASSUME TypeOK, NEW r \in Slots
  PROVE  TaskPickedUp(r) \in [Tasks -> TaskRow]
  BY DEF TypeOK, TaskPickedUp, TaskRow, TaskStatus

\* start inserts a running segment only if the user has none.
LEMMA StartCommitKeeps ==
  ASSUME IInv, NEW r \in Slots, StartCommit(r)
  PROVE  IInv'
  <1>1. CASE Refuse(r)
    BY <1>1, RefuseKeeps
  <1>2. CASE ~Refuse(r)
    <2> DEFINE s == got[r].session
               k == req[r].task
    <2> PICK e \in Entries, t \in Stamps(r) :
           /\ entry[e].status = "ABSENT"
           /\ entry' = [entry EXCEPT ![e] = NewEntry(User(r), k, s, t)]
      BY <1>2 DEF StartCommit
    <2>1. /\ UNCHANGED <<now, session, brk>> /\ Finish(r)
          /\ RunningEntries(User(r)) = {}
          /\ task' = TaskPickedUp(r)
          /\ pc[r] = "start.commit"
      BY <1>2 DEF StartCommit
    <2>2. /\ t \in Nat /\ Hosts(s, t) /\ RecordsTypeOK
          /\ User(r) \in Users /\ k \in Tasks
          /\ session[s].userId = User(r)
      BY <2>1, StampOfWrite DEF IInv, TypeOK, SlotAgrees, NeedsTask,
         AfterSession, User
    <2>3. /\ entry' \in [Entries -> EntryRow]
          /\ \A f \in Entries \ {e} : entry'[f] = entry[f]
          /\ entry'[e] = NewEntry(User(r), k, s, t)
      BY <2>2 DEF RecordsTypeOK, EntryRow, NewEntry, Stamp, Hosts
    <2>4. EntriesAdvance
      BY <2>2, <2>3 DEF EntriesAdvance, NewEntry
    <2>5. SessionsAdvance /\ BreaksAdvance
      BY <2>1 DEF SessionsAdvance, BreaksAdvance
    <2>6. OneOpenPerOwner'
      <3>i. OneOpenPerOwner
        BY DEF IInv
      <3>1. \A f \in Entries : entry[f].status = "RUNNING" =>
               entry[f].userId # User(r)
        BY <2>1 DEF RunningEntries
      <3>2. \A f, g \in Entries :
               /\ entry'[f].status = "RUNNING"
               /\ entry'[g].status = "RUNNING"
               /\ entry'[f].userId = entry'[g].userId
               => f = g
        BY <3>i, <3>1, <2>3 DEF OneOpenPerOwner, NewEntry
      <3>3. QED
        BY <3>i, <3>2, <2>1 DEF OneOpenPerOwner
    <2>7. task' \in [Tasks -> TaskRow]
      BY <2>1, PickedUpTyped DEF IInv
    <2>8. QED
      BY <2>1, <2>2, <2>3, <2>4, <2>5, <2>6, <2>7, AdvanceKeeps
      DEF RecordsTypeOK
  <1>3. QED
    BY <1>1, <1>2

\* pause and stop close the segment they have read, running or not.
LEMMA CloseCommitKeeps ==
  ASSUME IInv, NEW r \in Slots, CloseCommit(r)
  PROVE  IInv'
  <1> PICK t \in Stamps(r) : entry' = ClosedEntries({got[r].timer}, t)
    BY DEF CloseCommit
  <1>1. UNCHANGED <<now, session, brk, task>> /\ Finish(r)
    BY DEF CloseCommit
  <1>2. t \in Nat /\ RecordsTypeOK
    BY StampOfWrite DEF IInv, TypeOK
  <1>3. /\ entry' \in [Entries -> EntryRow]
        /\ EntriesAdvance
        /\ \A f \in Entries : entry'[f].status = "RUNNING" => entry'[f] = entry[f]
    BY <1>2, StampOfWrite, ClosingAdvances
  <1>4. SessionsAdvance /\ BreaksAdvance
    BY <1>1 DEF SessionsAdvance, BreaksAdvance
  <1>5. OneOpenPerOwner'
    BY <1>1, <1>3, NoneOpened DEF IInv
  <1>6. QED
    BY <1>1, <1>2, <1>3, <1>4, <1>5, AdvanceKeeps
    DEF IInv, TypeOK, RecordsTypeOK

\* switch opens a segment if, without the one it closes, the user has none.
LEMMA SwitchCommitKeeps ==
  ASSUME IInv, NEW r \in Slots, SwitchCommit(r)
  PROVE  IInv'
  <1>1. CASE Refuse(r)
    BY <1>1, RefuseKeeps
  <1>2. CASE ~Refuse(r)
    <2> DEFINE s == got[r].session
               k == req[r].task
               closed(t) == ClosedEntries({got[r].timer}, t)
    <2> PICK e \in Entries, t \in Stamps(r) :
           /\ entry[e].status = "ABSENT"
           /\ entry' = [closed(t) EXCEPT ![e] = NewEntry(User(r), k, s, t)]
      BY <1>2 DEF SwitchCommit
    <2>1. /\ UNCHANGED <<now, session, brk>> /\ Finish(r)
          /\ RunningEntries(User(r)) \ {got[r].timer} = {}
          /\ task' = TaskPickedUp(r)
          /\ pc[r] = "switch.commit"
      BY <1>2 DEF SwitchCommit
    <2>2. /\ t \in Nat /\ Hosts(s, t) /\ RecordsTypeOK
          /\ User(r) \in Users /\ k \in Tasks
          /\ session[s].userId = User(r)
      BY <2>1, StampOfWrite DEF IInv, TypeOK, SlotAgrees, NeedsTask,
         AfterSession, User
    <2>3. /\ closed(t) \in [Entries -> EntryRow]
          /\ \A f \in Entries :
                /\ closed(t)[f].userId = entry[f].userId
                /\ closed(t)[f].taskId = entry[f].taskId
                /\ closed(t)[f].attendanceSessionId = entry[f].attendanceSessionId
                /\ closed(t)[f].startAt = entry[f].startAt
          /\ \A f \in Entries : f = got[r].timer =>
                /\ entry[f].status # "ABSENT"
                /\ closed(t)[f].endAt = t
                /\ closed(t)[f].status = "CLOSED"
          /\ \A f \in Entries : f # got[r].timer => closed(t)[f] = entry[f]
      BY <2>2, StampOfWrite, EntryUpdate
    <2> HIDE DEF closed
    <2>4. /\ entry' \in [Entries -> EntryRow]
          /\ \A f \in Entries \ {e} : entry'[f] = closed(t)[f]
          /\ entry'[e] = NewEntry(User(r), k, s, t)
      BY <2>2, <2>3 DEF EntryRow, NewEntry, Stamp, Hosts
    <2>5. EntriesAdvance
      BY <2>2, <2>3, <2>4 DEF EntriesAdvance, NewEntry
    <2>6. SessionsAdvance /\ BreaksAdvance
      BY <2>1 DEF SessionsAdvance, BreaksAdvance
    <2>7. OneOpenPerOwner'
      <3>i. OneOpenPerOwner
        BY DEF IInv
      <3>1. \A f \in Entries \ {got[r].timer} :
               entry[f].status = "RUNNING" => entry[f].userId # User(r)
        BY <2>1 DEF RunningEntries
      <3>2. \A f \in Entries \ {e} : entry'[f].status = "RUNNING" =>
               entry'[f] = entry[f] /\ entry'[f].userId # User(r)
        BY <3>1, <2>3, <2>4
      <3>3. \A f, g \in Entries :
               /\ entry'[f].status = "RUNNING"
               /\ entry'[g].status = "RUNNING"
               /\ entry'[f].userId = entry'[g].userId
               => f = g
        BY <3>i, <3>2, <2>4 DEF OneOpenPerOwner, NewEntry
      <3>4. QED
        BY <3>i, <3>3, <2>1 DEF OneOpenPerOwner
    <2>8. task' \in [Tasks -> TaskRow]
      BY <2>1, PickedUpTyped DEF IInv
    <2>9. QED
      BY <2>1, <2>2, <2>4, <2>5, <2>6, <2>7, <2>8, AdvanceKeeps
      DEF RecordsTypeOK
  <1>3. QED
    BY <1>1, <1>2

\* update writes the task only.
LEMMA UpdateWriteKeeps ==
  ASSUME IInv, NEW r \in Slots, UpdateWrite(r)
  PROVE  IInv'
  <1>1. UNCHANGED <<now, session, brk, entry>> /\ Finish(r)
    BY DEF UpdateWrite
  <1>2. task' \in [Tasks -> TaskRow]
    BY DEF UpdateWrite, IInv, TypeOK, TaskRow, Input
  <1>3. SessionsAdvance /\ BreaksAdvance /\ EntriesAdvance
    BY <1>1 DEF SessionsAdvance, BreaksAdvance, EntriesAdvance
  <1>4. OneOpenPerOwner'
    BY <1>1 DEF IInv, OneOpenPerOwner
  <1>5. QED
    BY <1>1, <1>2, <1>3, <1>4, AdvanceKeeps DEF IInv, TypeOK, RecordsTypeOK

----------------------------------------------------------------------------
(* The steps that write no row.                                            *)

\* A request arrives with a user, and with a task where its kind needs one.
LEMMA Received ==
  ASSUME IInv, NEW r \in Slots, Receive(r)
  PROVE  \E kind \in AllKinds, in \in Input :
            /\ pc' = [pc EXCEPT ![r] = kind]
            /\ req' = [req EXCEPT ![r] = in]
            /\ in.user \in Users
            /\ kind \in NeedsTask => in.task \in Tasks
  <1>1. req[r] \in Input
    BY DEF IInv, TypeOK
  <1> PICK kind \in Kinds, u \in Users :
         /\ pc' = [pc EXCEPT ![r] = kind]
         /\ \/ /\ kind \in {"clockIn", "startBreak", "endBreak", "pause", "stop"}
               /\ req' = [req EXCEPT ![r].user = u]
            \/ /\ kind = "clockOut"
               /\ \E c \in BOOLEAN :
                     req' = [req EXCEPT ![r].user = u, ![r].confirm = c]
            \/ /\ kind \in {"start", "resume", "switch"}
               /\ \E k \in Tasks :
                     req' = [req EXCEPT ![r].user = u, ![r].task = k]
            \/ /\ kind = "update"
               /\ \E k \in Tasks, st \in TaskStatus \cup {"KEEP"},
                     a \in Users \cup {None} :
                     req' = [req EXCEPT ![r].user = u, ![r].task = k,
                                        ![r].status = st, ![r].assigneeId = a]
    BY DEF Receive
  <1>2. CASE kind \in {"clockIn", "startBreak", "endBreak", "pause", "stop"}
    <2>1. req' = [req EXCEPT ![r] = [req[r] EXCEPT !.user = u]]
      BY <1>2 DEF IInv, TypeOK
    <2>2. [req[r] EXCEPT !.user = u] \in Input
      BY <1>1 DEF Input
    <2>3. QED
      BY <1>1, <1>2, <2>1, <2>2 DEF AllKinds, NeedsTask, Input
  <1>3. CASE kind = "clockOut"
    <2>1. PICK c \in BOOLEAN :
             req' = [req EXCEPT ![r].user = u, ![r].confirm = c]
      BY <1>3
    <2>2. req' = [req EXCEPT ![r] = [req[r] EXCEPT !.user = u, !.confirm = c]]
      BY <2>1 DEF IInv, TypeOK
    <2>3. [req[r] EXCEPT !.user = u, !.confirm = c] \in Input
      BY <1>1 DEF Input
    <2>4. QED
      BY <1>1, <1>3, <2>2, <2>3 DEF AllKinds, NeedsTask, Input
  <1>4. CASE kind \in {"start", "resume", "switch"}
    <2>1. PICK k \in Tasks : req' = [req EXCEPT ![r].user = u, ![r].task = k]
      BY <1>4
    <2>2. req' = [req EXCEPT ![r] = [req[r] EXCEPT !.user = u, !.task = k]]
      BY <2>1 DEF IInv, TypeOK
    <2>3. [req[r] EXCEPT !.user = u, !.task = k] \in Input
      BY <1>1 DEF Input
    <2>4. QED
      BY <1>1, <1>4, <2>2, <2>3 DEF AllKinds, NeedsTask, Input
  <1>5. CASE kind = "update"
    <2>1. PICK k \in Tasks, st \in TaskStatus \cup {"KEEP"},
               a \in Users \cup {None} :
             req' = [req EXCEPT ![r].user = u, ![r].task = k,
                                ![r].status = st, ![r].assigneeId = a]
      BY <1>5
    <2> DEFINE in == [req[r] EXCEPT !.user = u, !.task = k, !.status = st,
                                    !.assigneeId = a]
    <2>2. req' = [req EXCEPT ![r] = in]
      BY <2>1 DEF IInv, TypeOK
    <2>3. in \in Input /\ in.user = u /\ in.task = k
      BY <1>1 DEF Input
    <2> HIDE DEF in
    <2>4. QED
      BY <1>5, <2>2, <2>3 DEF AllKinds
  <1>6. QED
    BY <1>2, <1>3, <1>4, <1>5

\* It writes nothing, and what it names exists.
LEMMA ReceiveKeeps ==
  ASSUME IInv, NEW r \in Slots, Receive(r)
  PROVE  IInv'
  <1>1. UNCHANGED <<now, session, brk, entry, task, got>>
    BY DEF Receive
  <1>2. /\ pc' \in [Slots -> Labels]
        /\ req' \in [Slots -> Input]
        /\ \A q \in Slots \ {r} : req'[q] = req[q] /\ pc'[q] = pc[q]
        /\ req'[r].user \in Users
        /\ pc'[r] \in NeedsTask => req'[r].task \in Tasks
        /\ pc'[r] \notin AfterSession
    <2>1. PICK kind \in AllKinds, in \in Input :
             /\ pc' = [pc EXCEPT ![r] = kind]
             /\ req' = [req EXCEPT ![r] = in]
             /\ in.user \in Users
             /\ kind \in NeedsTask => in.task \in Tasks
      BY Received
    <2>2. kind \in Labels /\ kind \notin AfterSession
      BY DEF AllKinds, Labels, AfterSession
    <2>3. QED
      BY <2>1, <2>2 DEF IInv, TypeOK
  <1>3. TypeOK'
    BY <1>1, <1>2 DEF IInv, TypeOK, RecordsTypeOK
  <1>4. Tables'
    BY <1>1 DEF IInv, Tables, OneOpenPerOwner, OwnersAgree, EndMeansClosed,
       StampOrder, StartsPast
  <1>5. ASSUME NEW q \in Slots
        PROVE  SlotAgrees(req[q], pc[q], got[q])'
    BY <1>1, <1>2 DEF IInv, SlotAgrees, AfterSession
  <1>6. QED
    BY <1>3, <1>4, <1>5 DEF IInv, Tables

\* The clock only moves forward.
LEMMA PassTimeKeeps ==
  ASSUME IInv, PassTime
  PROVE  IInv'
  <1>1. /\ UNCHANGED <<session, brk, entry, task, pc, req, got>>
        /\ now \in Nat /\ now' = now + 1
    BY DEF PassTime, Tick, IInv, TypeOK, RecordsTypeOK
  <1>2. TypeOK'
    BY <1>1 DEF IInv, TypeOK, RecordsTypeOK
  <1>3. (OneOpenPerOwner /\ OwnersAgree /\ EndMeansClosed /\ StampOrder)'
    BY <1>1 DEF IInv, OneOpenPerOwner, OwnersAgree, EndMeansClosed, StampOrder
  <1>4. StartsPast'
    BY <1>1 DEF IInv, TypeOK, RecordsTypeOK, StartsPast, SessionRow, BreakRow,
       Stamp, NoStamp
  <1>5. ASSUME NEW q \in Slots
        PROVE  SlotAgrees(req[q], pc[q], got[q])'
    BY <1>1 DEF IInv, TypeOK, Found, SlotAgrees
  <1>6. QED
    BY <1>2, <1>3, <1>4, <1>5 DEF IInv

\* The session query finds a session of the user that has begun.
LEMMA FindSessionKeeps ==
  ASSUME IInv, NEW r \in Slots, NEW st \in SUBSET Open,
         pc[r] # "idle", NEW l \in Labels, l # "endBreak.commit",
         l \in NeedsTask => pc[r] \in NeedsTask,
         FindSession(r, st, l)
  PROVE  IInv'
  <1>1. CASE Refuse(r)
    BY <1>1, RefuseKeeps
  <1>2. CASE ~Refuse(r)
    <2> PICK s \in SessionsIn(User(r), st) :
           Read(r, [got[r] EXCEPT !.session = s, !.at = now], l)
      BY <1>2 DEF FindSession
    <2> DEFINE g == [got[r] EXCEPT !.session = s, !.at = now]
    <2>1. got[r] \in Found /\ now \in Nat /\ SlotAgrees(req[r], pc[r], got[r])
      BY DEF IInv, TypeOK, RecordsTypeOK
    <2>2. /\ s \in Sessions /\ session[s].status # "ABSENT"
          /\ session[s].userId = req[r].user
          /\ session[s].clockInAt =< now
      BY DEF SessionsIn, User, Open, IInv, StartsPast
    <2>3. /\ g \in Found /\ g.session = s /\ g.at = now
          /\ g.brk = got[r].brk /\ g.timer = got[r].timer
      BY <2>1, <2>2 DEF Found
    <2>4. \A b \in Breaks : brk[b].startAt =< now
      BY DEF IInv, StartsPast
    <2> HIDE DEF g
    <2>5. SlotAgrees(req[r], l, g)
      BY <2>1, <2>2, <2>3, <2>4 DEF SlotAgrees, Found
    <2>6. QED
      BY <2>3, <2>5, QueryKeeps DEF g
  <1>3. QED
    BY <1>1, <1>2 DEF FindSession

\* A query after which the handler goes on with what it knew, and maybe with a
\* break or a timer it has just found.
LEMMA GoOnKeeps ==
  ASSUME IInv, NEW r \in Slots, pc[r] # "idle", NEW l \in Labels,
         l \in NeedsTask => pc[r] \in NeedsTask,
         l \in AfterSession => pc[r] \in AfterSession,
         NEW g \in Found, got[r].at =< g.at, g.at =< now,
         g.session = got[r].session,
         \/ g.brk = got[r].brk
         \/ g.brk \in Breaks /\ brk[g.brk].status = "ACTIVE" /\ g.at = now,
         \/ g.timer = got[r].timer
         \/ g.timer \in Entries /\ entry[g.timer].status = "RUNNING",
         l = "endBreak.commit" => g.brk # None,
         Read(r, g, l)
  PROVE  IInv'
  <1>1. got[r] \in Found /\ now \in Nat /\ SlotAgrees(req[r], pc[r], got[r])
    BY DEF IInv, TypeOK, RecordsTypeOK
  <1>2. /\ \A c \in Breaks : brk[c].startAt \in Int /\ brk[c].startAt =< now
        /\ \A s \in Sessions : session[s].clockInAt \in Int
    BY DEF IInv, TypeOK, RecordsTypeOK, BreakRow, SessionRow, Stamp, NoStamp,
       StartsPast
  <1>3. SlotAgrees(req[r], l, g)
    BY <1>1, <1>2, NoneAssumption DEF SlotAgrees, Found
  <1>4. QED
    BY <1>3, QueryKeeps

\* The query of the task.
LEMMA FindTaskKeeps ==
  ASSUME IInv, NEW r \in Slots, pc[r] # "idle", NEW l \in Labels,
         l # "endBreak.commit",
         l \in NeedsTask => pc[r] \in NeedsTask,
         l \in AfterSession => pc[r] \in AfterSession,
         FindTask(r, l)
  PROVE  IInv'
  <1>1. CASE Refuse(r)
    BY <1>1, RefuseKeeps
  <1>2. CASE ~Refuse(r)
    <2> DEFINE todo == task[req[r].task].status = "TO_DO"
               g == [got[r] EXCEPT !.todo = todo, !.at = now]
    <2>1. Read(r, g, l)
      BY <1>2 DEF FindTask
    <2>2. got[r] \in Found /\ now \in Nat /\ got[r].at =< now
      BY DEF IInv, TypeOK, RecordsTypeOK, SlotAgrees
    <2>3. todo \in BOOLEAN
      OBVIOUS
    <2> HIDE DEF todo
    <2>4. /\ g \in Found /\ g.session = got[r].session /\ g.brk = got[r].brk
          /\ g.timer = got[r].timer /\ g.at = now
      BY <2>2, <2>3 DEF Found
    <2> HIDE DEF g
    <2>5. QED
      BY <2>1, <2>2, <2>4, GoOnKeeps
  <1>3. QED
    BY <1>1, <1>2

\* A query that finds nothing, or nothing the handler keeps: of the earliest
\* time it may read next it knows more.
LEMMA AskKeeps ==
  ASSUME IInv, NEW r \in Slots, pc[r] # "idle", NEW l \in Labels,
         l # "endBreak.commit",
         l \in NeedsTask => pc[r] \in NeedsTask,
         l \in AfterSession => pc[r] \in AfterSession,
         NEW t \in Stamps(r),
         Read(r, [got[r] EXCEPT !.at = t], l) \/ Read(r, got[r], l)
  PROVE  IInv'
  <1>1. got[r] \in Found /\ now \in Nat /\ got[r].at \in Nat
        /\ got[r].at =< now /\ t \in Nat /\ got[r].at =< t /\ t =< now
    BY DEF IInv, TypeOK, RecordsTypeOK, SlotAgrees, Found, Stamps
  <1>2. CASE Read(r, got[r], l)
    BY <1>1, <1>2, GoOnKeeps
  <1>3. CASE Read(r, [got[r] EXCEPT !.at = t], l)
    <2> DEFINE g == [got[r] EXCEPT !.at = t]
    <2>1. /\ g \in Found /\ g.session = got[r].session /\ g.brk = got[r].brk
          /\ g.timer = got[r].timer /\ g.at = t
      BY <1>1 DEF Found
    <2> HIDE DEF g
    <2>2. QED
      BY <1>1, <1>3, <2>1, GoOnKeeps DEF g
  <1>4. QED
    BY <1>2, <1>3

\* now is one of the stamps a slot may take.
LEMMA NowIsStamp ==
  ASSUME IInv, NEW r \in Slots
  PROVE  now \in Stamps(r)
  BY DEF IInv, TypeOK, RecordsTypeOK, SlotAgrees, Found, Stamps

\* The slot keeps the break a query has found active.
LEMMA FoundBreakKeeps ==
  ASSUME IInv, NEW r \in Slots, pc[r] # "idle", NEW l \in Labels,
         l \in NeedsTask => pc[r] \in NeedsTask,
         l \in AfterSession => pc[r] \in AfterSession,
         NEW b \in ActiveBreaks(got[r].session),
         Read(r, [got[r] EXCEPT !.brk = b, !.at = now], l)
  PROVE  IInv'
  <1> DEFINE g == [got[r] EXCEPT !.brk = b, !.at = now]
  <1>1. got[r] \in Found /\ now \in Nat /\ got[r].at =< now
    BY DEF IInv, TypeOK, RecordsTypeOK, SlotAgrees
  <1>2. b \in Breaks /\ brk[b].status = "ACTIVE" /\ b # None
    BY NoneAssumption DEF ActiveBreaks
  <1>3. /\ g \in Found /\ g.session = got[r].session /\ g.brk = b
        /\ g.timer = got[r].timer /\ g.at = now
    BY <1>1, <1>2 DEF Found
  <1>4. Read(r, g, l)
    OBVIOUS
  <1> HIDE DEF g
  <1>5. QED
    BY <1>1, <1>2, <1>3, <1>4, GoOnKeeps

\* The slot keeps the timer a query has found running.
LEMMA FoundTimerKeeps ==
  ASSUME IInv, NEW r \in Slots, pc[r] # "idle", NEW l \in Labels,
         l # "endBreak.commit",
         l \in NeedsTask => pc[r] \in NeedsTask,
         l \in AfterSession => pc[r] \in AfterSession,
         NEW t \in Stamps(r), NEW e \in RunningEntries(User(r)),
         Read(r, [got[r] EXCEPT !.timer = e, !.at = t], l)
  PROVE  IInv'
  <1> DEFINE g == [got[r] EXCEPT !.timer = e, !.at = t]
  <1>1. got[r] \in Found /\ t \in Nat /\ got[r].at =< t /\ t =< now
    BY StampOfWrite DEF IInv, TypeOK
  <1>2. e \in Entries /\ entry[e].status = "RUNNING"
    BY DEF RunningEntries
  <1>3. /\ g \in Found /\ g.session = got[r].session /\ g.brk = got[r].brk
        /\ g.timer = e /\ g.at = t
    BY <1>1, <1>2 DEF Found
  <1>4. Read(r, g, l)
    OBVIOUS
  <1> HIDE DEF g
  <1>5. QED
    BY <1>1, <1>2, <1>3, <1>4, GoOnKeeps

\* The running-timer query.
LEMMA FindTimerKeeps ==
  ASSUME IInv, NEW r \in Slots, pc[r] # "idle", NEW l \in Labels,
         l # "endBreak.commit",
         l \in NeedsTask => pc[r] \in NeedsTask,
         l \in AfterSession => pc[r] \in AfterSession,
         FindTimer(r, l)
  PROVE  IInv'
  BY RefuseKeeps, NowIsStamp, FoundTimerKeeps DEF FindTimer

\* Each query of each handler.
LEMMA QueriesKeep ==
  ASSUME IInv, NEW r \in Slots,
         \/ ClockInFind(r)
         \/ ClockOutFindSession(r) \/ ClockOutFindBreak(r) \/ ClockOutFindTimer(r)
         \/ StartBreakFindSession(r) \/ StartBreakFindTimer(r)
         \/ EndBreakFindSession(r) \/ EndBreakFindBreak(r)
         \/ ResumeFindPrior(r)
         \/ StartFindSession(r) \/ StartFindTask(r) \/ StartFindTimer(r)
         \/ PauseFind(r) \/ StopFind(r)
         \/ SwitchFindSession(r) \/ SwitchFindTimer(r) \/ SwitchFindTask(r)
         \/ UpdateFind(r) \/ UpdateFindRunning(r)
  PROVE  IInv'
  <1> USE DEF Labels, NeedsTask, AfterSession
  <1>1. CASE Refuse(r)
    BY <1>1, RefuseKeeps
  <1>n. now \in Stamps(r) /\ got[r].at \in Stamps(r)
    BY NowIsStamp DEF IInv, TypeOK, RecordsTypeOK, SlotAgrees, Found, Stamps
  <1>2. CASE ClockInFind(r) /\ ~Refuse(r)
    BY <1>2, <1>n, AskKeeps DEF ClockInFind
  <1>3. CASE ClockOutFindSession(r)
    BY <1>3, FindSessionKeeps DEF ClockOutFindSession, Open
  <1>4. CASE ClockOutFindBreak(r)
    <2>1. ASSUME NEW b \in ActiveBreaks(got[r].session),
                 Read(r, [got[r] EXCEPT !.brk = b, !.at = now], "clockOut.timer")
          PROVE  IInv'
      BY <1>4, <2>1, FoundBreakKeeps DEF ClockOutFindBreak
    <2>2. QED
      BY <1>4, <1>n, <2>1, AskKeeps DEF ClockOutFindBreak
  <1>5. CASE ClockOutFindTimer(r) /\ ~Refuse(r)
    <2>1. CASE FindTimer(r, "clockOut.commit")
      BY <1>5, <2>1, FindTimerKeeps DEF ClockOutFindTimer
    <2>2. QED
      BY <1>5, <1>n, <2>1, AskKeeps DEF ClockOutFindTimer, FindTimer
  <1>6. CASE StartBreakFindSession(r)
    BY <1>6, FindSessionKeeps DEF StartBreakFindSession, Open
  <1>7. CASE StartBreakFindTimer(r)
    <2> PICK t \in Stamps(r) :
          \/ Read(r, [got[r] EXCEPT !.at = t], "startBreak.commit")
          \/ \E e \in RunningEntries(User(r)) :
                Read(r, [got[r] EXCEPT !.timer = e, !.at = t], "startBreak.commit")
      BY <1>7 DEF StartBreakFindTimer
    <2>1. pc[r] = "startBreak.timer"
      BY <1>7 DEF StartBreakFindTimer
    <2>2. CASE Read(r, [got[r] EXCEPT !.at = t], "startBreak.commit")
      BY <2>1, <2>2, AskKeeps
    <2>3. ASSUME NEW e \in RunningEntries(User(r)),
                 Read(r, [got[r] EXCEPT !.timer = e, !.at = t], "startBreak.commit")
          PROVE  IInv'
      BY <2>1, <2>3, FoundTimerKeeps
    <2>4. QED
      BY <2>2, <2>3
  <1>8. CASE EndBreakFindSession(r)
    BY <1>8, FindSessionKeeps DEF EndBreakFindSession, Open
  <1>9. CASE EndBreakFindBreak(r) /\ ~Refuse(r)
    BY <1>9, FoundBreakKeeps DEF EndBreakFindBreak
  <1>10. CASE ResumeFindPrior(r) /\ ~Refuse(r)
    BY <1>10, <1>n, AskKeeps DEF ResumeFindPrior
  <1>11. CASE StartFindSession(r)
    BY <1>11, FindSessionKeeps DEF StartFindSession, Open
  <1>12. CASE StartFindTask(r)
    BY <1>12, FindTaskKeeps DEF StartFindTask
  <1>13. CASE StartFindTimer(r) /\ ~Refuse(r)
    BY <1>13, <1>n, AskKeeps DEF StartFindTimer
  <1>14. CASE PauseFind(r)
    BY <1>14, FindTimerKeeps DEF PauseFind
  <1>15. CASE StopFind(r)
    BY <1>15, FindTimerKeeps DEF StopFind
  <1>16. CASE SwitchFindSession(r)
    BY <1>16, FindSessionKeeps DEF SwitchFindSession, Open
  <1>17. CASE SwitchFindTimer(r) /\ ~Refuse(r)
    BY <1>17, FindTimerKeeps DEF SwitchFindTimer
  <1>18. CASE SwitchFindTask(r)
    BY <1>18, FindTaskKeeps DEF SwitchFindTask
  <1>19. CASE UpdateFind(r) /\ ~Refuse(r)
    BY <1>19, <1>n, AskKeeps DEF UpdateFind
  <1>20. CASE UpdateFindRunning(r) /\ ~Refuse(r)
    BY <1>20, <1>n, AskKeeps DEF UpdateFindRunning
  <1>21. QED
    BY <1>1, <1>2, <1>3, <1>4, <1>5, <1>6, <1>7, <1>8, <1>9, <1>10, <1>11,
       <1>12, <1>13, <1>14, <1>15, <1>16, <1>17, <1>18, <1>19, <1>20

----------------------------------------------------------------------------
\* No step of any request breaks the inductive invariant.
LEMMA NextKeeps == IInv /\ [Next]_vars => IInv'
  <1> SUFFICES ASSUME IInv, [Next]_vars PROVE IInv'
    OBVIOUS
  <1>1. CASE UNCHANGED vars
    BY <1>1 DEF vars, IInv, TypeOK, RecordsTypeOK, OneOpenPerOwner, OwnersAgree,
       EndMeansClosed, StampOrder, StartsPast, SlotAgrees
  <1>2. CASE PassTime
    BY <1>2, PassTimeKeeps
  <1>3. ASSUME NEW r \in Slots, Receive(r)
        PROVE  IInv'
    BY <1>3, ReceiveKeeps
  <1>4. ASSUME NEW r \in Slots, Lost(r)
        PROVE  IInv'
    BY <1>4, RefuseKeeps DEF Lost
  <1>5. ASSUME NEW r \in Slots, Step(r)
        PROVE  IInv'
    BY <1>5, QueriesKeep, ClockInCreateKeeps, ClockOutCommitKeeps,
       StartBreakCommitKeeps, EndBreakCommitKeeps, StartCommitKeeps,
       CloseCommitKeeps, SwitchCommitKeeps, UpdateWriteKeeps DEF Step
  <1>6. QED
    BY <1>1, <1>2, <1>3, <1>4, <1>5 DEF Next

\* Whatever requests run in whatever order, lost at any step, the records stay
\* typed, unique, owned and ordered, and what a handler has read of a row it
\* will write stays true but for the row's status and end.
THEOREM Coherent == Spec => []IInv
  <1>1. Init => IInv
    BY InitIInv
  <1>2. IInv /\ [Next]_vars => IInv'
    BY NextKeeps
  <1>3. QED
    BY <1>1, <1>2, PTL DEF Spec

\* The partial unique indexes alone keep BR-002 and BR-003, under any number of
\* concurrent requests: one open session and one running timer per user, one
\* active break per session.
THEOREM OneOpenAlways == Spec => []OneOpenPerOwner
  <1>1. IInv => OneOpenPerOwner
    BY DEF IInv
  <1>2. QED
    BY <1>1, Coherent, PTL

\* A segment never ends up in a session of another user, though start reads the
\* session three queries before it writes the segment.
THEOREM OwnersAlwaysAgree == Spec => []OwnersAgree
  <1>1. IInv => OwnersAgree
    BY DEF IInv
  <1>2. QED
    BY <1>1, Coherent, PTL

\* Status and end of a break and of a segment agree in any interleaving, even
\* where two requests close the same row.
THEOREM EndAlwaysMeansClosed == Spec => []EndMeansClosed
  <1>1. IInv => EndMeansClosed
    BY DEF IInv
  <1>2. QED
    BY <1>1, Coherent, PTL

\* The stamps of one session are in order however late each request commits.
THEOREM StampsInOrder == Spec => []StampOrder
  <1>1. IInv => StampOrder
    BY DEF IInv
  <1>2. QED
    BY <1>1, Coherent, PTL

----------------------------------------------------------------------------
(* Where the requests of a user are served one at a time, the handlers     *)
(* implement WorkDay: each write does, in one step, what WorkDay says of   *)
(* its request, and every other step changes no record.  The argument is   *)
(* that what a handler has read is still so when it writes (Still), since  *)
(* the requests that run in between belong to other users, and a request   *)
(* touches the rows of its own user only (TouchesOnly).                    *)

\* What a slot at step l, asked i, that has read g, knows of the record now.
Still(i, l, g) ==
    /\ l \in AfterSession \cup {"clockIn.create", "close.commit"} =>
          Day!StampFor(i.user, g.at)
    /\ l \in {"clockOut.break", "clockOut.timer", "clockOut.commit"} =>
          session[g.session].status \in Open
    /\ l \in {"startBreak.timer", "startBreak.commit", "start.task", "start.timer",
              "start.commit", "switch.timer", "switch.task", "switch.commit"} =>
          session[g.session].status = "ACTIVE"
    /\ l \in {"endBreak.break", "endBreak.commit"} =>
          session[g.session].status = "ON_BREAK"
    /\ l \in {"idle", "clockOut", "clockOut.break", "startBreak", "startBreak.timer"} =>
          g.brk = None /\ g.timer = None
    /\ l = "clockOut.timer" => g.timer = None
    /\ l \in {"clockOut.timer", "clockOut.commit"} =>
          ActiveBreaks(g.session) = {g.brk} \ {None}
    /\ l = "endBreak.commit" => ActiveBreaks(g.session) = {g.brk}
    /\ l \in {"clockOut.commit", "startBreak.commit"} =>
          RunningEntries(i.user) = {g.timer} \ {None}
    /\ l \in {"close.commit", "switch.task", "switch.commit"} =>
          RunningEntries(i.user) = {g.timer}
    /\ l \in {"switch.task", "switch.commit"} => entry[g.timer].taskId # i.task

\* Nothing on record lies in the future.
NothingAhead ==
    /\ \A s \in Sessions : session[s].clockInAt =< now /\ session[s].clockOutAt =< now
    /\ \A b \in Breaks : brk[b].startAt =< now /\ brk[b].endAt =< now
    /\ \A e \in Entries : entry[e].startAt =< now /\ entry[e].endAt =< now

\* Two requests under way belong to two users.
OneEach ==
    \A q, r \in Slots :
       q # r /\ pc[q] # "idle" /\ pc[r] # "idle" => User(q) # User(r)

Serving ==
    /\ IInv
    /\ NothingAhead
    /\ OneEach
    /\ \A r \in Slots : Still(req[r], pc[r], got[r])

\* The rows a step writes are, or become, rows of user v.
TouchesOnly(v) ==
    /\ \A s \in Sessions :
          \/ session'[s] = session[s]
          \/ /\ session[s].status = "ABSENT" \/ session[s].userId = v
             /\ session'[s].userId = v
    /\ \A b \in Breaks :
          \/ brk'[b] = brk[b]
          \/ /\ brk[b].status = "ABSENT" \/ BreakOwner(b) = v
             /\ brk'[b].attendanceSessionId \in Sessions
             /\ session[brk'[b].attendanceSessionId].status # "ABSENT"
             /\ session[brk'[b].attendanceSessionId].userId = v
    /\ \A e \in Entries :
          \/ entry'[e] = entry[e]
          \/ /\ entry[e].status = "ABSENT" \/ entry[e].userId = v
             /\ entry'[e].userId = v

----------------------------------------------------------------------------
(* WorkDay's requests and the rows of other users.                         *)

\* The operators of WorkDay are those of the tables they share.
LEMMA DayOperators ==
  /\ \A u : Day!RunningEntries(u) = RunningEntries(u)
  /\ \A u : Day!OpenSessions(u) = OpenSessions(u)
  /\ \A u, st : Day!SessionsIn(u, st) = SessionsIn(u, st)
  /\ \A s : Day!ActiveBreaks(s) = ActiveBreaks(s)
  /\ \A ids, t : Day!ClosedEntries(ids, t) = ClosedEntries(ids, t)
  /\ \A ids, t : Day!EndedBreaks(ids, t) = EndedBreaks(ids, t)
  /\ \A s, t : Day!ClockedOut(s, t) = ClockedOut(s, t)
  /\ \A u, t : Day!NewSession(u, t) = NewSession(u, t)
  /\ \A s, t : Day!NewBreak(s, t) = NewBreak(s, t)
  /\ \A u, k, s, t : Day!NewEntry(u, k, s, t) = NewEntry(u, k, s, t)
  BY DEF Day!RunningEntries, RunningEntries, Day!OpenSessions, OpenSessions,
         Day!SessionsIn, SessionsIn, Day!Open, Open, Day!ActiveBreaks, ActiveBreaks,
         Day!ClosedEntries, ClosedEntries, Day!EndedBreaks, EndedBreaks,
         Day!ClockedOut, ClockedOut, Day!NewSession, NewSession, Day!NewBreak,
         NewBreak, Day!NewEntry, NewEntry, Day!NoStamp, NoStamp

\* The segments of u that a request closes at t.
LEMMA ClosedOwn ==
  ASSUME IInv, NothingAhead, NEW u \in Users, NEW t \in 0 .. now
  PROVE  LET new == ClosedEntries(RunningEntries(u), t)
         IN  \A e \in Entries :
                /\ \/ new[e] = entry[e]
                   \/ entry[e].userId = u /\ new[e].userId = u
                /\ new[e].startAt =< now /\ new[e].endAt =< now
  <1>1. RecordsTypeOK /\ t \in Nat /\ t =< now
    BY DEF IInv, TypeOK, RecordsTypeOK
  <1>2. QED
    BY <1>1, EntryUpdate DEF NothingAhead, RunningEntries

\* The breaks of session s of u that a request completes at t.
LEMMA EndedOwn ==
  ASSUME IInv, NothingAhead, NEW s \in Sessions, NEW t \in 0 .. now
  PROVE  LET new == EndedBreaks(ActiveBreaks(s), t)
         IN  \A b \in Breaks :
                /\ \/ new[b] = brk[b]
                   \/ brk[b].attendanceSessionId = s /\ new[b].attendanceSessionId = s
                /\ new[b].startAt =< now /\ new[b].endAt =< now
  <1>1. RecordsTypeOK /\ t \in Nat /\ t =< now
    BY DEF IInv, TypeOK, RecordsTypeOK
  <1>2. QED
    BY <1>1, BreakUpdate DEF NothingAhead, ActiveBreaks

\* A request of u touches rows of u only, and leaves no stamp in the future.
LEMMA ServeTouchesOwn ==
  ASSUME IInv, NothingAhead, NEW u \in Users, NEW t \in 0 .. now, Day!ServeAt(u, t)
  PROVE  TouchesOnly(u) /\ NothingAhead' /\ now' = now
  <1>t. RecordsTypeOK /\ t \in Nat /\ t =< now /\ now \in Nat /\ NoStamp =< now
    BY DEF IInv, TypeOK, RecordsTypeOK, NoStamp
  <1>1. CASE Day!ClockIn(u, t)
    <2>1. PICK s \in Sessions :
             /\ session[s].status = "ABSENT"
             /\ session' = [session EXCEPT ![s] = NewSession(u, t)]
             /\ UNCHANGED <<now, brk, entry>>
      BY <1>1, DayOperators DEF Day!ClockIn
    <2>2. /\ session'[s] = NewSession(u, t)
          /\ \A r \in Sessions : r # s => session'[r] = session[r]
      BY <2>1, <1>t DEF RecordsTypeOK
    <2>3. TouchesOnly(u)
      BY <2>1, <2>2 DEF TouchesOnly, NewSession
    <2>4. NothingAhead'
      BY <2>1, <2>2, <1>t DEF NothingAhead, NewSession
    <2>5. QED
      BY <2>1, <2>3, <2>4
  <1>2. CASE Day!ClockOut(u, t)
    <2>1. PICK s \in Sessions :
             /\ session[s].userId = u
             /\ session[s].status \in Open
             /\ entry' = ClosedEntries(RunningEntries(u), t)
             /\ brk' = EndedBreaks(ActiveBreaks(s), t)
             /\ session' = ClockedOut(s, t)
             /\ UNCHANGED now
      BY <1>2, DayOperators DEF Day!ClockOut, OpenSessions, SessionsIn
    <2>2. /\ session'[s].userId = u
          /\ session'[s].clockInAt = session[s].clockInAt
          /\ session'[s].clockOutAt = t
          /\ \A r \in Sessions : r # s => session'[r] = session[r]
      BY <2>1, <1>t DEF RecordsTypeOK, SessionRow, ClockedOut
    <2>3. TouchesOnly(u)
      BY <2>1, <2>2, ClosedOwn, EndedOwn DEF TouchesOnly, BreakOwner, Open
    <2>4. NothingAhead'
      BY <2>1, <2>2, <1>t, ClosedOwn, EndedOwn DEF NothingAhead
    <2>5. QED
      BY <2>1, <2>3, <2>4
  <1>3. CASE Day!StartBreak(u, t)
    <2>1. PICK s \in Sessions, b \in Breaks :
             /\ session[s].userId = u
             /\ session[s].status = "ACTIVE"
             /\ brk[b].status = "ABSENT"
             /\ brk' = [brk EXCEPT ![b] = NewBreak(s, t)]
             /\ session' = [session EXCEPT ![s].status = "ON_BREAK"]
             /\ entry' = ClosedEntries(RunningEntries(u), t)
             /\ UNCHANGED now
      BY <1>3, DayOperators DEF Day!StartBreak, SessionsIn
    <2>2. /\ session'[s].userId = u
          /\ session'[s].clockInAt = session[s].clockInAt
          /\ session'[s].clockOutAt = session[s].clockOutAt
          /\ \A r \in Sessions : r # s => session'[r] = session[r]
      BY <2>1, <1>t DEF RecordsTypeOK, SessionRow
    <2>3. /\ brk'[b] = NewBreak(s, t)
          /\ \A c \in Breaks : c # b => brk'[c] = brk[c]
      BY <2>1, <1>t DEF RecordsTypeOK
    <2>4. TouchesOnly(u)
      BY <2>1, <2>2, <2>3, ClosedOwn DEF TouchesOnly, NewBreak
    <2>5. NothingAhead'
      BY <2>1, <2>2, <2>3, <1>t, ClosedOwn DEF NothingAhead, NewBreak
    <2>6. QED
      BY <2>1, <2>4, <2>5
  <1>4. CASE Day!EndBreak(u, t)
    <2>1. PICK s \in Sessions :
             /\ session[s].userId = u
             /\ session[s].status = "ON_BREAK"
             /\ brk' = EndedBreaks(ActiveBreaks(s), t)
             /\ session' = [session EXCEPT ![s].status = "ACTIVE"]
             /\ UNCHANGED <<now, entry>>
      BY <1>4, DayOperators DEF Day!EndBreak, SessionsIn
    <2>2. /\ session'[s].userId = u
          /\ session'[s].clockInAt = session[s].clockInAt
          /\ session'[s].clockOutAt = session[s].clockOutAt
          /\ \A r \in Sessions : r # s => session'[r] = session[r]
      BY <2>1, <1>t DEF RecordsTypeOK, SessionRow
    <2>3. TouchesOnly(u)
      BY <2>1, <2>2, EndedOwn DEF TouchesOnly, BreakOwner
    <2>4. NothingAhead'
      BY <2>1, <2>2, <1>t, EndedOwn DEF NothingAhead
    <2>5. QED
      BY <2>1, <2>3, <2>4
  <1>5. CASE Day!StopTimer(u, t)
    <2>1. /\ entry' = ClosedEntries(RunningEntries(u), t)
          /\ UNCHANGED <<now, session, brk>>
      BY <1>5, DayOperators DEF Day!StopTimer
    <2>2. QED
      BY <2>1, <1>t, ClosedOwn DEF TouchesOnly, NothingAhead
  <1>6. ASSUME NEW k \in Tasks, Day!StartTimer(u, k, t)
        PROVE  TouchesOnly(u) /\ NothingAhead' /\ now' = now
    <2>1. PICK s \in Sessions, e \in Entries :
             /\ entry[e].status = "ABSENT"
             /\ entry' = [entry EXCEPT ![e] = NewEntry(u, k, s, t)]
             /\ UNCHANGED <<now, session, brk>>
      BY <1>6, DayOperators DEF Day!StartTimer, SessionsIn
    <2>2. /\ entry'[e] = NewEntry(u, k, s, t)
          /\ \A f \in Entries : f # e => entry'[f] = entry[f]
      BY <2>1, <1>t DEF RecordsTypeOK
    <2>3. QED
      BY <2>1, <2>2, <1>t DEF TouchesOnly, NothingAhead, NewEntry
  <1>7. ASSUME NEW k \in Tasks, Day!SwitchTask(u, k, t)
        PROVE  TouchesOnly(u) /\ NothingAhead' /\ now' = now
    <2> DEFINE closed == ClosedEntries(RunningEntries(u), t)
    <2>1. PICK s \in Sessions, e \in Entries :
             /\ entry[e].status = "ABSENT"
             /\ entry' = [closed EXCEPT ![e] = NewEntry(u, k, s, t)]
             /\ UNCHANGED <<now, session, brk>>
      BY <1>7, DayOperators DEF Day!SwitchTask, SessionsIn
    <2>2. /\ DOMAIN closed = Entries
          /\ \A f \in Entries :
                /\ \/ closed[f] = entry[f]
                   \/ entry[f].userId = u /\ closed[f].userId = u
                /\ closed[f].startAt =< now /\ closed[f].endAt =< now
      BY ClosedOwn DEF ClosedEntries
    <2> HIDE DEF closed
    <2>3. /\ entry'[e] = NewEntry(u, k, s, t)
          /\ \A f \in Entries : f # e => entry'[f] = closed[f]
      BY <2>1, <2>2
    <2>4. QED
      BY <2>1, <2>2, <2>3, <1>t DEF TouchesOnly, NothingAhead, NewEntry
  <1>8. QED
    BY <1>1, <1>2, <1>3, <1>4, <1>5, <1>6, <1>7 DEF Day!ServeAt

\* A step that touches rows of v only leaves what is on record of u as it is.
LEMMA OthersUntouched ==
  ASSUME IInv, NEW v \in Users, NEW u \in Users, u # v, TouchesOnly(v), now' = now
  PROVE  /\ \A s \in Sessions :
               session[s].status # "ABSENT" /\ session[s].userId = u =>
                  /\ session'[s] = session[s]
                  /\ ActiveBreaks(s)' = ActiveBreaks(s)
         /\ RunningEntries(u)' = RunningEntries(u)
         /\ \A e \in RunningEntries(u) : entry'[e] = entry[e]
         /\ \A t : Day!StampFor(u, t) => Day!StampFor(u, t)'
  <1>1. OwnersAgree
    BY DEF IInv
  <1>2. ASSUME NEW s \in Sessions, session[s].status # "ABSENT", session[s].userId = u
        PROVE  session'[s] = session[s] /\ ActiveBreaks(s)' = ActiveBreaks(s)
    <2>1. session'[s] = session[s]
      BY <1>2 DEF TouchesOnly
    <2>2. ASSUME NEW b \in Breaks
          PROVE  brk'[b].attendanceSessionId = s /\ brk'[b].status = "ACTIVE" <=>
                    brk[b].attendanceSessionId = s /\ brk[b].status = "ACTIVE"
      BY <1>2 DEF TouchesOnly, BreakOwner
    <2>3. QED
      BY <2>1, <2>2 DEF ActiveBreaks
  <1>3. /\ RunningEntries(u)' = RunningEntries(u)
        /\ \A e \in RunningEntries(u) : entry'[e] = entry[e]
    BY DEF TouchesOnly, RunningEntries
  <1>4. ASSUME NEW t, Day!StampFor(u, t) PROVE Day!StampFor(u, t)'
    <2>1. \A s \in Sessions : session'[s].userId = u => session'[s] = session[s]
      BY DEF TouchesOnly
    <2>2. ASSUME NEW b \in Breaks, brk'[b].status # "ABSENT", BreakOwner(b)' = u
          PROVE  brk'[b] = brk[b] /\ BreakOwner(b) = u
      <3>1. brk'[b] = brk[b]
        BY <2>2, <2>1 DEF TouchesOnly, BreakOwner
      <3>2. QED
        BY <2>2, <3>1, <2>1, <1>1 DEF BreakOwner, OwnersAgree
    <2>3. \A e \in Entries : entry'[e].userId = u => entry'[e] = entry[e]
      BY DEF TouchesOnly
    <2>4. QED
      BY <1>4, <2>1, <2>2, <2>3 DEF Day!StampFor, Day!BreakOwner, BreakOwner
  <1>5. QED
    BY <1>2, <1>3, <1>4

----------------------------------------------------------------------------
(* What slots know, kept by the steps of others.                           *)

\* Serving one at a time is serving.
LEMMA SerialIsNext == [SerialNext]_vars => [Next]_vars
  BY DEF SerialNext, Next

\* No record changes.
LEMMA StillQuiet ==
  ASSUME IInv, UNCHANGED tables, NEW q \in Slots, Still(req[q], pc[q], got[q]),
         req'[q] = req[q], pc'[q] = pc[q], got'[q] = got[q], now =< now', now' \in Nat
  PROVE  Still(req[q], pc[q], got[q])'
  <1>1. /\ UNCHANGED <<session, brk, entry>>
        /\ now \in Nat /\ got[q].at \in Nat /\ got[q].at =< now
    BY DEF tables, IInv, TypeOK, RecordsTypeOK, Found, SlotAgrees
  <1>2. Day!StampFor(req[q].user, got[q].at) => Day!StampFor(req[q].user, got[q].at)'
    BY <1>1 DEF Day!StampFor, Day!BreakOwner
  <1>3. /\ ActiveBreaks(got[q].session)' = ActiveBreaks(got[q].session)
        /\ RunningEntries(req[q].user)' = RunningEntries(req[q].user)
    BY <1>1 DEF ActiveBreaks, RunningEntries
  <1>4. QED
    BY <1>1, <1>2, <1>3 DEF Still

\* Only records of another user change.
LEMMA StillApart ==
  ASSUME IInv, NEW v \in Users, TouchesOnly(v), now' = now,
         NEW q \in Slots, Still(req[q], pc[q], got[q]), pc[q] # "idle", User(q) # v,
         req'[q] = req[q], pc'[q] = pc[q], got'[q] = got[q]
  PROVE  Still(req[q], pc[q], got[q])'
  <1> DEFINE u == req[q].user
  <1> DEFINE s == got[q].session
  <1>1. SlotAgrees(req[q], pc[q], got[q]) /\ u \in Users /\ u # v
    BY DEF IInv, SlotAgrees, User
  <1>2. pc[q] \in AfterSession =>
           /\ session'[s] = session[s]
           /\ ActiveBreaks(s)' = ActiveBreaks(s)
    <2>1. pc[q] \in AfterSession =>
             s \in Sessions /\ session[s].status # "ABSENT" /\ session[s].userId = u
      BY <1>1 DEF SlotAgrees
    <2>2. ASSUME NEW x \in Sessions, x = s, session[x].status # "ABSENT",
                 session[x].userId = u
          PROVE  session'[x] = session[x] /\ ActiveBreaks(x)' = ActiveBreaks(x)
      BY <1>1, <2>2, OthersUntouched
    <2>3. QED
      BY <2>1, <2>2 DEF ActiveBreaks
  <1>3. /\ RunningEntries(u)' = RunningEntries(u)
        /\ \A e \in RunningEntries(u) : entry'[e] = entry[e]
        /\ Day!StampFor(u, got[q].at) => Day!StampFor(u, got[q].at)'
    BY <1>1, OthersUntouched DEF RunningEntries, Day!StampFor, Day!BreakOwner
  <1> HIDE DEF u, s
  <1>4. QED
    BY <1>2, <1>3 DEF Still, AfterSession, u, s

----------------------------------------------------------------------------
(* Steps that change no record.                                            *)

Quiet == UNCHANGED <<now, session, brk, entry>>

\* A slot that is free knows nothing.
LEMMA FreeStill ==
  ASSUME NEW i, NEW g, g = Nothing
  PROVE  Still(i, "idle", g)
  BY DEF Still, Nothing, AfterSession

\* A quiet step of slot r that leaves the slot with true knowledge.
LEMMA QuietServes ==
  ASSUME Serving, IInv', Quiet, NEW r \in Slots,
         \A q \in Slots \ {r} : req'[q] = req[q] /\ pc'[q] = pc[q] /\ got'[q] = got[q],
         Still(req[r], pc[r], got[r])', OneEach'
  PROVE  Serving'
  <1>1. NothingAhead'
    BY DEF Quiet, Serving, NothingAhead
  <1>2. now \in Nat /\ now' = now /\ UNCHANGED tables
    BY DEF Quiet, Serving, IInv, TypeOK, RecordsTypeOK, tables
  <1>3. ASSUME NEW q \in Slots PROVE Still(req[q], pc[q], got[q])'
    <2>1. CASE q = r
      BY <2>1
    <2>2. CASE q # r
      BY <1>2, <2>2, StillQuiet DEF Serving
    <2>3. QED
      BY <2>1, <2>2
  <1>4. QED
    BY <1>1, <1>3 DEF Serving

\* A slot that is freed, and one that goes on, disturbs nobody's turn.
LEMMA OneEachKept ==
  ASSUME OneEach, NEW r \in Slots,
         \A q \in Slots \ {r} : req'[q] = req[q] /\ pc'[q] = pc[q],
         pc'[r] = "idle" \/ (pc[r] # "idle" /\ req'[r] = req[r])
  PROVE  OneEach'
  BY DEF OneEach, User

LEMMA Freed ==
  ASSUME IInv, NEW r \in Slots, Finish(r)
  PROVE  /\ \A q \in Slots \ {r} : req'[q] = req[q] /\ pc'[q] = pc[q] /\ got'[q] = got[q]
         /\ pc'[r] = "idle" /\ got'[r] = Nothing
  BY DEF Finish, IInv, TypeOK

\* A slot that finishes without a write.
LEMMA FinishServes ==
  ASSUME Serving, IInv', Quiet, NEW r \in Slots, Finish(r)
  PROVE  Serving'
  <1>1. /\ \A q \in Slots \ {r} : req'[q] = req[q] /\ pc'[q] = pc[q]
        /\ \A q \in Slots \ {r} : got'[q] = got[q]
        /\ pc'[r] = "idle" /\ got'[r] = Nothing
    BY Freed DEF Serving
  <1>2. Still(req[r], pc[r], got[r])'
    BY <1>1, FreeStill DEF Still, Nothing, AfterSession
  <1>3. OneEach'
    <2>1. OneEach
      BY DEF Serving
    <2>2. QED
      BY <1>1, <2>1, OneEachKept
  <1>4. QED
    BY <1>1, <1>2, <1>3, QuietServes

\* A query that takes slot r from one step to the next.
LEMMA ReadServes ==
  ASSUME Serving, IInv', NEW r \in Slots, pc[r] # "idle", NEW g, NEW l, Read(r, g, l),
         Still(req[r], l, g)
  PROVE  Serving' /\ Quiet
  <1>1. /\ Quiet /\ req' = req
        /\ \A q \in Slots \ {r} : pc'[q] = pc[q] /\ got'[q] = got[q]
        /\ pc'[r] = l /\ got'[r] = g
    BY DEF Read, Quiet, Serving, IInv, TypeOK
  <1>2. Still(req[r], pc[r], got[r])'
    BY <1>1 DEF Quiet, Still, Day!StampFor, Day!BreakOwner, ActiveBreaks, RunningEntries
  <1>3. OneEach'
    BY <1>1, OneEachKept DEF Serving
  <1>4. QED
    BY <1>1, <1>2, <1>3, QuietServes

\* A request begins when no other of its user is under way.
LEMMA ReceiveServes ==
  ASSUME Serving, IInv', NEW r \in Slots, Receive(r), OneAtATime(r)
  PROVE  Serving' /\ Quiet
  <1>0. pc \in [Slots -> Labels] /\ req \in [Slots -> Input]
    BY DEF Serving, IInv, TypeOK
  <1>1. /\ Quiet /\ got' = got /\ pc[r] = "idle"
        /\ \A q \in Slots \ {r} : pc'[q] = pc[q]
        /\ \A q \in Slots \ {r} : req'[q] = req[q]
    <2>1. PICK kind, in : /\ pc' = [pc EXCEPT ![r] = kind]
                          /\ req' = [req EXCEPT ![r] = in]
      BY Received DEF Serving
    <2>2. QED
      BY <1>0, <2>1 DEF Receive, Quiet
  <1>2. pc'[r] \in {"clockIn", "startBreak", "endBreak", "pause", "stop", "clockOut",
                    "start", "resume", "switch", "update"}
    BY DEF Receive, Serving, IInv, TypeOK
  <1>3. got[r].brk = None /\ got[r].timer = None
    BY <1>1 DEF Serving, Still
  <1>4. Still(req[r], pc[r], got[r])'
    BY <1>1, <1>2, <1>3 DEF Still, AfterSession
  <1>5. OneEach'
    BY <1>1 DEF Serving, OneEach, OneAtATime, User
  <1>6. QED
    BY <1>1, <1>4, <1>5, QuietServes

----------------------------------------------------------------------------
(* The queries.                                                            *)

\* A stamp read now is good for any user.
LEMMA NowStamps ==
  ASSUME Serving, NEW u
  PROVE  Day!StampFor(u, now)
  BY DEF Serving, NothingAhead, Day!StampFor, IInv, TypeOK, RecordsTypeOK

\* A stamp that is good stays good when it is read later.
LEMMA LaterStamps ==
  ASSUME IInv, NEW u, NEW at \in Nat, NEW t \in at .. now, Day!StampFor(u, at)
  PROVE  Day!StampFor(u, t) /\ t \in 0 .. now
  <1>1. /\ at =< t /\ t =< now /\ t \in Nat /\ now \in Nat
        /\ \A s \in Sessions : session[s].clockInAt \in Int /\ session[s].clockOutAt \in Int
        /\ \A b \in Breaks : brk[b].startAt \in Int /\ brk[b].endAt \in Int
        /\ \A e \in Entries : entry[e].startAt \in Int /\ entry[e].endAt \in Int
    BY DEF IInv, TypeOK, RecordsTypeOK, SessionRow, BreakRow, EntryRow, Stamp, NoStamp
  <1>2. QED
    BY <1>1 DEF Day!StampFor

\* The indexes make what a query finds all there is to find.
LEMMA OneFound ==
  ASSUME IInv
  PROVE  /\ \A s : \A b \in ActiveBreaks(s) : ActiveBreaks(s) = {b}
         /\ \A u : \A e \in RunningEntries(u) : RunningEntries(u) = {e}
  BY DEF IInv, OneOpenPerOwner, ActiveBreaks, RunningEntries

\* The session query: what it found is so.
LEMMA FindSessionServes ==
  ASSUME Serving, IInv', NEW r \in Slots, NEW st, NEW l, FindSession(r, st, l),
         \/ pc[r] = "clockOut" /\ st = Open /\ l = "clockOut.break"
         \/ pc[r] = "startBreak" /\ st = {"ACTIVE"} /\ l = "startBreak.timer"
         \/ pc[r] = "endBreak" /\ st = {"ON_BREAK"} /\ l = "endBreak.break"
         \/ pc[r] = "start" /\ st = {"ACTIVE"} /\ l = "start.task"
         \/ pc[r] = "switch" /\ st = {"ACTIVE"} /\ l = "switch.timer"
  PROVE  Serving' /\ Quiet
  <1>1. CASE Refuse(r)
    BY <1>1, FinishServes DEF Refuse, Quiet
  <1>2. ASSUME NEW s \in SessionsIn(User(r), st),
               Read(r, [got[r] EXCEPT !.session = s, !.at = now], l)
        PROVE  Serving' /\ Quiet
    <2> DEFINE g == [got[r] EXCEPT !.session = s, !.at = now]
    <2>1. /\ g.session = s /\ g.at = now
          /\ g.brk = got[r].brk /\ g.timer = got[r].timer
      BY DEF Serving, IInv, TypeOK, Found
    <2>2. Read(r, g, l)
      BY <1>2
    <2> HIDE DEF g
    <2>3. session[s].status \in st /\ pc[r] # "idle" /\ Still(req[r], pc[r], got[r])
      BY DEF SessionsIn, Serving
    <2>4. Day!StampFor(req[r].user, now)
      BY NowStamps
    <2>5. Still(req[r], l, g)
      BY <2>1, <2>3, <2>4 DEF Still
    <2>6. QED
      BY <2>2, <2>3, <2>5, ReadServes
  <1>3. QED
    BY <1>1, <1>2 DEF FindSession

\* The task query changes what the slot knows of the task only.
LEMMA FindTaskServes ==
  ASSUME Serving, IInv', NEW r \in Slots, NEW l, FindTask(r, l),
         \/ pc[r] = "start.task" /\ l = "start.timer"
         \/ pc[r] = "switch.task" /\ l = "switch.commit"
  PROVE  Serving' /\ Quiet
  <1>1. CASE Refuse(r)
    BY <1>1, FinishServes DEF Refuse, Quiet
  <1>2. ASSUME NEW todo, Read(r, [got[r] EXCEPT !.todo = todo, !.at = now], l)
        PROVE  Serving' /\ Quiet
    <2> DEFINE g == [got[r] EXCEPT !.todo = todo, !.at = now]
    <2>1. /\ g.session = got[r].session /\ g.at = now
          /\ g.brk = got[r].brk /\ g.timer = got[r].timer
      BY DEF Serving, IInv, TypeOK, Found
    <2>2. Read(r, g, l)
      BY <1>2
    <2> HIDE DEF g
    <2>3. Still(req[r], pc[r], got[r]) /\ pc[r] # "idle"
      BY DEF Serving
    <2>4. Day!StampFor(req[r].user, now)
      BY NowStamps
    <2>5. Still(req[r], l, g)
      BY <2>1, <2>3, <2>4 DEF Still
    <2>6. QED
      BY <2>2, <2>3, <2>5, ReadServes
  <1>3. QED
    BY <1>1, <1>2 DEF FindTask

\* The running-timer query of pause, stop and switchTask: with the timer it
\* found there is no other.
LEMMA FindTimerServes ==
  ASSUME Serving, IInv', NEW r \in Slots, NEW l, FindTimer(r, l),
         \/ pc[r] \in {"pause", "stop"} /\ l = "close.commit"
         \/ /\ pc[r] = "switch.timer" /\ l = "switch.task"
            /\ \A e \in RunningEntries(User(r)) : entry[e].taskId # req[r].task
  PROVE  Serving' /\ Quiet
  <1>1. CASE Refuse(r)
    BY <1>1, FinishServes DEF Refuse, Quiet
  <1>2. ASSUME NEW e \in RunningEntries(User(r)),
               Read(r, [got[r] EXCEPT !.timer = e, !.at = now], l)
        PROVE  Serving' /\ Quiet
    <2> DEFINE g == [got[r] EXCEPT !.timer = e, !.at = now]
    <2>1. /\ g.session = got[r].session /\ g.at = now
          /\ g.brk = got[r].brk /\ g.timer = e
      BY DEF Serving, IInv, TypeOK, Found
    <2>2. Read(r, g, l)
      BY <1>2
    <2> HIDE DEF g
    <2>3. Still(req[r], pc[r], got[r]) /\ pc[r] # "idle"
      BY DEF Serving
    <2>4. Day!StampFor(req[r].user, now) /\ RunningEntries(req[r].user) = {e}
      BY NowStamps, OneFound DEF User, Serving
    <2>5. Still(req[r], l, g)
      BY <2>1, <2>3, <2>4 DEF Still, User
    <2>6. QED
      BY <2>2, <2>3, <2>5, ReadServes
  <1>3. QED
    BY <1>1, <1>2 DEF FindTimer

\* clockOut looks for the active break of its session.
LEMMA ClockOutFindBreakServes ==
  ASSUME Serving, IInv', NEW r \in Slots, ClockOutFindBreak(r)
  PROVE  Serving' /\ Quiet
  <1>s. /\ pc[r] = "clockOut.break" /\ Still(req[r], pc[r], got[r])
        /\ got[r] \in Found /\ Day!StampFor(req[r].user, now)
    BY NowStamps DEF ClockOutFindBreak, Serving, IInv, TypeOK
  <1>1. CASE /\ ActiveBreaks(got[r].session) = {}
             /\ Read(r, [got[r] EXCEPT !.at = now], "clockOut.timer")
    <2> DEFINE g == [got[r] EXCEPT !.at = now]
    <2>1. /\ g.session = got[r].session /\ g.at = now
          /\ g.brk = got[r].brk /\ g.timer = got[r].timer
      BY <1>s DEF Found
    <2>2. Read(r, g, "clockOut.timer")
      BY <1>1
    <2> HIDE DEF g
    <2>3. Still(req[r], "clockOut.timer", g)
      BY <1>1, <1>s, <2>1 DEF Still
    <2>4. QED
      BY <1>s, <2>2, <2>3, ReadServes
  <1>2. ASSUME NEW b \in ActiveBreaks(got[r].session),
               Read(r, [got[r] EXCEPT !.brk = b, !.at = now], "clockOut.timer")
        PROVE  Serving' /\ Quiet
    <2> DEFINE g == [got[r] EXCEPT !.brk = b, !.at = now]
    <2>1. /\ g.session = got[r].session /\ g.at = now
          /\ g.brk = b /\ g.timer = got[r].timer
      BY <1>s DEF Found
    <2>2. Read(r, g, "clockOut.timer")
      BY <1>2
    <2> HIDE DEF g
    <2>3. ActiveBreaks(got[r].session) = {b} /\ b # None
      BY OneFound, NoneAssumption DEF Serving, ActiveBreaks
    <2>4. Still(req[r], "clockOut.timer", g)
      BY <1>s, <2>1, <2>3 DEF Still
    <2>5. QED
      BY <1>s, <2>2, <2>4, ReadServes
  <1>3. QED
    BY <1>1, <1>2 DEF ClockOutFindBreak

\* clockOut looks for the running timer, and has then read all it closes.
LEMMA ClockOutFindTimerServes ==
  ASSUME Serving, IInv', NEW r \in Slots, ClockOutFindTimer(r)
  PROVE  Serving' /\ Quiet
  <1>s. /\ pc[r] = "clockOut.timer" /\ Still(req[r], pc[r], got[r])
        /\ got[r] \in Found /\ Day!StampFor(req[r].user, now)
    BY NowStamps DEF ClockOutFindTimer, Serving, IInv, TypeOK
  <1>1. CASE /\ RunningEntries(User(r)) = {}
             /\ Read(r, [got[r] EXCEPT !.at = now], "clockOut.commit")
    <2> DEFINE g == [got[r] EXCEPT !.at = now]
    <2>1. /\ g.session = got[r].session /\ g.at = now
          /\ g.brk = got[r].brk /\ g.timer = got[r].timer
      BY <1>s DEF Found
    <2>2. Read(r, g, "clockOut.commit")
      BY <1>1
    <2> HIDE DEF g
    <2>3. Still(req[r], "clockOut.commit", g)
      BY <1>1, <1>s, <2>1 DEF Still, User
    <2>4. QED
      BY <1>s, <2>2, <2>3, ReadServes
  <1>2. ASSUME NEW e \in RunningEntries(User(r)),
               Read(r, [got[r] EXCEPT !.timer = e, !.at = now], "clockOut.commit")
        PROVE  Serving' /\ Quiet
    <2> DEFINE g == [got[r] EXCEPT !.timer = e, !.at = now]
    <2>1. /\ g.session = got[r].session /\ g.at = now
          /\ g.brk = got[r].brk /\ g.timer = e
      BY <1>s DEF Found
    <2>2. Read(r, g, "clockOut.commit")
      BY <1>2
    <2> HIDE DEF g
    <2>3. RunningEntries(req[r].user) = {e} /\ e # None
      BY OneFound, NoneAssumption DEF Serving, RunningEntries, User
    <2>4. Still(req[r], "clockOut.commit", g)
      BY <1>s, <2>1, <2>3 DEF Still
    <2>5. QED
      BY <1>s, <2>2, <2>4, ReadServes
  <1>3. CASE Refuse(r)
    BY <1>3, FinishServes DEF Refuse, Quiet
  <1>4. QED
    BY <1>1, <1>2, <1>3 DEF ClockOutFindTimer

\* startBreak reads its stamp before this query, but after the session's.
LEMMA StartBreakFindTimerServes ==
  ASSUME Serving, IInv', NEW r \in Slots, StartBreakFindTimer(r)
  PROVE  Serving' /\ Quiet
  <1>s. /\ pc[r] = "startBreak.timer" /\ Still(req[r], pc[r], got[r])
        /\ got[r] \in Found
    BY DEF StartBreakFindTimer, Serving, IInv, TypeOK
  <1>t. PICK t \in Stamps(r) :
          \/ /\ RunningEntries(User(r)) = {}
             /\ Read(r, [got[r] EXCEPT !.at = t], "startBreak.commit")
          \/ \E e \in RunningEntries(User(r)) :
                Read(r, [got[r] EXCEPT !.timer = e, !.at = t], "startBreak.commit")
    BY DEF StartBreakFindTimer
  <1>a. Day!StampFor(req[r].user, t)
    <2>1. Day!StampFor(req[r].user, got[r].at) /\ got[r].at \in Nat
      BY <1>s DEF Still, AfterSession, Found
    <2>2. QED
      BY <2>1, LaterStamps DEF Stamps, Serving
  <1>1. CASE /\ RunningEntries(User(r)) = {}
             /\ Read(r, [got[r] EXCEPT !.at = t], "startBreak.commit")
    <2> DEFINE g == [got[r] EXCEPT !.at = t]
    <2>1. /\ g.session = got[r].session /\ g.at = t
          /\ g.brk = got[r].brk /\ g.timer = got[r].timer
      BY <1>s DEF Found
    <2>2. Read(r, g, "startBreak.commit")
      BY <1>1
    <2> HIDE DEF g
    <2>3. Still(req[r], "startBreak.commit", g)
      BY <1>1, <1>s, <1>a, <2>1 DEF Still, User
    <2>4. QED
      BY <1>s, <2>2, <2>3, ReadServes
  <1>2. ASSUME NEW e \in RunningEntries(User(r)),
               Read(r, [got[r] EXCEPT !.timer = e, !.at = t], "startBreak.commit")
        PROVE  Serving' /\ Quiet
    <2> DEFINE g == [got[r] EXCEPT !.timer = e, !.at = t]
    <2>1. /\ g.session = got[r].session /\ g.at = t
          /\ g.brk = got[r].brk /\ g.timer = e
      BY <1>s DEF Found
    <2>2. Read(r, g, "startBreak.commit")
      BY <1>2
    <2> HIDE DEF g
    <2>3. RunningEntries(req[r].user) = {e} /\ e # None
      BY OneFound, NoneAssumption DEF Serving, RunningEntries, User
    <2>4. Still(req[r], "startBreak.commit", g)
      BY <1>s, <1>a, <2>1, <2>3 DEF Still
    <2>5. QED
      BY <1>s, <2>2, <2>4, ReadServes
  <1>3. QED
    BY <1>t, <1>1, <1>2

\* endBreak finds the one active break of its session.
LEMMA EndBreakFindBreakServes ==
  ASSUME Serving, IInv', NEW r \in Slots, EndBreakFindBreak(r)
  PROVE  Serving' /\ Quiet
  <1>s. /\ pc[r] = "endBreak.break" /\ Still(req[r], pc[r], got[r])
        /\ got[r] \in Found /\ Day!StampFor(req[r].user, now)
    BY NowStamps DEF EndBreakFindBreak, Serving, IInv, TypeOK
  <1>1. CASE Refuse(r)
    BY <1>1, FinishServes DEF Refuse, Quiet
  <1>2. ASSUME NEW b \in ActiveBreaks(got[r].session),
               Read(r, [got[r] EXCEPT !.brk = b, !.at = now], "endBreak.commit")
        PROVE  Serving' /\ Quiet
    <2> DEFINE g == [got[r] EXCEPT !.brk = b, !.at = now]
    <2>1. /\ g.session = got[r].session /\ g.at = now
          /\ g.brk = b /\ g.timer = got[r].timer
      BY <1>s DEF Found
    <2>2. Read(r, g, "endBreak.commit")
      BY <1>2
    <2> HIDE DEF g
    <2>3. ActiveBreaks(got[r].session) = {b}
      BY OneFound DEF Serving
    <2>4. Still(req[r], "endBreak.commit", g)
      BY <1>s, <2>1, <2>3 DEF Still
    <2>5. QED
      BY <1>s, <2>2, <2>4, ReadServes
  <1>3. QED
    BY <1>1, <1>2 DEF EndBreakFindBreak

\* clockIn finds no open session.
LEMMA ClockInFindServes ==
  ASSUME Serving, IInv', NEW r \in Slots, ClockInFind(r)
  PROVE  Serving' /\ Quiet
  <1>s. /\ pc[r] = "clockIn" /\ got[r] \in Found /\ Day!StampFor(req[r].user, now)
    BY NowStamps DEF ClockInFind, Serving, IInv, TypeOK
  <1>1. CASE Refuse(r)
    BY <1>1, FinishServes DEF Refuse, Quiet
  <1>2. CASE Read(r, [got[r] EXCEPT !.at = now], "clockIn.create")
    <2> DEFINE g == [got[r] EXCEPT !.at = now]
    <2>1. g.at = now
      BY <1>s DEF Found
    <2>2. Read(r, g, "clockIn.create")
      BY <1>2
    <2> HIDE DEF g
    <2>3. Still(req[r], "clockIn.create", g)
      BY <1>s, <2>1 DEF Still, AfterSession
    <2>4. QED
      BY <1>s, <2>2, <2>3, ReadServes
  <1>3. QED
    BY <1>1, <1>2 DEF ClockInFind

\* start, with no timer running.
LEMMA StartFindTimerServes ==
  ASSUME Serving, IInv', NEW r \in Slots, StartFindTimer(r)
  PROVE  Serving' /\ Quiet
  <1>s. /\ pc[r] = "start.timer" /\ Still(req[r], pc[r], got[r])
        /\ got[r] \in Found /\ Day!StampFor(req[r].user, now)
    BY NowStamps DEF StartFindTimer, Serving, IInv, TypeOK
  <1>1. CASE Refuse(r)
    BY <1>1, FinishServes DEF Refuse, Quiet
  <1>2. CASE Read(r, [got[r] EXCEPT !.at = now], "start.commit")
    <2> DEFINE g == [got[r] EXCEPT !.at = now]
    <2>1. /\ g.session = got[r].session /\ g.at = now
          /\ g.brk = got[r].brk /\ g.timer = got[r].timer
      BY <1>s DEF Found
    <2>2. Read(r, g, "start.commit")
      BY <1>2
    <2> HIDE DEF g
    <2>3. Still(req[r], "start.commit", g)
      BY <1>s, <2>1 DEF Still
    <2>4. QED
      BY <1>s, <2>2, <2>3, ReadServes
  <1>3. QED
    BY <1>1, <1>2 DEF StartFindTimer

\* Queries that the slot remembers nothing of.
LEMMA PassingServes ==
  ASSUME Serving, IInv', NEW r \in Slots,
         ResumeFindPrior(r) \/ UpdateFind(r) \/ UpdateFindRunning(r)
  PROVE  Serving' /\ Quiet
  <1>1. CASE Refuse(r)
    BY <1>1, FinishServes DEF Refuse, Quiet
  <1>2. ASSUME NEW l \in {"start", "update.running", "update.write"},
               Read(r, got[r], l)
        PROVE  Serving' /\ Quiet
    <2>1. pc[r] # "idle"
      BY DEF ResumeFindPrior, UpdateFind, UpdateFindRunning
    <2>2. Still(req[r], l, got[r])
      BY DEF Still, AfterSession
    <2>3. QED
      BY <1>2, <2>1, <2>2, ReadServes
  <1>3. QED
    BY <1>1, <1>2 DEF ResumeFindPrior, UpdateFind, UpdateFindRunning

\* The status part of TasksService.update writes no record of time.
LEMMA UpdateWriteServes ==
  ASSUME Serving, IInv', NEW r \in Slots, UpdateWrite(r)
  PROVE  Serving' /\ Quiet
  BY FinishServes DEF UpdateWrite, Quiet

\* Every step that is no write of a record keeps what slots know.
LEMMA QueriesServe ==
  ASSUME Serving, IInv', NEW r \in Slots, Step(r),
         ~ClockInCreate(r), ~ClockOutCommit(r), ~StartBreakCommit(r),
         ~EndBreakCommit(r), ~StartCommit(r), ~CloseCommit(r), ~SwitchCommit(r)
  PROVE  Serving' /\ Quiet
  <1>1. CASE ClockOutFindSession(r)
    BY <1>1, FindSessionServes DEF ClockOutFindSession
  <1>2. CASE StartBreakFindSession(r)
    BY <1>2, FindSessionServes DEF StartBreakFindSession
  <1>3. CASE EndBreakFindSession(r)
    BY <1>3, FindSessionServes DEF EndBreakFindSession
  <1>4. CASE StartFindSession(r)
    BY <1>4, FindSessionServes DEF StartFindSession
  <1>5. CASE SwitchFindSession(r)
    BY <1>5, FindSessionServes DEF SwitchFindSession
  <1>6. CASE StartFindTask(r)
    BY <1>6, FindTaskServes DEF StartFindTask
  <1>7. CASE SwitchFindTask(r)
    BY <1>7, FindTaskServes DEF SwitchFindTask
  <1>8. CASE PauseFind(r) \/ StopFind(r)
    BY <1>8, FindTimerServes DEF PauseFind, StopFind
  <1>9. CASE SwitchFindTimer(r)
    <2>1. CASE Refuse(r)
      BY <2>1, FinishServes DEF Refuse, Quiet
    <2>2. CASE ~Refuse(r)
      BY <1>9, <2>2, FindTimerServes DEF SwitchFindTimer
    <2>3. QED
      BY <2>1, <2>2
  <1>10. CASE ClockInFind(r) \/ StartFindTimer(r) \/ UpdateWrite(r)
    BY <1>10, ClockInFindServes, StartFindTimerServes, UpdateWriteServes
  <1>11. CASE ResumeFindPrior(r) \/ UpdateFind(r) \/ UpdateFindRunning(r)
    BY <1>11, PassingServes
  <1>12. CASE \/ ClockOutFindBreak(r) \/ ClockOutFindTimer(r)
              \/ StartBreakFindTimer(r) \/ EndBreakFindBreak(r)
    BY <1>12, ClockOutFindBreakServes, ClockOutFindTimerServes,
       StartBreakFindTimerServes, EndBreakFindBreakServes
  <1>13. QED
    BY <1>1, <1>2, <1>3, <1>4, <1>5, <1>6, <1>7, <1>8, <1>9, <1>10, <1>11, <1>12
       DEF Step

----------------------------------------------------------------------------
(* The writes: each is WorkDay's.                                          *)

\* Slot r writes what WorkDay promises of its user's request, and ends.
Promised(r) ==
    /\ \E t \in 0 .. now :
          Day!StampFor(User(r), t) /\ Day!ServeAt(User(r), t)
    /\ Finish(r)

\* What a slot at its write knows, and the stamp it writes.
LEMMA AtWrite ==
  ASSUME Serving, NEW r \in Slots, NEW t \in Stamps(r), pc[r] # "idle",
         pc[r] \in AfterSession \cup {"clockIn.create", "close.commit"}
  PROVE  /\ User(r) \in Users
         /\ pc[r] \in NeedsTask => req[r].task \in Tasks
         /\ t \in 0 .. now
         /\ Day!StampFor(User(r), t)
         /\ pc[r] \in AfterSession => /\ got[r].session \in Sessions
                                      /\ session[got[r].session].userId = User(r)
         /\ Still(req[r], pc[r], got[r])
  <1>1. IInv /\ SlotAgrees(req[r], pc[r], got[r]) /\ Still(req[r], pc[r], got[r])
    BY DEF Serving, IInv
  <1>2. Day!StampFor(User(r), got[r].at)
    BY <1>1 DEF Still, User
  <1>3. got[r].at \in Nat /\ t \in got[r].at .. now
    BY <1>1 DEF IInv, TypeOK, Found, Stamps
  <1>4. Day!StampFor(User(r), t) /\ t \in 0 .. now
    BY <1>1, <1>2, <1>3, LaterStamps
  <1>5. QED
    BY <1>1, <1>4 DEF SlotAgrees, User

\* A null id closes nothing.
LEMMA NullCloses ==
  /\ \A x, t : ClosedEntries({x}, t) = ClosedEntries({x} \ {None}, t)
  /\ \A x, t : EndedBreaks({x}, t) = EndedBreaks({x} \ {None}, t)
  BY NoneAssumption DEF ClosedEntries, EndedBreaks

LEMMA ClockInPromised ==
  ASSUME Serving, NEW r \in Slots, ClockInCreate(r), ~Refuse(r)
  PROVE  Promised(r)
  <1>1. PICK s \in Sessions, t \in Stamps(r) :
           /\ pc[r] = "clockIn.create"
           /\ OpenSessions(User(r)) = {}
           /\ session[s].status = "ABSENT"
           /\ session' = [session EXCEPT ![s] = NewSession(User(r), t)]
           /\ Finish(r)
           /\ UNCHANGED <<now, brk, entry>>
    BY DEF ClockInCreate
  <1>2. t \in 0 .. now /\ Day!StampFor(User(r), t)
    BY <1>1, AtWrite
  <1>3. Day!ClockIn(User(r), t)
    BY <1>1, DayOperators DEF Day!ClockIn
  <1>4. QED
    BY <1>1, <1>2, <1>3 DEF Promised, Day!ServeAt

LEMMA ClockOutPromised ==
  ASSUME Serving, NEW r \in Slots, ClockOutCommit(r)
  PROVE  Promised(r)
  <1> DEFINE s == got[r].session
  <1>1. PICK t \in Stamps(r) :
           /\ pc[r] = "clockOut.commit"
           /\ entry' = ClosedEntries({got[r].timer}, t)
           /\ brk' = EndedBreaks({got[r].brk}, t)
           /\ session' = ClockedOut(s, t)
           /\ Finish(r)
           /\ now' = now
    BY DEF ClockOutCommit
  <1>2. /\ t \in 0 .. now /\ Day!StampFor(User(r), t)
        /\ s \in Sessions /\ session[s].userId = User(r)
        /\ Still(req[r], pc[r], got[r])
    BY <1>1, AtWrite DEF AfterSession
  <1>3. /\ session[s].status \in Open
        /\ ActiveBreaks(s) = {got[r].brk} \ {None}
        /\ RunningEntries(User(r)) = {got[r].timer} \ {None}
    BY <1>1, <1>2 DEF Still, User
  <1>4. /\ entry' = ClosedEntries(RunningEntries(User(r)), t)
        /\ brk' = EndedBreaks(ActiveBreaks(s), t)
    BY <1>1, <1>3, NullCloses
  <1>5. s \in OpenSessions(User(r))
    BY <1>2, <1>3 DEF OpenSessions, SessionsIn
  <1> HIDE DEF s
  <1>6. Day!ClockOut(User(r), t)
    BY <1>1, <1>4, <1>5, DayOperators DEF Day!ClockOut
  <1>7. QED
    BY <1>1, <1>2, <1>6 DEF Promised, Day!ServeAt

LEMMA StartBreakPromised ==
  ASSUME Serving, NEW r \in Slots, StartBreakCommit(r), ~Refuse(r)
  PROVE  Promised(r)
  <1> DEFINE s == got[r].session
  <1> DEFINE t == got[r].at
  <1>1. PICK b \in Breaks :
           /\ pc[r] = "startBreak.commit"
           /\ brk[b].status = "ABSENT"
           /\ brk' = [brk EXCEPT ![b] = NewBreak(s, t)]
           /\ session' = [session EXCEPT ![s].status = "ON_BREAK"]
           /\ entry' = ClosedEntries({got[r].timer}, t)
           /\ Finish(r)
           /\ now' = now
    BY DEF StartBreakCommit
  <1>2. t \in Stamps(r)
    BY DEF Stamps, Serving, IInv, SlotAgrees, TypeOK, RecordsTypeOK, Found
  <1>3. /\ t \in 0 .. now /\ Day!StampFor(User(r), t)
        /\ s \in Sessions /\ session[s].userId = User(r)
        /\ Still(req[r], pc[r], got[r])
    BY <1>1, <1>2, AtWrite DEF AfterSession
  <1>4. /\ session[s].status = "ACTIVE"
        /\ RunningEntries(User(r)) = {got[r].timer} \ {None}
    BY <1>1, <1>3 DEF Still, User
  <1>5. entry' = ClosedEntries(RunningEntries(User(r)), t)
    BY <1>1, <1>4, NullCloses
  <1>6. s \in SessionsIn(User(r), {"ACTIVE"})
    BY <1>3, <1>4 DEF SessionsIn
  <1> HIDE DEF s, t
  <1>7. Day!StartBreak(User(r), t)
    BY <1>1, <1>5, <1>6, DayOperators DEF Day!StartBreak
  <1>8. QED
    BY <1>1, <1>3, <1>7 DEF Promised, Day!ServeAt

LEMMA EndBreakPromised ==
  ASSUME Serving, NEW r \in Slots, EndBreakCommit(r), ~Refuse(r)
  PROVE  Promised(r)
  <1> DEFINE s == got[r].session
  <1>1. PICK t \in Stamps(r) :
           /\ pc[r] = "endBreak.commit"
           /\ brk' = EndedBreaks({got[r].brk}, t)
           /\ session' = [session EXCEPT ![s].status = "ACTIVE"]
           /\ Finish(r)
           /\ UNCHANGED <<now, entry>>
    BY DEF EndBreakCommit
  <1>2. /\ t \in 0 .. now /\ Day!StampFor(User(r), t)
        /\ s \in Sessions /\ session[s].userId = User(r)
        /\ Still(req[r], pc[r], got[r])
    BY <1>1, AtWrite DEF AfterSession
  <1>3. session[s].status = "ON_BREAK" /\ ActiveBreaks(s) = {got[r].brk}
    BY <1>1, <1>2 DEF Still
  <1>4. s \in SessionsIn(User(r), {"ON_BREAK"})
    BY <1>2, <1>3 DEF SessionsIn
  <1> HIDE DEF s
  <1>5. Day!EndBreak(User(r), t)
    BY <1>1, <1>3, <1>4, DayOperators DEF Day!EndBreak
  <1>6. QED
    BY <1>1, <1>2, <1>5 DEF Promised, Day!ServeAt

LEMMA StartPromised ==
  ASSUME Serving, NEW r \in Slots, StartCommit(r), ~Refuse(r)
  PROVE  Promised(r)
  <1> DEFINE s == got[r].session
  <1> DEFINE k == req[r].task
  <1>1. PICK e \in Entries, t \in Stamps(r) :
           /\ pc[r] = "start.commit"
           /\ RunningEntries(User(r)) = {}
           /\ entry[e].status = "ABSENT"
           /\ entry' = [entry EXCEPT ![e] = NewEntry(User(r), k, s, t)]
           /\ Finish(r)
           /\ UNCHANGED <<now, session, brk>>
    BY DEF StartCommit
  <1>2. /\ t \in 0 .. now /\ Day!StampFor(User(r), t)
        /\ s \in Sessions /\ session[s].userId = User(r)
        /\ k \in Tasks
        /\ Still(req[r], pc[r], got[r])
    BY <1>1, AtWrite DEF AfterSession, NeedsTask
  <1>3. s \in SessionsIn(User(r), {"ACTIVE"})
    BY <1>1, <1>2 DEF SessionsIn, Still
  <1> HIDE DEF s, k
  <1>4. Day!StartTimer(User(r), k, t)
    BY <1>1, <1>3, DayOperators DEF Day!StartTimer
  <1>5. QED
    BY <1>1, <1>2, <1>4 DEF Promised, Day!ServeAt

LEMMA ClosePromised ==
  ASSUME Serving, NEW r \in Slots, CloseCommit(r)
  PROVE  Promised(r)
  <1>1. PICK t \in Stamps(r) :
           /\ pc[r] = "close.commit"
           /\ entry' = ClosedEntries({got[r].timer}, t)
           /\ Finish(r)
           /\ UNCHANGED <<now, session, brk>>
    BY DEF CloseCommit
  <1>2. /\ t \in 0 .. now /\ Day!StampFor(User(r), t)
        /\ Still(req[r], pc[r], got[r])
    BY <1>1, AtWrite
  <1>3. RunningEntries(User(r)) = {got[r].timer}
    BY <1>1, <1>2 DEF Still, User
  <1>4. Day!StopTimer(User(r), t)
    BY <1>1, <1>3, DayOperators DEF Day!StopTimer
  <1>5. QED
    BY <1>1, <1>2, <1>4 DEF Promised, Day!ServeAt

LEMMA SwitchPromised ==
  ASSUME Serving, NEW r \in Slots, SwitchCommit(r), ~Refuse(r)
  PROVE  Promised(r)
  <1> DEFINE s == got[r].session
  <1> DEFINE k == req[r].task
  <1>1. PICK e \in Entries, t \in Stamps(r) :
           /\ pc[r] = "switch.commit"
           /\ entry[e].status = "ABSENT"
           /\ entry' = [ClosedEntries({got[r].timer}, t)
                          EXCEPT ![e] = NewEntry(User(r), k, s, t)]
           /\ Finish(r)
           /\ UNCHANGED <<now, session, brk>>
    BY DEF SwitchCommit
  <1>2. /\ t \in 0 .. now /\ Day!StampFor(User(r), t)
        /\ s \in Sessions /\ session[s].userId = User(r)
        /\ k \in Tasks
        /\ Still(req[r], pc[r], got[r])
    BY <1>1, AtWrite DEF AfterSession, NeedsTask
  <1>3. /\ session[s].status = "ACTIVE"
        /\ RunningEntries(User(r)) = {got[r].timer}
        /\ entry[got[r].timer].taskId # k
    BY <1>1, <1>2 DEF Still, User
  <1>4. s \in SessionsIn(User(r), {"ACTIVE"})
    BY <1>2, <1>3 DEF SessionsIn
  <1> HIDE DEF s, k
  <1>5. Day!SwitchTask(User(r), k, t)
    BY <1>1, <1>3, <1>4, DayOperators DEF Day!SwitchTask
  <1>6. QED
    BY <1>1, <1>2, <1>5 DEF Promised, Day!ServeAt

\* A promised write leaves what the other slots know as it is.
LEMMA PromisedServes ==
  ASSUME Serving, IInv', NEW r \in Slots, Promised(r), pc[r] # "idle"
  PROVE  Serving' /\ Day!Next
  <1>1. PICK t \in 0 .. now : Day!StampFor(User(r), t) /\ Day!ServeAt(User(r), t)
    BY DEF Promised
  <1>2. User(r) \in Users /\ IInv /\ NothingAhead /\ OneEach
    BY DEF Serving, IInv, SlotAgrees, User
  <1>3. TouchesOnly(User(r)) /\ NothingAhead' /\ now' = now
    <2>1. ASSUME NEW u \in Users, Day!ServeAt(u, t)
          PROVE  TouchesOnly(u) /\ NothingAhead' /\ now' = now
      BY <1>2, <2>1, ServeTouchesOwn
    <2>2. QED
      BY <1>1, <1>2, <2>1
  <1>4. /\ \A q \in Slots \ {r} : req'[q] = req[q] /\ pc'[q] = pc[q]
        /\ \A q \in Slots \ {r} : got'[q] = got[q]
        /\ pc'[r] = "idle" /\ got'[r] = Nothing
    BY <1>2, Freed DEF Promised
  <1>5. OneEach'
    BY <1>2, <1>4, OneEachKept
  <1>6. ASSUME NEW q \in Slots PROVE Still(req[q], pc[q], got[q])'
    <2>1. CASE q = r
      BY <1>4, <2>1, FreeStill DEF Still, Nothing, AfterSession
    <2>2. CASE q # r /\ pc[q] = "idle"
      BY <1>4, <2>2 DEF Still, AfterSession, Serving
    <2>3. CASE q # r /\ pc[q] # "idle"
      <3>1. User(q) # User(r)
        BY <1>2, <2>3 DEF OneEach
      <3>2. ASSUME NEW v \in Users, v = User(r)
            PROVE  Still(req[q], pc[q], got[q])'
        BY <1>2, <1>3, <1>4, <2>3, <3>1, <3>2, StillApart DEF Serving
      <3>3. QED
        BY <1>2, <3>2
    <2>4. QED
      BY <2>1, <2>2, <2>3
  <1>7. Day!Next
    BY <1>1, <1>2 DEF Day!Next, Day!Serve
  <1>8. QED
    BY <1>3, <1>5, <1>6, <1>7 DEF Serving

----------------------------------------------------------------------------
(* Every step.                                                             *)

LEMMA InitServes == Init => Serving /\ Day!Init
  <1> SUFFICES ASSUME Init PROVE Serving /\ Day!Init
    OBVIOUS
  <1>1. IInv
    BY InitIInv
  <1>2. NothingAhead
    BY DEF Init, RecordsInit, NothingAhead, NoSession, NoBreak, NoEntry, NoStamp
  <1>3. OneEach
    BY DEF Init, OneEach
  <1>4. ASSUME NEW r \in Slots PROVE Still(req[r], pc[r], got[r])
    BY FreeStill DEF Init
  <1>5. Day!Init
    BY DEF Init, Day!Init, RecordsInit, Day!RecordsInit, NoSession, NoBreak, NoEntry,
           Day!NoSession, Day!NoBreak, Day!NoEntry, NoStamp, Day!NoStamp
  <1>6. QED
    BY <1>1, <1>2, <1>3, <1>4, <1>5 DEF Serving

\* The clock moves on.
LEMMA PassTimeServes ==
  ASSUME Serving, IInv', PassTime
  PROVE  Serving' /\ Day!Next
  <1>1. /\ now \in Nat /\ now' = now + 1 /\ now =< now' /\ now' \in Nat
        /\ UNCHANGED <<session, brk, entry, pc, req, got>> /\ UNCHANGED tables
    BY DEF Serving, IInv, TypeOK, RecordsTypeOK, PassTime, Tick, tables
  <1>2. NothingAhead'
    BY <1>1 DEF Serving, NothingAhead, IInv, TypeOK, RecordsTypeOK, SessionRow, BreakRow,
       EntryRow, Stamp, NoStamp
  <1>3. OneEach'
    BY <1>1 DEF Serving, OneEach, User
  <1>4. ASSUME NEW q \in Slots PROVE Still(req[q], pc[q], got[q])'
    BY <1>1, StillQuiet DEF Serving
  <1>5. Day!Next
    BY DEF PassTime, Day!Next, Day!PassTime, Tick, Day!Tick, Day!tables
  <1>6. QED
    BY <1>2, <1>3, <1>4, <1>5 DEF Serving

LEMMA StepServes ==
  ASSUME Serving, IInv', NEW r \in Slots, Step(r)
  PROVE  Serving' /\ (Day!Next \/ Quiet)
  <1>1. CASE Refuse(r)
    BY <1>1, FinishServes DEF Refuse, Quiet
  <1>2. CASE Promised(r) /\ pc[r] # "idle"
    BY <1>2, PromisedServes
  <1>3. CASE \/ ClockInCreate(r) \/ ClockOutCommit(r) \/ StartBreakCommit(r)
             \/ EndBreakCommit(r) \/ StartCommit(r) \/ CloseCommit(r)
             \/ SwitchCommit(r)
    <2>1. pc[r] # "idle"
      BY <1>3 DEF ClockInCreate, ClockOutCommit, StartBreakCommit, EndBreakCommit,
         StartCommit, CloseCommit, SwitchCommit
    <2>2. Refuse(r) \/ Promised(r)
      BY <1>3, ClockInPromised, ClockOutPromised, StartBreakPromised,
         EndBreakPromised, StartPromised, ClosePromised, SwitchPromised
    <2>3. QED
      BY <1>1, <1>2, <2>1, <2>2
  <1>4. QED
    BY <1>3, QueriesServe

LEMMA NextServes ==
  ASSUME Serving, [SerialNext]_vars
  PROVE  Serving' /\ [Day!Next]_(Day!vars)
  <1>0. IInv'
    BY SerialIsNext, NextKeeps DEF Serving
  <1>1. CASE PassTime
    BY <1>0, <1>1, PassTimeServes
  <1>2. ASSUME NEW r \in Slots, Receive(r), OneAtATime(r)
        PROVE  Serving' /\ Quiet
    BY <1>0, <1>2, ReceiveServes
  <1>3. ASSUME NEW r \in Slots, Step(r)
        PROVE  Serving' /\ (Day!Next \/ Quiet)
    BY <1>0, <1>3, StepServes
  <1>4. ASSUME NEW r \in Slots, Lost(r)
        PROVE  Serving' /\ Quiet
    BY <1>0, <1>4, FinishServes DEF Lost, Refuse, Quiet
  <1>5. CASE UNCHANGED vars
    <2>1. UNCHANGED <<session, brk, entry, pc, req, got>> /\ UNCHANGED tables /\ Quiet
      BY <1>5 DEF vars, tables, Quiet
    <2>2. now \in Nat /\ now' = now
      BY <2>1 DEF Quiet, Serving, IInv, TypeOK, RecordsTypeOK
    <2>3. NothingAhead' /\ OneEach'
      BY <2>1, <2>2 DEF Serving, NothingAhead, OneEach, User
    <2>4. ASSUME NEW q \in Slots PROVE Still(req[q], pc[q], got[q])'
      BY <2>1, <2>2, StillQuiet DEF Serving
    <2>5. QED
      BY <1>0, <2>1, <2>3, <2>4 DEF Serving, Quiet, Day!vars
  <1>6. Quiet => UNCHANGED Day!vars
    BY DEF Quiet, Day!vars
  <1>7. QED
    BY <1>1, <1>2, <1>3, <1>4, <1>5, <1>6 DEF SerialNext, Quiet, Day!vars

\* The handlers, served one request of a user at a time, implement WorkDay: a
\* request's effect is that of one step, whatever requests of other users and
\* whatever lost ones its queries and its write are interleaved with
\* (AttendanceService, BreaksService, TaskTimerService).
THEOREM ServedInTurn == SerialSpec => ServesWorkDay
  <1>1. Init => Serving /\ Day!Init
    BY InitServes
  <1>2. Serving /\ [SerialNext]_vars => Serving' /\ [Day!Next]_(Day!vars)
    BY NextServes
  <1>3. QED
    BY <1>1, <1>2, PTL DEF SerialSpec, ServesWorkDay, Day!Spec

----------------------------------------------------------------------------
(* Tasks, so served: what a handler has read of its task is still so when  *)
(* it writes, because nobody else holds a task that is being updated.      *)

\* The caller, no administrator, would bring a finished task back.
Reopening(r) ==
    /\ User(r) \notin Admins
    /\ task[req[r].task].status \in Finished
    /\ req[r].status \notin {"KEEP", task[req[r].task].status}

\* What a handler has found out of its task: that it may be timed, that the caller
\* may give it the status asked for, that no timer runs on it.
TaskKnown(r) ==
    /\ pc[r] \in {"start.timer", "start.commit", "switch.commit"} =>
          task[req[r].task].status \notin Finished
    /\ pc[r] \in {"update.running", "update.write"} => ~Reopening(r)
    /\ pc[r] = "update.write" /\ req[r].status = "COMPLETED" =>
          \A e \in Entries : entry[e].status = "RUNNING" =>
             entry[e].taskId # req[r].task

UpdatesApart ==
    \A r \in Slots : pc[r] \in Updating =>
       \A q \in Slots \ {r} : pc[q] # "idle" => req[q].task # req[r].task

TaskIInv ==
    /\ CompletedTaskNotTimed
    /\ UpdatesApart
    /\ \A r \in Slots : TaskKnown(r)

\* A step of slot r writes no task but its own, starts no timer but on its own, and
\* finishes a task only as an update.
OwnTaskOnly(r) ==
    /\ \A k \in Tasks : k # req[r].task => task'[k] = task[k]
    /\ \A e \in Entries : entry'[e].status = "RUNNING" =>
          \/ entry[e].status = "RUNNING" /\ entry'[e].taskId = entry[e].taskId
          \/ entry'[e].taskId = req[r].task
    /\ pc[r] \notin Updating => \A k \in Tasks :
          task[k].status \notin Finished => task'[k].status \notin Finished

\* What another slot knows of its task outlives such a step.
LEMMA OtherTaskKnown ==
  ASSUME IInv, TaskIInv, NEW r \in Slots, pc[r] # "idle", OwnTaskOnly(r),
         NEW q \in Slots, q # r, pc'[q] = pc[q], req'[q] = req[q]
  PROVE  TaskKnown(q)'
  <1> DEFINE k == req[q].task
  <1>1. TaskKnown(q) /\ SlotAgrees(req[q], pc[q], got[q])
    BY DEF TaskIInv, IInv
  <1>2. CASE k # req[r].task
    <2>1. pc[q] \in NeedsTask => task'[k] = task[k]
      BY <1>1, <1>2 DEF SlotAgrees, OwnTaskOnly
    <2>2. \A e \in Entries : entry'[e].status = "RUNNING" /\ entry'[e].taskId = k =>
             entry[e].status = "RUNNING" /\ entry[e].taskId = k
      BY <1>2 DEF OwnTaskOnly
    <2>3. QED
      BY <1>1, <2>1, <2>2 DEF TaskKnown, Reopening, User, NeedsTask
  <1>3. CASE k = req[r].task
    <2>1. pc[q] # "idle" => pc[q] \notin Updating /\ pc[r] \notin Updating
      BY <1>3 DEF TaskIInv, UpdatesApart
    <2>2. pc[q] \in {"start.timer", "start.commit", "switch.commit"} =>
             task'[k].status \notin Finished
      BY <1>1, <2>1 DEF SlotAgrees, NeedsTask, OwnTaskOnly, TaskKnown
    <2>3. QED
      BY <2>1, <2>2 DEF TaskKnown, Updating
  <1>4. QED
    BY <1>2, <1>3

LEMMA ActKeepsTasks ==
  ASSUME IInv, TaskIInv, NEW r \in Slots, pc[r] # "idle", OwnTaskOnly(r),
         \A q \in Slots \ {r} : pc'[q] = pc[q] /\ req'[q] = req[q],
         pc'[r] = "idle" \/ req'[r] = req[r],
         pc'[r] \in Updating => pc[r] \in Updating,
         TaskKnown(r)', CompletedTaskNotTimed'
  PROVE  TaskIInv'
  <1>1. \A q \in Slots : TaskKnown(q)'
    BY OtherTaskKnown
  <1>2. ASSUME NEW q \in Slots, pc'[q] \in Updating, NEW o \in Slots \ {q}, pc'[o] # "idle"
        PROVE  req'[o].task # req'[q].task
    <2>1. /\ pc[q] \in Updating /\ pc[o] # "idle"
          /\ req'[o] = req[o] /\ req'[q] = req[q]
      BY <1>2 DEF Updating
    <2>2. QED
      BY <1>2, <2>1 DEF TaskIInv, UpdatesApart
  <1>3. UpdatesApart'
    BY <1>2 DEF UpdatesApart
  <1>4. QED
    BY <1>1, <1>3 DEF TaskIInv

\* A task that is not completed in the step has no timer to lose.
LEMMA StillNotTimed ==
  ASSUME IInv, CompletedTaskNotTimed, NEW r \in Slots, OwnTaskOnly(r),
         LET k == req[r].task
         IN  k \in Tasks =>
                \/ task'[k].status # "COMPLETED"
                \/ /\ task[k].status = "COMPLETED" \/ \A e \in Entries :
                         entry[e].status = "RUNNING" => entry[e].taskId # k
                   /\ UNCHANGED entry,
         req[r].task \in Tasks \/ \A e \in Entries : entry'[e].status = "RUNNING" =>
            entry[e].status = "RUNNING" /\ entry'[e].taskId = entry[e].taskId
  PROVE  CompletedTaskNotTimed'
  <1> SUFFICES ASSUME NEW e \in Entries, entry'[e].status = "RUNNING"
               PROVE  task'[entry'[e].taskId].status # "COMPLETED"
    BY DEF CompletedTaskNotTimed
  <1>1. CASE entry'[e].taskId = req[r].task /\ req[r].task \in Tasks
    BY <1>1 DEF CompletedTaskNotTimed
  <1>2. CASE entry[e].status = "RUNNING" /\ entry'[e].taskId = entry[e].taskId
    <2>1. entry[e].taskId \in Tasks
      BY <1>2 DEF IInv, OwnersAgree
    <2>2. QED
      BY <1>1, <1>2, <2>1 DEF CompletedTaskNotTimed, OwnTaskOnly
  <1>3. QED
    BY <1>1, <1>2 DEF OwnTaskOnly

\* A query, a refusal, and the writes that start no timer and name no task.
LEMMA QuietKeepsTasks ==
  ASSUME IInv, TaskIInv, NEW r \in Slots, pc[r] # "idle", UNCHANGED task,
         \A e \in Entries : entry'[e].status = "RUNNING" =>
            entry[e].status = "RUNNING" /\ entry'[e].taskId = entry[e].taskId,
         \A q \in Slots \ {r} : pc'[q] = pc[q] /\ req'[q] = req[q],
         pc'[r] = "idle" \/ req'[r] = req[r],
         pc'[r] \in Updating => pc[r] \in Updating,
         TaskKnown(r)'
  PROVE  TaskIInv' /\ ReopenedByAdmin
  <1>1. OwnTaskOnly(r)
    BY DEF OwnTaskOnly
  <1>2. CompletedTaskNotTimed'
    BY DEF TaskIInv, CompletedTaskNotTimed
  <1>3. ReopenedByAdmin
    BY DEF ReopenedByAdmin
  <1>4. QED
    BY <1>1, <1>2, <1>3, ActKeepsTasks

LEMMA ReadKeepsTasks ==
  ASSUME IInv, TaskIInv, NEW r \in Slots, pc[r] # "idle", NEW g, NEW l, Read(r, g, l),
         l \in Updating => pc[r] \in Updating,
         l \in {"start.timer", "start.commit", "switch.commit"} =>
            task[req[r].task].status \notin Finished,
         l \in {"update.running", "update.write"} => ~Reopening(r),
         l = "update.write" /\ req[r].status = "COMPLETED" =>
            \A e \in Entries : entry[e].status = "RUNNING" =>
               entry[e].taskId # req[r].task
  PROVE  TaskIInv' /\ ReopenedByAdmin
  <1>1. /\ UNCHANGED <<entry, task, req>>
        /\ \A q \in Slots \ {r} : pc'[q] = pc[q]
        /\ pc'[r] = l
    BY DEF Read, IInv, TypeOK
  <1>2. TaskKnown(r)'
    BY <1>1 DEF TaskKnown, Reopening, User
  <1>3. QED
    BY <1>1, <1>2, QuietKeepsTasks

LEMMA FinishKeepsTasks ==
  ASSUME IInv, TaskIInv, NEW r \in Slots, pc[r] # "idle", Finish(r), UNCHANGED task,
         \A e \in Entries : entry'[e].status = "RUNNING" =>
            entry[e].status = "RUNNING" /\ entry'[e].taskId = entry[e].taskId
  PROVE  TaskIInv' /\ ReopenedByAdmin
  <1>1. /\ \A q \in Slots \ {r} : pc'[q] = pc[q] /\ req'[q] = req[q]
        /\ pc'[r] = "idle"
    BY DEF Finish, IInv, TypeOK
  <1>2. TaskKnown(r)'
    BY <1>1 DEF TaskKnown
  <1>3. QED
    BY <1>1, <1>2, QuietKeepsTasks DEF Updating

LEMMA RefuseKeepsTasks ==
  ASSUME IInv, TaskIInv, NEW r \in Slots, pc[r] # "idle", Refuse(r)
  PROVE  TaskIInv' /\ ReopenedByAdmin
  BY FinishKeepsTasks DEF Refuse

\* The queries that learn nothing of a task.
LEMMA QueriesKeepTasks ==
  ASSUME IInv, TaskIInv, NEW r \in Slots,
         \/ ClockInFind(r) \/ ClockOutFindSession(r) \/ ClockOutFindBreak(r)
         \/ ClockOutFindTimer(r) \/ StartBreakFindSession(r) \/ StartBreakFindTimer(r)
         \/ EndBreakFindSession(r) \/ EndBreakFindBreak(r) \/ ResumeFindPrior(r)
         \/ StartFindSession(r) \/ PauseFind(r) \/ StopFind(r)
         \/ SwitchFindSession(r) \/ SwitchFindTimer(r)
  PROVE  TaskIInv' /\ ReopenedByAdmin
  <1> DEFINE Aside == {"clockIn.create", "clockOut.break", "clockOut.timer",
                "clockOut.commit", "startBreak.timer", "startBreak.commit",
                "endBreak.break", "endBreak.commit", "start", "start.task",
                "close.commit", "switch.timer", "switch.task"}
  <1>1. pc[r] # "idle"
    BY DEF ClockInFind, ClockOutFindSession, ClockOutFindBreak, ClockOutFindTimer,
       StartBreakFindSession, StartBreakFindTimer, EndBreakFindSession,
       EndBreakFindBreak, ResumeFindPrior, StartFindSession, PauseFind, StopFind,
       SwitchFindSession, SwitchFindTimer
  <1>2. ASSUME NEW g, NEW l \in Aside, Read(r, g, l)
        PROVE  TaskIInv' /\ ReopenedByAdmin
    <2>1. l \notin Updating \cup {"start.timer", "start.commit", "switch.commit"}
      BY DEF Updating
    <2>2. l \notin {"update.running", "update.write"}
      OBVIOUS
    <2>3. QED
      BY <1>1, <1>2, <2>1, <2>2, ReadKeepsTasks
  <1>3. CASE Refuse(r)
    BY <1>1, <1>3, RefuseKeepsTasks
  <1> HIDE DEF Aside
  <1> DEFINE Fine == TaskIInv' /\ ReopenedByAdmin
  <1>4. \A g : \A l \in Aside : Read(r, g, l) => Fine
    BY <1>2
  <1> HIDE DEF Fine
  <1>5. ClockInFind(r) => Fine
    BY <1>3, <1>4 DEF ClockInFind, Aside, Fine
  <1>6. ClockOutFindBreak(r) => Fine
    BY <1>3, <1>4 DEF ClockOutFindBreak, Aside, Fine
  <1>7. ClockOutFindTimer(r) => Fine
    BY <1>3, <1>4 DEF ClockOutFindTimer, Aside, Fine
  <1>8. StartBreakFindTimer(r) => Fine
    BY <1>3, <1>4 DEF StartBreakFindTimer, Aside, Fine
  <1>9. EndBreakFindBreak(r) => Fine
    BY <1>3, <1>4 DEF EndBreakFindBreak, Aside, Fine
  <1>10. ResumeFindPrior(r) => Fine
    BY <1>3, <1>4 DEF ResumeFindPrior, Aside, Fine
  <1>11. ASSUME NEW st, NEW l \in Aside, FindSession(r, st, l) PROVE Fine
    BY <1>3, <1>4, <1>11 DEF FindSession, Fine
  <1>12. ASSUME NEW l \in Aside, FindTimer(r, l) PROVE Fine
    BY <1>3, <1>4, <1>12 DEF FindTimer, Fine
  <1>13. CASE \/ ClockOutFindSession(r) \/ StartBreakFindSession(r)
              \/ EndBreakFindSession(r) \/ StartFindSession(r) \/ SwitchFindSession(r)
    BY <1>11, <1>13 DEF Fine, ClockOutFindSession, StartBreakFindSession, EndBreakFindSession,
       StartFindSession, SwitchFindSession, Aside
  <1>14. CASE PauseFind(r) \/ StopFind(r) \/ SwitchFindTimer(r)
    BY <1>3, <1>12, <1>14 DEF PauseFind, StopFind, SwitchFindTimer, Aside, Fine
  <1>15. QED
    BY <1>5, <1>6, <1>7, <1>8, <1>9, <1>10,
       <1>13, <1>14 DEF Fine

\* The queries about the task.
LEMMA TaskQueriesKeepTasks ==
  ASSUME IInv, TaskIInv, NEW r \in Slots,
         \/ StartFindTask(r) \/ StartFindTimer(r) \/ SwitchFindTask(r)
         \/ UpdateFind(r) \/ UpdateFindRunning(r)
  PROVE  TaskIInv' /\ ReopenedByAdmin
  <1>1. pc[r] # "idle" /\ TaskKnown(r)
    BY DEF StartFindTask, StartFindTimer, SwitchFindTask, UpdateFind, UpdateFindRunning,
       TaskIInv
  <1>2. CASE Refuse(r)
    BY <1>1, <1>2, RefuseKeepsTasks
  <1>3. ASSUME NEW l \in {"start.timer", "switch.commit"}, FindTask(r, l)
        PROVE  TaskIInv' /\ ReopenedByAdmin
    <2>1. Refuse(r) \/ \E g : Read(r, g, l) /\ task[req[r].task].status \notin Finished
      BY <1>3 DEF FindTask
    <2>2. QED
      BY <1>1, <1>2, <2>1, ReadKeepsTasks DEF Updating
  <1>4. CASE StartFindTask(r) \/ SwitchFindTask(r)
    BY <1>3, <1>4 DEF StartFindTask, SwitchFindTask
  <1>5. CASE StartFindTimer(r)
    <2>1. /\ Refuse(r) \/ \E g : Read(r, g, "start.commit")
          /\ task[req[r].task].status \notin Finished
      BY <1>1, <1>5 DEF StartFindTimer, TaskKnown
    <2>2. QED
      BY <1>1, <1>2, <2>1, ReadKeepsTasks DEF Updating
  <1>6. CASE UpdateFind(r)
    <2>1. \/ Refuse(r)
          \/ /\ ~Reopening(r)
             /\ \/ Read(r, got[r], "update.running")
                \/ Read(r, got[r], "update.write") /\ req[r].status # "COMPLETED"
      BY <1>6 DEF UpdateFind, Reopening
    <2>2. pc[r] \in Updating
      BY <1>6 DEF UpdateFind, Updating
    <2>3. QED
      BY <1>1, <1>2, <2>1, <2>2, ReadKeepsTasks
  <1>7. CASE UpdateFindRunning(r)
    <2>1. \/ Refuse(r)
          \/ /\ Read(r, got[r], "update.write")
             /\ \A e \in Entries : entry[e].status = "RUNNING" =>
                   entry[e].taskId # req[r].task
      BY <1>7 DEF UpdateFindRunning
    <2>2. pc[r] \in Updating /\ ~Reopening(r)
      BY <1>1, <1>7 DEF UpdateFindRunning, Updating, TaskKnown
    <2>3. QED
      BY <1>1, <1>2, <2>1, <2>2, ReadKeepsTasks
  <1>8. QED
    BY <1>4, <1>5, <1>6, <1>7

\* The writes that start no timer and name no task.
LEMMA WritesKeepTasks ==
  ASSUME IInv, TaskIInv, NEW r \in Slots,
         \/ ClockInCreate(r) \/ ClockOutCommit(r) \/ StartBreakCommit(r)
         \/ EndBreakCommit(r) \/ CloseCommit(r)
  PROVE  TaskIInv' /\ ReopenedByAdmin
  <1>1. pc[r] # "idle"
    BY DEF ClockInCreate, ClockOutCommit, StartBreakCommit, EndBreakCommit, CloseCommit
  <1>2. ASSUME NEW ids, NEW t, entry' = ClosedEntries(ids, t)
        PROVE  \A e \in Entries : entry'[e].status = "RUNNING" =>
                  entry[e].status = "RUNNING" /\ entry'[e].taskId = entry[e].taskId
    BY <1>2 DEF ClosedEntries, IInv, TypeOK, RecordsTypeOK, EntryRow
  <1>3. \/ Refuse(r)
        \/ /\ Finish(r) /\ UNCHANGED task
           /\ \/ UNCHANGED entry
              \/ \E ids, t : entry' = ClosedEntries(ids, t)
    BY DEF ClockInCreate, ClockOutCommit, StartBreakCommit, EndBreakCommit, CloseCommit
  <1>4. QED
    BY <1>1, <1>2, <1>3, RefuseKeepsTasks, FinishKeepsTasks

\* A timer is started on a task that may be timed, and writes IN_PROGRESS over a
\* status that was not finished.
LEMMA TimerKeepsTasks ==
  ASSUME IInv, TaskIInv, NEW r \in Slots, StartCommit(r) \/ SwitchCommit(r)
  PROVE  TaskIInv' /\ ReopenedByAdmin
  <1> DEFINE k == req[r].task
  <1>1. /\ pc[r] \in {"start.commit", "switch.commit"}
        /\ TaskKnown(r) /\ SlotAgrees(req[r], pc[r], got[r])
        /\ task \in [Tasks -> TaskRow]
    BY DEF StartCommit, SwitchCommit, TaskIInv, IInv, TypeOK
  <1>2. k \in Tasks /\ task[k].status \notin Finished
    BY <1>1 DEF SlotAgrees, NeedsTask, TaskKnown
  <1>3. CASE Refuse(r)
    BY <1>1, <1>3, RefuseKeepsTasks
  <1>4. CASE ~Refuse(r)
    <2>1. /\ Finish(r) /\ task' = TaskPickedUp(r)
          /\ \E e \in Entries, t \in Stamps(r) :
                \/ entry' = [entry EXCEPT ![e] = NewEntry(User(r), k, got[r].session, t)]
                \/ entry' = [ClosedEntries({got[r].timer}, t) EXCEPT ![e] =
                                NewEntry(User(r), k, got[r].session, t)]
      BY <1>4 DEF StartCommit, SwitchCommit
    <2>2. /\ \A q \in Slots \ {r} : pc'[q] = pc[q] /\ req'[q] = req[q]
          /\ pc'[r] = "idle"
      BY <2>1 DEF Finish, IInv, TypeOK
    <2>3. /\ task'[k].status \notin Finished
          /\ \A j \in Tasks : j # k => task'[j] = task[j]
      BY <1>1, <1>2, <2>1 DEF TaskPickedUp, TaskRow, Finished
    <2>4. \A e \in Entries : entry'[e].status = "RUNNING" =>
             \/ entry[e].status = "RUNNING" /\ entry'[e].taskId = entry[e].taskId
             \/ entry'[e].taskId = k
      <3>1. PICK f \in Entries, t \in Stamps(r) :
               \/ entry' = [entry EXCEPT ![f] = NewEntry(User(r), k, got[r].session, t)]
               \/ entry' = [ClosedEntries({got[r].timer}, t) EXCEPT ![f] =
                               NewEntry(User(r), k, got[r].session, t)]
        BY <2>1
      <3>2. entry'[f].taskId = k
        <4>1. entry'[f] = NewEntry(User(r), k, got[r].session, t)
          BY <3>1 DEF ClosedEntries, IInv, TypeOK, RecordsTypeOK
        <4>2. QED
          BY <4>1 DEF NewEntry
      <3>3. ASSUME NEW e \in Entries, e # f
            PROVE  \/ entry'[e] = entry[e]
                   \/ entry'[e].status = "CLOSED"
        BY <3>1, <3>3 DEF ClosedEntries, IInv, TypeOK, RecordsTypeOK, EntryRow
      <3>4. QED
        BY <3>2, <3>3
    <2>5. OwnTaskOnly(r)
      BY <2>3, <2>4 DEF OwnTaskOnly
    <2>6. CompletedTaskNotTimed'
      BY <1>2, <2>3, <2>5, StillNotTimed DEF TaskIInv, Finished
    <2>7. TaskKnown(r)'
      BY <2>2 DEF TaskKnown
    <2>8. ReopenedByAdmin
      BY <1>2, <2>3 DEF ReopenedByAdmin
    <2>9. QED
      BY <1>1, <2>2, <2>5, <2>6, <2>7, <2>8, ActKeepsTasks DEF Updating
  <1>5. QED
    BY <1>3, <1>4

\* An update completes a task nobody times, and reopens one for an administrator.
LEMMA UpdateKeepsTasks ==
  ASSUME IInv, TaskIInv, NEW r \in Slots, UpdateWrite(r)
  PROVE  TaskIInv' /\ ReopenedByAdmin
  <1> DEFINE k == req[r].task
  <1>1. /\ pc[r] = "update.write" /\ Finish(r) /\ UNCHANGED entry
        /\ TaskKnown(r) /\ SlotAgrees(req[r], pc[r], got[r])
        /\ task \in [Tasks -> TaskRow]
    BY DEF UpdateWrite, TaskIInv, IInv, TypeOK
  <1>2. k \in Tasks /\ ~Reopening(r)
    BY <1>1 DEF SlotAgrees, NeedsTask, TaskKnown
  <1>3. /\ task'[k].status = IF req[r].status = "KEEP" THEN task[k].status
                                                       ELSE req[r].status
        /\ \A j \in Tasks : j # k => task'[j] = task[j]
    BY <1>1, <1>2 DEF UpdateWrite
  <1>4. /\ \A q \in Slots \ {r} : pc'[q] = pc[q] /\ req'[q] = req[q]
        /\ pc'[r] = "idle"
    BY <1>1 DEF Finish, IInv, TypeOK
  <1>5. OwnTaskOnly(r)
    BY <1>1, <1>3 DEF OwnTaskOnly, Updating
  <1>6. \/ task'[k].status # "COMPLETED"
        \/ task[k].status = "COMPLETED"
        \/ \A e \in Entries : entry[e].status = "RUNNING" => entry[e].taskId # k
    BY <1>1, <1>3 DEF TaskKnown
  <1>7. CompletedTaskNotTimed'
    BY <1>1, <1>2, <1>5, <1>6, StillNotTimed DEF TaskIInv
  <1>8. TaskKnown(r)'
    BY <1>4 DEF TaskKnown
  <1>9. ReopenedByAdmin
    BY <1>1, <1>2, <1>3, <1>4 DEF ReopenedByAdmin, Reopening, User
  <1>10. QED
    BY <1>1, <1>4, <1>5, <1>7, <1>8, <1>9, ActKeepsTasks DEF Updating

\* A slot takes up a request that leaves the tasks being updated alone.
LEMMA ReceiveKeepsTasks ==
  ASSUME IInv, TaskIInv, NEW r \in Slots, Receive(r), OneAtATime(r)
  PROVE  TaskIInv' /\ ReopenedByAdmin
  <1>1. /\ UNCHANGED <<task, entry>> /\ pc[r] = "idle"
        /\ pc'[r] \in AllKinds
        /\ \A q \in Slots \ {r} : pc'[q] = pc[q] /\ req'[q] = req[q]
    <2>1. PICK kind \in AllKinds, in \in Input :
             /\ pc' = [pc EXCEPT ![r] = kind]
             /\ req' = [req EXCEPT ![r] = in]
      BY Received
    <2>2. UNCHANGED <<task, entry>> /\ pc[r] = "idle"
      BY DEF Receive
    <2>3. QED
      BY <2>1, <2>2 DEF IInv, TypeOK
  <1>2. pc'[r] \in Updating => pc'[r] = "update"
    BY <1>1 DEF AllKinds, Updating
  <1>3. pc'[r] \notin {"start.timer", "start.commit", "switch.commit", "update.running",
                       "update.write"}
    BY <1>1 DEF AllKinds
  <1>4. ASSUME NEW q \in Slots PROVE TaskKnown(q)'
    <2>1. CASE q = r
      BY <1>3, <2>1 DEF TaskKnown
    <2>2. CASE q # r
      BY <1>1, <2>2 DEF TaskIInv, TaskKnown, Reopening, User
    <2>3. QED
      BY <2>1, <2>2
  <1>5. ASSUME NEW q \in Slots, pc'[q] \in Updating, NEW o \in Slots \ {q}, pc'[o] # "idle"
        PROVE  req'[o].task # req'[q].task
    <2>1. CASE q = r
      BY <1>1, <1>2, <1>5, <2>1 DEF OneAtATime
    <2>2. CASE o = r
      BY <1>1, <1>5, <2>2 DEF OneAtATime, Updating
    <2>3. CASE q # r /\ o # r
      BY <1>1, <1>5, <2>3 DEF TaskIInv, UpdatesApart
    <2>4. QED
      BY <2>1, <2>2, <2>3
  <1>6. CompletedTaskNotTimed' /\ ReopenedByAdmin
    BY <1>1 DEF TaskIInv, CompletedTaskNotTimed, ReopenedByAdmin
  <1>7. QED
    BY <1>4, <1>5, <1>6 DEF TaskIInv, UpdatesApart

LEMMA InitTasks == Init => TaskIInv
  BY DEF Init, RecordsInit, NoEntry, TaskIInv, CompletedTaskNotTimed, UpdatesApart,
     TaskKnown, Updating

LEMMA NextKeepsTasks ==
  ASSUME IInv, TaskIInv, [SerialNext]_vars
  PROVE  TaskIInv' /\ [ReopenedByAdmin]_vars
  <1>1. CASE PassTime \/ UNCHANGED vars
    <2>1. UNCHANGED <<entry, task, pc, req>>
      BY <1>1 DEF PassTime, vars
    <2>2. QED
      BY <2>1 DEF TaskIInv, CompletedTaskNotTimed, UpdatesApart, TaskKnown, Reopening, User,
         ReopenedByAdmin
  <1>2. ASSUME NEW r \in Slots, Receive(r), OneAtATime(r)
        PROVE  TaskIInv' /\ ReopenedByAdmin
    BY <1>2, ReceiveKeepsTasks
  <1>3. ASSUME NEW r \in Slots, Step(r) PROVE TaskIInv' /\ ReopenedByAdmin
    BY <1>3, QueriesKeepTasks, TaskQueriesKeepTasks, WritesKeepTasks, TimerKeepsTasks,
       UpdateKeepsTasks DEF Step
  <1>4. ASSUME NEW r \in Slots, Lost(r) PROVE TaskIInv' /\ ReopenedByAdmin
    BY <1>4, RefuseKeepsTasks DEF Lost
  <1>5. QED
    BY <1>1, <1>2, <1>3, <1>4 DEF SerialNext

\* What a handler knows of its task when it writes.
THEOREM TasksKnown == SerialSpec => []TaskIInv
  <1>1. Init => IInv /\ TaskIInv
    BY InitIInv, InitTasks
  <1>2. IInv /\ TaskIInv /\ [SerialNext]_vars => IInv' /\ TaskIInv'
    BY SerialIsNext, NextKeeps, NextKeepsTasks
  <1>3. QED
    BY <1>1, <1>2, PTL DEF SerialSpec

\* TasksService.update refuses to complete a task that somebody times, and start and
\* switchTask a completed one: so served, no completed task is ever timed.
THEOREM CompletedUntimed == SerialSpec => []CompletedTaskNotTimed
  <1>1. TaskIInv => CompletedTaskNotTimed
    BY DEF TaskIInv
  <1>2. QED
    BY <1>1, TasksKnown, PTL

\* A finished task is brought back by an administrator's update and by nothing else:
\* not by the IN_PROGRESS a timer writes over the status it has read.
THEOREM AdminReopens == SerialSpec => OnlyAdminReopens
  <1>1. Init => IInv
    BY InitIInv
  <1>2. IInv /\ [SerialNext]_vars => IInv'
    BY SerialIsNext, NextKeeps
  <1>3. IInv /\ TaskIInv /\ [SerialNext]_vars => [ReopenedByAdmin]_vars
    BY NextKeepsTasks
  <1>4. QED
    BY <1>1, <1>2, <1>3, TasksKnown, PTL DEF SerialSpec, OnlyAdminReopens
=============================================================================
