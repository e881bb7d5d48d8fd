--------------------------- MODULE Reconciliation ---------------------------
(***************************************************************************)
(* What the time records add up to: the mathematics of packages/shared,    *)
(* the daily summary and the attendance report the API computes with it,   *)
(* and the gaps the web pages draw from the summary's timeline.            *)
(*                                                                         *)
(* A tick of the clock stands for a minute; fractions and the final        *)
(* rounding are left out.  Every new Date() of one computation reads now.  *)
(***************************************************************************)
EXTENDS TimeRecords, FiniteSets, FiniteSetsExt, Functions

CONSTANT DayLength      \* ticks of a UTC calendar day

ASSUME DayLengthAssumption == DayLength \in Nat \ {0}

\* An interval with no end goes on until now.
EndOr(i, t) == IF i.end = NoStamp THEN t ELSE i.end
Positive(n) == IF n > 0 THEN n ELSE 0

AttendanceOf(s) == [start |-> session[s].clockInAt, end |-> session[s].clockOutAt]
BreaksOf(s) == {b \in Breaks : brk[b].attendanceSessionId = s}
BreakOf(b) == [start |-> brk[b].startAt, end |-> brk[b].endAt]
EntriesOf(s) == {e \in Entries : entry[e].attendanceSessionId = s}
SegmentOf(e) == [start |-> entry[e].startAt, end |-> entry[e].endAt]

overlapMinutes(a, start, end) ==
    Positive(Min({EndOr(a, end), end}) - Max({a.start, start}))

calculateBreakMinutes(s) ==
    SumFunction([b \in BreaksOf(s) |->
        overlapMinutes(AttendanceOf(s), BreakOf(b).start, EndOr(BreakOf(b), now))])

calculateNetWorkingMinutes(s) ==
    LET gross == Positive(EndOr(AttendanceOf(s), now) - AttendanceOf(s).start)
    IN  Positive(gross - calculateBreakMinutes(s))

\* Mutant: a segment counts only once it is closed.
closedSegmentsOnly(s) ==
    SumFunction([e \in {f \in EntriesOf(s) : entry[f].status = "CLOSED"} |->
        Positive(SegmentOf(e).end - SegmentOf(e).start)])

calculateTaskMinutes(s) ==
    SumFunction([e \in EntriesOf(s) |->
        Positive(EndOr(SegmentOf(e), now) - SegmentOf(e).start)])

reconcile(s) ==
    LET raw == calculateNetWorkingMinutes(s) - calculateTaskMinutes(s)
    IN  [netWorkingMinutes |-> calculateNetWorkingMinutes(s),
         taskMinutes |-> calculateTaskMinutes(s),
         breakMinutes |-> calculateBreakMinutes(s),
         unallocatedMinutes |-> Positive(raw),
         hasDataQualityException |-> raw < 0]

\* The break column of the attendance report, which does not clip to the session.
reportedBreakMinutes(s) ==
    SumFunction([b \in BreaksOf(s) |->
        Positive(EndOr(BreakOf(b), now) - BreakOf(b).start)])

----------------------------------------------------------------------------
(* The daily summary and its timeline.                                     *)

\* getUtcDayRange: a session belongs, with all its time, to the day it starts.
SessionsOf(u, day) ==
    {s \in SessionsIn(u, Open \cup {"COMPLETED"}) :
        session[s].clockInAt \in day * DayLength .. (day + 1) * DayLength - 1}

Event(type, s, i) == [type |-> type, session |-> s, start |-> i.start, end |-> i.end]

timeline(u, day) ==
    UNION {{Event("ATTENDANCE", s, AttendanceOf(s))}
              \cup {Event("BREAK", s, BreakOf(b)) : b \in BreaksOf(s)}
              \cup {Event("TASK", s, SegmentOf(e)) : e \in EntriesOf(s)}
           : s \in SessionsOf(u, day)}

\* The order of the timeline, as far as the attendance events divide it: a
\* stable sort by start of what was pushed session after session, each session
\* before its breaks and segments.
Precedes(x, y) ==
    \/ x.start < y.start
    \/ /\ x.start = y.start
       /\ \/ session[x.session].clockInAt < session[y.session].clockInAt
          \/ x.session = y.session /\ x.type = "ATTENDANCE" /\ y.type # "ATTENDANCE"

\* What the web page takes an attendance event a to cover: the events that
\* follow it up to the next attendance event.
coveredBy(events, a) ==
    {x \in events :
       /\ x.type # "ATTENDANCE"
       /\ Precedes(a, x)
       /\ ~ \E c \in events : /\ c.type = "ATTENDANCE"
                              /\ Precedes(a, c) /\ Precedes(c, x)}

\* Mutant: the time after the last break or segment is not a gap.
flushForgetsTail(events, a) ==
    LET covered == coveredBy(events, a)
        cursor(t) == Max({a.start} \cup
                         {EndOr(x, now) : x \in {y \in covered : y.start < t}})
    IN  {[start |-> cursor(x.start), end |-> x.start] :
            x \in {y \in covered : y.start > cursor(y.start)}}

\* The gaps of one session.  The cursor, when the events that start before t are
\* behind it, is where the last of them ends.
flushSession(events, a) ==
    LET covered == coveredBy(events, a)
        end == EndOr(a, now)
        behind(S) == Max({a.start} \cup {EndOr(x, now) : x \in S})
        cursor(t) == behind({y \in covered : y.start < t})
    IN  {[start |-> cursor(x.start), end |-> x.start] :
            x \in {y \in covered : y.start > cursor(y.start)}}
        \cup IF behind(covered) < end
             THEN {[start |-> behind(covered), end |-> a.end]} ELSE {}

computeTimelineGaps(events) ==
    UNION {flushSession(events, a) : a \in {x \in events : x.type = "ATTENDANCE"}}

----------------------------------------------------------------------------
\* The minutes of an interval, and those of a session by what they were spent on.
Minutes(i) == i.start .. EndOr(i, now) - 1
OnBreak(s) == UNION {Minutes(BreakOf(b)) : b \in BreaksOf(s)}
OnTask(s) == UNION {Minutes(SegmentOf(e)) : e \in EntriesOf(s)}
Working(s) == Minutes(AttendanceOf(s)) \ OnBreak(s)
Idle(s) == Working(s) \ OnTask(s)

\* What time-math.ts computes of the records the services keep: the sums of
\* intervals are the counts of minutes that were worked, on a break, on a task
\* or on neither; none is counted twice or is missing, there is never an
\* exception to flag, and the break column of the attendance report agrees.
\*
\* With no break going on, that is BR-008, BR-009 and BR-010 as the comments of
\* time-math.ts have them.  BR-008 says there that net time is elapsed time less
\* "eligible completed break time" (line 32); the code subtracts an active break
\* too, as far as it has gone (line 27), and so do OnBreak and Working.
Reconciled ==
    \A s \in Sessions : session[s].status # "ABSENT" =>
       /\ reconcile(s) = [netWorkingMinutes |-> Cardinality(Working(s)),
                          taskMinutes |-> Cardinality(OnTask(s)),
                          breakMinutes |-> Cardinality(OnBreak(s)),
                          unallocatedMinutes |-> Cardinality(Idle(s)),
                          hasDataQualityException |-> FALSE]
       /\ reportedBreakMinutes(s) = Cardinality(OnBreak(s))

\* AC-007-005-03 (above computeTimelineGaps): the gaps the web page finds in the
\* flat timeline of a day are exactly the idle minutes of that day's sessions,
\* unless two of them start at the very same time.
GapsAreIdleTime ==
    \A u \in Users, day \in 0 .. now \div DayLength :
       LET sessions == SessionsOf(u, day)
           gaps == computeTimelineGaps(timeline(u, day))
       IN  (\A s, t \in sessions : s # t => session[s].clockInAt # session[t].clockInAt)
           => UNION {Minutes(g) : g \in gaps} = UNION {Idle(s) : s \in sessions}
=============================================================================
