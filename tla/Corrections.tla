---------------------------- MODULE Corrections ----------------------------
(***************************************************************************)
(* What CorrectionsService promises: a user asks for new times on a record *)
(* of their own, an administrator approves or rejects once, or corrects a  *)
(* record directly; each of these takes effect in one step, together with  *)
(* its audit row, beside the requests of a working day.                    *)
(* CorrectionRequests is the same code one database call at a time.        *)
(***************************************************************************)
EXTENDS TimeRecords

CONSTANTS
    Requests,   \* ids of correction requests
    Admins,     \* the users who are administrators
    Proposals   \* the intervals clients propose

Targets == Sessions \cup Breaks \cup Entries
Interval == [start : Stamp, end : Stamp]
Unset == [start |-> NoStamp, end |-> NoStamp]

ASSUME TargetsApart ==
    /\ Sessions \cap Breaks = {}
    /\ (Sessions \cup Breaks) \cap Entries = {}
ASSUME CorrectionAssumption == Admins \subseteq Users /\ Proposals \subseteq Interval

VARIABLES
    request,    \* table correction_requests
    audit       \* what table audit_logs says of corrections, as a set

vars == <<now, session, brk, entry, request, audit>>

RequestRow == [status : {"ABSENT", "PENDING", "APPROVED", "REJECTED"},
               target : Targets \cup {None}, requestedById : Users \cup {None},
               proposed : Interval]
NoRequest == [status |-> "ABSENT", target |-> None, requestedById |-> None,
              proposed |-> Unset]
AuditRow == [action : {"CORRECTION_REQUESTED", "CORRECTION_REJECTED",
                       "CORRECTION_APPROVED", "ADMIN_DIRECT_CORRECTION"},
             request : Requests, target : Targets,
             before : Interval, after : Interval]

Day == INSTANCE WorkDay

----------------------------------------------------------------------------
\* The current interval of target x and its owner.
IntervalOf(x) ==
    CASE x \in Sessions -> [start |-> session[x].clockInAt, end |-> session[x].clockOutAt]
      [] x \in Breaks   -> [start |-> brk[x].startAt, end |-> brk[x].endAt]
      [] x \in Entries  -> [start |-> entry[x].startAt, end |-> entry[x].endAt]
OwnerOf(x) ==
    CASE x \in Sessions -> session[x].userId
      [] x \in Breaks   -> BreakOwner(x)
      [] x \in Entries  -> entry[x].userId
StatusOf(x) ==
    CASE x \in Sessions -> session[x].status
      [] x \in Breaks   -> brk[x].status
      [] x \in Entries  -> entry[x].status

Recorded == {x \in Targets : StatusOf(x) # "ABSENT"}

\* An undefined column of an update is left alone.
Or(new, old) == IF new = NoStamp THEN old ELSE new

\* Interval i with the stamps that p proposes.
Patched(i, p) == [start |-> Or(p.start, i.start), end |-> Or(p.end, i.end)]

\* Mutant: the check misses a segment that is still running.
OverlapsClosed(x, i) ==
    /\ x \in Entries
    /\ \E f \in Entries \ {x} :
          /\ entry[f].userId = entry[x].userId
          /\ entry[f].startAt < i.end
          /\ entry[f].endAt > i.start

\* assertNoOverlap refuses i for x: only segments are compared, and only when
\* both ends of i are known.
Overlaps(x, i) ==
    /\ x \in Entries
    /\ i.start # NoStamp /\ i.end # NoStamp
    /\ \E f \in Entries \ {x} :
          /\ entry[f].status # "ABSENT"
          /\ entry[f].userId = entry[x].userId
          /\ entry[f].startAt < i.end
          /\ entry[f].endAt = NoStamp \/ entry[f].endAt > i.start

\* Mutant: without a proposed end the record is open.
ApplyReopens(x, p) ==
    /\ session' = [s \in Sessions |-> IF s # x THEN session[s] ELSE
          [session[s] EXCEPT !.clockInAt = Or(p.start, @), !.clockOutAt = p.end,
             !.status = IF p.end = NoStamp THEN "ACTIVE" ELSE "COMPLETED"]]
    /\ UNCHANGED <<brk, entry>>

\* A proposed end also finishes the record.
ApplyCorrection(x, p) ==
    LET status(old, finished) == IF p.end = NoStamp THEN old ELSE finished
    IN  /\ session' = [s \in Sessions |-> IF s # x THEN session[s] ELSE
              [session[s] EXCEPT !.clockInAt = Or(p.start, @),
                                 !.clockOutAt = Or(p.end, @),
                                 !.status = status(@, "COMPLETED")]]
        /\ brk' = [b \in Breaks |-> IF b # x THEN brk[b] ELSE
              [brk[b] EXCEPT !.startAt = Or(p.start, @),
                             !.endAt = Or(p.end, @),
                             !.status = status(@, "COMPLETED")]]
        /\ entry' = [e \in Entries |-> IF e # x THEN entry[e] ELSE
              [entry[e] EXCEPT !.startAt = Or(p.start, @),
                               !.endAt = Or(p.end, @),
                               !.status = status(@, "CLOSED")]]

AuditRecord(action, q, x, before, after) ==
    audit' = audit \cup {[action |-> action, request |-> q, target |-> x,
                          before |-> before, after |-> after]}

----------------------------------------------------------------------------
Init ==
    /\ RecordsInit
    /\ request = [q \in Requests |-> NoRequest]
    /\ audit = {}

RequestCorrection(u, q, x, p) ==
    /\ request[q].status = "ABSENT"
    /\ x \in Recorded
    /\ OwnerOf(x) = u
    /\ request' = [request EXCEPT ![q] =
          [status |-> "PENDING", target |-> x, requestedById |-> u, proposed |-> p]]
    /\ AuditRecord("CORRECTION_REQUESTED", q, x, Unset, Unset)
    /\ UNCHANGED <<now, session, brk, entry>>

Reject(q) ==
    /\ request[q].status = "PENDING"
    /\ request' = [request EXCEPT ![q].status = "REJECTED"]
    /\ AuditRecord("CORRECTION_REJECTED", q, request[q].target, Unset, Unset)
    /\ UNCHANGED <<now, session, brk, entry>>

\* Mutant: before is read once the correction is applied.
ApproveAuditsAfter(q) ==
    LET x == request[q].target
        after == Patched(IntervalOf(x), request[q].proposed)
    IN  /\ request[q].status = "PENDING"
        /\ ~Overlaps(x, after)
        /\ ApplyCorrection(x, request[q].proposed)
        /\ request' = [request EXCEPT ![q].status = "APPROVED"]
        /\ AuditRecord("CORRECTION_APPROVED", q, x, after, after)
        /\ UNCHANGED now

Approve(q) ==
    LET x == request[q].target
        before == IntervalOf(x)
        after == Patched(before, request[q].proposed)
    IN  /\ request[q].status = "PENDING"
        /\ ~Overlaps(x, after)
        /\ ApplyCorrection(x, request[q].proposed)
        /\ request' = [request EXCEPT ![q].status = "APPROVED"]
        /\ AuditRecord("CORRECTION_APPROVED", q, x, before, after)
        /\ UNCHANGED now

\* adminDirectCorrection, by administrator a: it writes, and keeps as the
\* approved proposal, both ends of the interval.
DirectCorrection(a, q, x, p) ==
    LET before == IntervalOf(x)
        after == Patched(before, p)
    IN  /\ request[q].status = "ABSENT"
        /\ x \in Recorded
        /\ ~Overlaps(x, after)
        /\ ApplyCorrection(x, after)
        /\ request' = [request EXCEPT ![q] =
              [status |-> "APPROVED", target |-> x, requestedById |-> a,
               proposed |-> after]]
        /\ AuditRecord("ADMIN_DIRECT_CORRECTION", q, x, before, after)
        /\ UNCHANGED now

\* A request of user u's working day, stamped by the server's clock.
Work(u) == Day!ServeAt(u, now) /\ UNCHANGED <<request, audit>>

PassTime == Tick /\ UNCHANGED <<session, brk, entry, request, audit>>

Next ==
    \/ PassTime
    \/ \E u \in Users : Work(u)
    \/ \E q \in Requests :
          \/ Approve(q)
          \/ Reject(q)
          \/ \E x \in Recorded, p \in Proposals :
                \/ \E u \in Users : RequestCorrection(u, q, x, p)
                \/ \E a \in Admins : DirectCorrection(a, q, x, p)

Spec == Init /\ [][Next]_vars

----------------------------------------------------------------------------
TypeOK ==
    /\ RecordsTypeOK
    /\ request \in [Requests -> RequestRow]
    /\ audit \subseteq AuditRow

\* "Proposed times overlap another recorded task time entry"
\* (CorrectionsService.assertNoOverlap): a correction that leaves its record
\* with both ends keeps segments apart, whatever the interval it is given.
Corrected(q) ==
    /\ request[q].status # "APPROVED"
    /\ request'[q].status = "APPROVED"
    /\ \E x \in Targets : /\ request'[q].target = x
                         /\ IntervalOf(x)'.end # NoStamp
CorrectedApart ==
    [][(\E q \in Requests : Corrected(q)) /\ SegmentsApart => SegmentsApart']_vars

\* BR-012: corrections never destroy the original event.  The interval of a
\* finished record changes only in a step that puts the old one on the audit
\* trail.
Finished(x) == StatusOf(x) \in {"COMPLETED", "CLOSED"}
OriginalKept ==
    \A x \in Targets :
       Finished(x) /\ IntervalOf(x)' # IntervalOf(x) =>
          \E a \in audit' : /\ a.target = x
                            /\ a.before = IntervalOf(x)
                            /\ a.after = IntervalOf(x)'
OriginalsKept == [][OriginalKept]_vars
=============================================================================
