------------------------- MODULE CorrectionRequests -------------------------
(***************************************************************************)
(* CorrectionsService, one database call at a time: nothing here runs in a *)
(* transaction.  request reads the target and inserts; decide reads the    *)
(* request, the target and the overlapping segments, then updates the      *)
(* target, reads it again, updates the request and inserts the audit row;  *)
(* adminDirectCorrection likewise.  Between two calls other requests run,  *)
(* and any call may be the last one the process makes.                     *)
(***************************************************************************)
EXTENDS Corrections

CONSTANT Slots      \* requests to the corrections endpoints served at a time

ASSUME SlotsApart == None \notin Slots

VARIABLES
    pc,             \* the next call of each slot
    req,            \* what each slot was asked
    got,            \* the target's interval before and after, as read
    overwritten     \* history: the intervals corrections have replaced

stepVars == <<vars, pc, req, got, overwritten>>

\* request is the :id of decide, or the id the insert will generate.
NotAsked == [request |-> None, user |-> None, target |-> None,
             proposed |-> Unset, approve |-> FALSE]
NothingRead == [before |-> Unset, after |-> Unset]

StepInit ==
    /\ Init
    /\ pc = [r \in Slots |-> "idle"]
    /\ req = [r \in Slots |-> NotAsked]
    /\ got = [r \in Slots |-> NothingRead]
    /\ overwritten = {}

GoTo(r, l) == pc' = [pc EXCEPT ![r] = l]

\* The handler returned, threw or was lost.
Finish(r) ==
    /\ GoTo(r, "idle")
    /\ req' = [req EXCEPT ![r] = NotAsked]
    /\ got' = [got EXCEPT ![r] = NothingRead]

Refuse(r) == Finish(r) /\ UNCHANGED <<vars, overwritten>>

\* Ids that the inserts under way will use.
Fresh == {q \in Requests : /\ request[q].status = "ABSENT"
                           /\ \A r \in Slots : req[r].request # q}

Receive(r) ==
    /\ pc[r] = "idle"
    /\ \/ \E u \in Users, q \in Fresh, x \in Recorded, p \in Proposals :
             /\ req' = [req EXCEPT ![r] = [request |-> q, user |-> u,
                   target |-> x, proposed |-> p, approve |-> FALSE]]
             /\ GoTo(r, "request")
       \/ \E a \in Admins, q \in Fresh, x \in Recorded, p \in Proposals :
             /\ req' = [req EXCEPT ![r] = [request |-> q, user |-> a,
                   target |-> x, proposed |-> p, approve |-> TRUE]]
             /\ GoTo(r, "direct")
       \/ \E a \in Admins, q \in Requests, ok \in BOOLEAN :
             /\ request[q].status # "ABSENT"
             /\ req' = [req EXCEPT ![r] = [request |-> q, user |-> a,
                   target |-> request[q].target,
                   proposed |-> request[q].proposed, approve |-> ok]]
             /\ GoTo(r, "decide")
    /\ UNCHANGED <<vars, got, overwritten>>

\* A query after which the handler goes on at l.
Ask(r, l) == GoTo(r, l) /\ UNCHANGED <<vars, req, got, overwritten>>

ReadBefore(r, l) ==
    /\ got' = [got EXCEPT ![r].before = IntervalOf(req[r].target)]
    /\ GoTo(r, l)
    /\ UNCHANGED <<vars, req, overwritten>>

CheckOverlap(r, i, l) ==
    \/ Overlaps(req[r].target, i) /\ Refuse(r)
    \/ ~Overlaps(req[r].target, i) /\ Ask(r, l)

Apply(r, p, l) ==
    LET x == req[r].target
    IN  /\ ApplyCorrection(x, p)
        /\ overwritten' = overwritten \cup {<<x, IntervalOf(x)>>}
        /\ GoTo(r, l)
        /\ UNCHANGED <<now, request, audit, req, got>>

Create(r, status, p, l) ==
    /\ request' = [request EXCEPT ![req[r].request] =
          [status |-> status, target |-> req[r].target,
           requestedById |-> req[r].user, proposed |-> p]]
    /\ GoTo(r, l)
    /\ UNCHANGED <<now, session, brk, entry, audit, req, got, overwritten>>

SetStatus(r, status, l) ==
    /\ request' = [request EXCEPT ![req[r].request].status = status]
    /\ GoTo(r, l)
    /\ UNCHANGED <<now, session, brk, entry, audit, req, got, overwritten>>

Audit(r, action, before, after) ==
    /\ AuditRecord(action, req[r].request, req[r].target, before, after)
    /\ Finish(r)
    /\ UNCHANGED <<now, session, brk, entry, request, overwritten>>

----------------------------------------------------------------------------
RequestFind(r) ==
    /\ pc[r] = "request"
    /\ \/ OwnerOf(req[r].target) # req[r].user /\ Refuse(r)
       \/ OwnerOf(req[r].target) = req[r].user /\ Ask(r, "request.create")

RequestCreate(r) ==
    pc[r] = "request.create" /\ Create(r, "PENDING", req[r].proposed, "request.audit")

RequestAudit(r) ==
    pc[r] = "request.audit" /\ Audit(r, "CORRECTION_REQUESTED", Unset, Unset)

\* Mutant: decide does not look at the status.
DecideAgain(r) ==
    /\ pc[r] = "decide"
    /\ Ask(r, IF req[r].approve THEN "approve" ELSE "reject")

DecideFind(r) ==
    /\ pc[r] = "decide"
    /\ \/ request[req[r].request].status # "PENDING" /\ Refuse(r)
       \/ /\ request[req[r].request].status = "PENDING"
          /\ Ask(r, IF req[r].approve THEN "approve" ELSE "reject")

RejectWrite(r) == pc[r] = "reject" /\ SetStatus(r, "REJECTED", "reject.audit")

RejectAudit(r) ==
    pc[r] = "reject.audit" /\ Audit(r, "CORRECTION_REJECTED", Unset, Unset)

ApproveFind(r) == pc[r] = "approve" /\ ReadBefore(r, "approve.overlap")

\* Mutant: the ends that are not proposed are not filled in.
ApproveOverlapProposed(r) ==
    /\ pc[r] = "approve.overlap"
    /\ CheckOverlap(r, req[r].proposed, "approve.apply")

ApproveOverlap(r) ==
    /\ pc[r] = "approve.overlap"
    /\ CheckOverlap(r, Patched(got[r].before, req[r].proposed), "approve.apply")

ApproveApply(r) ==
    pc[r] = "approve.apply" /\ Apply(r, req[r].proposed, "approve.after")

ApproveReadAfter(r) ==
    /\ pc[r] = "approve.after"
    /\ got' = [got EXCEPT ![r].after = IntervalOf(req[r].target)]
    /\ GoTo(r, "approve.status")
    /\ UNCHANGED <<vars, req, overwritten>>

ApproveStatus(r) ==
    pc[r] = "approve.status" /\ SetStatus(r, "APPROVED", "approve.audit")

\* Mutant: the audit row says the new times twice.
ApproveAuditsAfterTwice(r) ==
    /\ pc[r] = "approve.audit"
    /\ Audit(r, "CORRECTION_APPROVED", got[r].after, got[r].after)

ApproveAudit(r) ==
    /\ pc[r] = "approve.audit"
    /\ Audit(r, "CORRECTION_APPROVED", got[r].before, got[r].after)

DirectFind(r) == pc[r] = "direct" /\ ReadBefore(r, "direct.overlap")

\* Both ends to be written, from the proposal or from the row as it was read.
Filled(r) == Patched(got[r].before, req[r].proposed)

DirectOverlap(r) ==
    pc[r] = "direct.overlap" /\ CheckOverlap(r, Filled(r), "direct.apply")

DirectApply(r) == pc[r] = "direct.apply" /\ Apply(r, Filled(r), "direct.create")

DirectCreate(r) ==
    pc[r] = "direct.create" /\ Create(r, "APPROVED", Filled(r), "direct.audit")

DirectAudit(r) ==
    /\ pc[r] = "direct.audit"
    /\ Audit(r, "ADMIN_DIRECT_CORRECTION", got[r].before, Filled(r))

Step(r) ==
    \/ RequestFind(r) \/ RequestCreate(r) \/ RequestAudit(r)
    \/ DecideFind(r) \/ RejectWrite(r) \/ RejectAudit(r)
    \/ ApproveFind(r) \/ ApproveOverlap(r) \/ ApproveApply(r)
    \/ ApproveReadAfter(r) \/ ApproveStatus(r) \/ ApproveAudit(r)
    \/ DirectFind(r) \/ DirectOverlap(r) \/ DirectApply(r) \/ DirectCreate(r)
    \/ DirectAudit(r)

Lost(r) == pc[r] # "idle" /\ Refuse(r)

\* Everything else that goes on: the working day and the clock.
Others ==
    /\ PassTime \/ \E u \in Users : Work(u)
    /\ UNCHANGED <<pc, req, got, overwritten>>

StepNext == Others \/ \E r \in Slots : Receive(r) \/ Step(r) \/ Lost(r)

\* The service as it is: any requests interleave, and any of them may be lost.
StepSpec == StepInit /\ [][StepNext]_stepVars

\* The slot has written something and has more to write.
Underway == {"request.audit", "reject.audit", "approve.after", "approve.status",
             "approve.audit", "direct.create", "direct.audit"}

\* Nothing is lost half way, and a user's record is read and written by one
\* request at a time: not by two corrections, nor by one and the user's own.
SerialNext ==
    \/ PassTime /\ UNCHANGED <<pc, req, got, overwritten>>
    \/ \E u \in Users :
          /\ \A r \in Slots : pc[r] # "idle" => OwnerOf(req[r].target) # u
          /\ Work(u)
          /\ UNCHANGED <<pc, req, got, overwritten>>
    \/ \E r \in Slots :
          \/ /\ Receive(r)
             /\ \A q \in Slots \ {r} : pc[q] # "idle" =>
                   OwnerOf(req[q].target) # OwnerOf(req'[r].target)
          \/ Step(r)
          \/ pc[r] \notin Underway /\ Lost(r)

SerialSpec == StepInit /\ [][SerialNext]_stepVars

----------------------------------------------------------------------------
\* Served so, corrections do what Corrections promises.  A decision counts from
\* the moment the record is corrected, and takes its audit row with it.
RequestAsDecided ==
    [q \in Requests |->
       IF \E r \in Slots : /\ req[r].request = q
                           /\ pc[r] \in {"approve.after", "approve.status"}
       THEN [request[q] EXCEPT !.status = "APPROVED"]
       ELSE IF \E r \in Slots : req[r].request = q /\ pc[r] = "direct.create"
       THEN LET r == CHOOSE r \in Slots : req[r].request = q /\ pc[r] = "direct.create"
            IN  [status |-> "APPROVED", target |-> req[r].target,
                 requestedById |-> req[r].user, proposed |-> Filled(r)]
       ELSE request[q]]
AuditOf(r) ==
    LET row(action, before, after) ==
            {[action |-> action, request |-> req[r].request,
              target |-> req[r].target, before |-> before, after |-> after]}
    IN  CASE pc[r] = "request.audit" -> row("CORRECTION_REQUESTED", Unset, Unset)
          [] pc[r] = "reject.audit" -> row("CORRECTION_REJECTED", Unset, Unset)
          [] pc[r] \in {"approve.after", "approve.status", "approve.audit"} ->
                row("CORRECTION_APPROVED", got[r].before,
                    Patched(got[r].before, req[r].proposed))
          [] pc[r] \in {"direct.create", "direct.audit"} ->
                row("ADMIN_DIRECT_CORRECTION", got[r].before, Filled(r))
          [] OTHER -> {}
Promise == INSTANCE Corrections WITH
    request <- RequestAsDecided,
    audit <- audit \cup UNION {AuditOf(r) : r \in Slots}
KeepsPromise == Promise!Spec

\* "This correction has already been decided" (CorrectionsService.decide).
DecidedOnce ==
    [][\A q \in Requests :
          request[q].status \in {"APPROVED", "REJECTED"} =>
             request'[q].status = request[q].status]_request

\* "BR-012: corrections never destroy the original event"
\* (docs/DATA_RETENTION.md): when nothing is under way, every interval that a
\* correction has replaced is on the audit trail.
OriginalsOnRecord ==
    (\A r \in Slots : pc[r] = "idle") =>
       \A o \in overwritten :
          \E a \in audit : a.target = o[1] /\ a.before = o[2]
=============================================================================
