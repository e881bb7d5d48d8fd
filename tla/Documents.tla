----------------------------- MODULE Documents -----------------------------
(***************************************************************************)
(* DocumentsService and DocumentDeletionRequestsService: files of users,   *)
(* each a row in the database and a blob in the object store, which no     *)
(* transaction spans, and the queue in which users ask for a deletion.     *)
(* One database or store call per step; between two of them other requests *)
(* run, and any call may be the last one its process makes.                *)
(***************************************************************************)
EXTENDS Integers

CONSTANTS
    Users,
    Admins,     \* the users who are administrators
    Documents,  \* ids of uploads, as randomUUID will generate them
    Requests,   \* ids of deletion requests
    Slots,      \* requests being served at the same time
    None

ASSUME DocumentAssumption ==
    /\ Admins \subseteq Users
    /\ None \notin Users \cup Documents \cup Requests

VARIABLES
    doc,        \* table documents
    blob,       \* the documents whose bytes are in the object store
    request,    \* table document_deletion_requests
    pc,         \* the next call of each slot
    req         \* what each slot was asked

tables == <<doc, blob, request>>
vars == <<doc, blob, request, pc, req>>

\* DELETED is a row whose deletedAt is set.
DocumentRow == [status : {"ABSENT", "LIVE", "DELETED"}, userId : Users \cup {None}]
RequestRow == [status : {"ABSENT", "PENDING", "APPROVED", "REJECTED"},
               documentId : Documents \cup {None}]
NoDocument == [status |-> "ABSENT", userId |-> None]
NoRequest == [status |-> "ABSENT", documentId |-> None]

\* user is the owner an upload is for, and else whoever calls.
Asked == [document : Documents \cup {None}, request : Requests \cup {None},
          user : Users \cup {None}, approve : BOOLEAN]
NotAsked == [document |-> None, request |-> None, user |-> None,
             approve |-> FALSE]

Removing == {"remove", "remove.mark", "remove.blob", "remove.resolve"}
Labels == Removing \cup
          {"idle", "upload", "upload.create", "download", "download.blob",
           "requestDeletion", "requestDeletion.pending",
           "requestDeletion.create", "decide", "decide.reject",
           "decide.approve"}

Live(d) == doc[d].status = "LIVE"
PendingFor(d) ==
    {q \in Requests : request[q].documentId = d /\ request[q].status = "PENDING"}

Init ==
    /\ doc = [d \in Documents |-> NoDocument]
    /\ blob = {}
    /\ request = [q \in Requests |-> NoRequest]
    /\ pc = [r \in Slots |-> "idle"]
    /\ req = [r \in Slots |-> NotAsked]

\* Ids nothing has used yet.
FreshDocuments ==
    {d \in Documents : /\ doc[d].status = "ABSENT" /\ d \notin blob
                       /\ \A r \in Slots : req[r].document # d}
FreshRequests ==
    {q \in Requests : /\ request[q].status = "ABSENT"
                      /\ \A r \in Slots : req[r].request # q}

\* The document a deletion request is about.
Subject(q) == request[q].documentId

\* A request has passed the role guard and assertCanAct: uploads and downloads
\* are for oneself or by an administrator, removals and decisions by one.
Receive(r) ==
    /\ pc[r] = "idle"
    /\ \E kind \in {"upload", "download", "requestDeletion", "remove", "decide"} :
          /\ pc' = [pc EXCEPT ![r] = kind]
          /\ \/ /\ kind = "upload"
                /\ \E d \in FreshDocuments, u \in Users :
                      req' = [req EXCEPT ![r].document = d, ![r].user = u]
             \/ /\ kind = "download"
                /\ \E d \in Documents, u \in Users :
                      /\ u \in Admins \/ doc[d].userId = u
                      /\ req' = [req EXCEPT ![r].document = d, ![r].user = u]
             \/ /\ kind = "requestDeletion"
                /\ \E d \in Documents, q \in FreshRequests, u \in Users :
                      req' = [req EXCEPT ![r].document = d, ![r].request = q,
                                         ![r].user = u]
             \/ /\ kind = "remove"
                /\ \E d \in Documents, a \in Admins :
                      req' = [req EXCEPT ![r].document = d, ![r].user = a]
             \/ /\ kind = "decide"
                /\ \E q \in Requests, a \in Admins, ok \in BOOLEAN :
                      /\ request[q].status # "ABSENT"
                      /\ req' = [req EXCEPT ![r] =
                            [document |-> Subject(q), request |-> q,
                             user |-> a, approve |-> ok]]
    /\ UNCHANGED tables

\* The handler returned, threw or was lost.  (The inserts of audit rows are left
\* out: to be lost at one is to be lost at the call that follows.)
Finish(r) ==
    /\ pc' = [pc EXCEPT ![r] = "idle"]
    /\ req' = [req EXCEPT ![r] = NotAsked]

Refuse(r) == Finish(r) /\ UNCHANGED tables

Lost(r) == pc[r] # "idle" /\ Refuse(r)

GoTo(r, l) == pc' = [pc EXCEPT ![r] = l] /\ UNCHANGED req

Ask(r, l) == GoTo(r, l) /\ UNCHANGED tables

----------------------------------------------------------------------------
\* The store may refuse, or not be configured.
UploadBlob(r) ==
    /\ pc[r] = "upload"
    /\ \/ Refuse(r)
       \/ /\ blob' = blob \cup {req[r].document}
          /\ GoTo(r, "upload.create")
          /\ UNCHANGED <<doc, request>>

UploadCreate(r) ==
    /\ pc[r] = "upload.create"
    /\ doc' = [doc EXCEPT ![req[r].document] =
          [status |-> "LIVE", userId |-> req[r].user]]
    /\ Finish(r)
    /\ UNCHANGED <<blob, request>>

DownloadFind(r) ==
    /\ pc[r] = "download"
    /\ \/ ~Live(req[r].document) /\ Refuse(r)
       \/ Live(req[r].document) /\ Ask(r, "download.blob")

\* The bytes, or an error if they have gone meanwhile: nothing changes.
DownloadBlob(r) == pc[r] = "download.blob" /\ Refuse(r)

RequestFind(r) ==
    LET d == req[r].document
        mine == Live(d) /\ doc[d].userId = req[r].user
    IN  /\ pc[r] = "requestDeletion"
        /\ \/ ~mine /\ Refuse(r)
           \/ mine /\ Ask(r, "requestDeletion.pending")

\* Mutant: requests that are pending already are not looked for.
RequestAgain(r) ==
    pc[r] = "requestDeletion.pending" /\ Ask(r, "requestDeletion.create")

RequestFindPending(r) ==
    /\ pc[r] = "requestDeletion.pending"
    /\ \/ PendingFor(req[r].document) # {} /\ Refuse(r)
       \/ /\ PendingFor(req[r].document) = {}
          /\ Ask(r, "requestDeletion.create")

RequestCreate(r) ==
    /\ pc[r] = "requestDeletion.create"
    /\ request' = [request EXCEPT ![req[r].request] =
          [status |-> "PENDING", documentId |-> req[r].document]]
    /\ Finish(r)
    /\ UNCHANGED <<doc, blob>>

\* remove, called by its endpoint or by an approving decide.
RemoveFind(r) ==
    /\ pc[r] = "remove"
    /\ \/ ~Live(req[r].document) /\ Refuse(r)
       \/ Live(req[r].document) /\ Ask(r, "remove.mark")

\* Mutants: the bytes go first; the bytes stay.
RemoveBlobFirst(r) ==
    /\ pc[r] = "remove.mark"
    /\ blob' = blob \ {req[r].document}
    /\ GoTo(r, "remove.blob")
    /\ UNCHANGED <<doc, request>>
RemoveRowOnly(r) ==
    /\ pc[r] = "remove.mark"
    /\ doc' = [doc EXCEPT ![req[r].document].status = "DELETED"]
    /\ GoTo(r, "remove.resolve")
    /\ UNCHANGED <<blob, request>>

RemoveMark(r) ==
    /\ pc[r] = "remove.mark"
    /\ doc' = [doc EXCEPT ![req[r].document].status = "DELETED"]
    /\ GoTo(r, "remove.blob")
    /\ UNCHANGED <<blob, request>>

RemoveBlob(r) ==
    /\ pc[r] = "remove.blob"
    /\ blob' = blob \ {req[r].document}
    /\ GoTo(r, "remove.resolve")
    /\ UNCHANGED <<doc, request>>

\* Where a removal goes on: decide still has its own update to make.
RemoveReturn(r) ==
    IF req[r].request # None THEN GoTo(r, "decide.approve") ELSE Finish(r)

\* Mutant: requests that a direct removal overtakes are left alone.
RemoveLeavesRequests(r) ==
    pc[r] = "remove.resolve" /\ RemoveReturn(r) /\ UNCHANGED tables

RemoveResolve(r) ==
    /\ pc[r] = "remove.resolve"
    /\ request' = [q \in Requests |->
          IF q \in PendingFor(req[r].document)
          THEN [request[q] EXCEPT !.status = "APPROVED"] ELSE request[q]]
    /\ RemoveReturn(r)
    /\ UNCHANGED <<doc, blob>>

\* Mutant: decide does not look at the status.
DecideAgain(r) ==
    pc[r] = "decide" /\ Ask(r, IF req[r].approve THEN "remove" ELSE "decide.reject")

DecideFind(r) ==
    /\ pc[r] = "decide"
    /\ \/ request[req[r].request].status # "PENDING" /\ Refuse(r)
       \/ /\ request[req[r].request].status = "PENDING"
          /\ Ask(r, IF req[r].approve THEN "remove" ELSE "decide.reject")

DecideReject(r) ==
    /\ pc[r] = "decide.reject"
    /\ request' = [request EXCEPT ![req[r].request].status = "REJECTED"]
    /\ Finish(r)
    /\ UNCHANGED <<doc, blob>>

DecideApprove(r) ==
    /\ pc[r] = "decide.approve"
    /\ request' = [request EXCEPT ![req[r].request].status = "APPROVED"]
    /\ Finish(r)
    /\ UNCHANGED <<doc, blob>>

Step(r) ==
    \/ UploadBlob(r) \/ UploadCreate(r)
    \/ DownloadFind(r) \/ DownloadBlob(r)
    \/ RequestFind(r) \/ RequestFindPending(r) \/ RequestCreate(r)
    \/ RemoveFind(r) \/ RemoveMark(r) \/ RemoveBlob(r) \/ RemoveResolve(r)
    \/ DecideFind(r) \/ DecideReject(r) \/ DecideApprove(r)

Next == \E r \in Slots : Receive(r) \/ Step(r) \/ Lost(r)

Spec == Init /\ [][Next]_vars

\* No removal is lost once it has marked its row, and one request about a
\* document is served at a time.  A handler that has begun goes on to its end,
\* because each call it awaits is answered.
Committed == {"remove.blob", "remove.resolve", "decide.approve"}
SerialNext ==
    \E r \in Slots :
       \/ Step(r)
       \/ pc[r] \notin Committed /\ Lost(r)
       \/ /\ Receive(r)
          /\ \A q \in Slots \ {r} : req[q].document # req'[r].document
StepsGoOn == \A r \in Slots : WF_vars(Step(r))
SerialSpec == Init /\ [][SerialNext]_vars /\ StepsGoOn

----------------------------------------------------------------------------
TypeOK ==
    /\ doc \in [Documents -> DocumentRow]
    /\ blob \subseteq Documents
    /\ request \in [Requests -> RequestRow]
    /\ pc \in [Slots -> Labels]
    /\ req \in [Slots -> Asked]

\* What is listed can be downloaded, whichever requests run and wherever they
\* are lost: a row that is not deleted has its bytes in the store.
LiveHasBlob == \A d \in Documents : Live(d) => d \in blob

\* What a slot was asked agrees with the tables: an upload under way owns its
\* id, and stores the bytes before the row; any other handler that has found a
\* row works on one that exists, and purges the bytes of none but a deleted one.
Uploading == {"upload", "upload.create"}
Requesting ==
    {"requestDeletion", "requestDeletion.pending", "requestDeletion.create"}
Asking == {"idle", "download", "requestDeletion", "remove"}
SlotAgrees(r) ==
    LET d == req[r].document
        q == req[r].request
    IN  /\ IF pc[r] = "idle" THEN req[r] = NotAsked ELSE d \in Documents
        /\ pc[r] \in Uploading =>
              /\ doc[d].status = "ABSENT"
              /\ \A o \in Slots \ {r} : pc[o] \in Uploading => req[o].document # d
        /\ pc[r] = "upload.create" => d \in blob
        /\ pc[r] \notin Uploading \cup Asking => doc[d].status # "ABSENT"
        /\ pc[r] = "remove.blob" => doc[d].status = "DELETED"
        /\ pc[r] \in {"decide", "decide.reject", "decide.approve"} => q # None
        /\ pc[r] \in Requesting => q \in Requests
        /\ /\ q # None
           /\ pc[r] \in Removing \cup {"decide", "decide.reject", "decide.approve"}
           => request[q].status # "ABSENT"

\* The inductive invariant behind LiveHasBlob.
IInv ==
    /\ TypeOK
    /\ LiveHasBlob
    /\ \A q \in Requests : request[q].status # "ABSENT" =>
          Subject(q) \in Documents /\ doc[Subject(q)].status # "ABSENT"
    /\ \A r \in Slots : SlotAgrees(r)

\* "At most one PENDING request can exist per document (enforced in
\* requestDeletion below)" (DocumentsService.list).
OnePendingEach ==
    \A p, q \in Requests :
       /\ request[p].status = "PENDING"
       /\ request[q].status = "PENDING"
       /\ Subject(p) = Subject(q)
       => p = q

\* "This request has already been decided"
\* (DocumentDeletionRequestsService.decide).
DecidedOnce ==
    [][\A q \in Requests :
          request[q].status \in {"APPROVED", "REJECTED"} =>
             request'[q].status = request[q].status]_request

\* Bytes that a deleted document has left in the store.
Lingering == {d \in blob : doc[d].status = "DELETED"}

\* "The underlying blob bytes ARE purged immediately, so sensitive file content
\* doesn't linger past an explicit admin delete" (above remove): with no request
\* under way, none linger.
PurgedAtOnce == (\A r \in Slots : pc[r] = "idle") => Lingering = {}

\* With one request per document and no removal lost, what a slot has read still
\* holds when it writes: its document is nobody else's, the id of a new request
\* is unused and nothing is pending beside it, and a request being decided is
\* about that document and as the handler left it.
SlotKnows(r) ==
    LET d == req[r].document
        q == req[r].request
    IN  /\ pc[r] # "idle" => \A o \in Slots \ {r} : req[o].document # d
        /\ pc[r] \in Requesting =>
              /\ request[q].status = "ABSENT"
              /\ \A o \in Slots \ {r} : pc[o] \in Requesting => req[o].request # q
        /\ pc[r] = "requestDeletion.create" => PendingFor(d) = {}
        /\ pc[r] \notin Requesting /\ q # None =>
              request[q].status # "ABSENT" /\ Subject(q) = d
        /\ pc[r] \in Removing \cup {"decide.reject"} /\ q # None =>
              request[q].status = "PENDING"
        /\ pc[r] = "decide.approve" => request[q].status = "APPROVED"

\* Bytes linger only where a removal is about to purge them.
LingeringServed ==
    \A d \in Lingering : \E r \in Slots : pc[r] = "remove.blob" /\ req[r].document = d

\* The inductive invariant behind OnePendingEach, DecidedOnce and PurgedAtOnce.
SerialIInv ==
    /\ IInv
    /\ OnePendingEach
    /\ LingeringServed
    /\ \A r \in Slots : SlotKnows(r)

\* A pending request about a document that no longer exists is resolved: "so it
\* never sits PENDING forever" (DocumentsService.remove).
Orphaned(q) ==
    /\ request[q].status = "PENDING"
    /\ doc[Subject(q)].status = "DELETED"
PendingResolved == \A q \in Requests : Orphaned(q) ~> ~Orphaned(q)
=============================================================================
