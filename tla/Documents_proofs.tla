-------------------------- MODULE Documents_proofs --------------------------
(***************************************************************************)
(* Whichever handlers of documents and deletion requests run, in whatever  *)
(* order and wherever they are lost, a row that is not deleted has its     *)
(* bytes in the store.  A slot that moves without writing keeps the        *)
(* invariant if it agrees with the tables where it arrives (MoveKeeps);    *)
(* each write is treated on its own.  The second half adds the restriction *)
(* that one request about a document is served at a time and no removal is *)
(* lost: there one deletion request about a document is pending at most,   *)
(* a decision stands, and no bytes outlive their document.  What another   *)
(* slot has read is kept by a step Elsewhere.                              *)
(***************************************************************************)
EXTENDS Documents, TLAPS

\* Nothing stored, nobody served.
LEMMA InitIInv == Init => IInv
  BY DocumentAssumption DEF Init, IInv, TypeOK, LiveHasBlob, Live, DocumentRow,
     RequestRow, Labels, Removing, Asked, NoDocument, NoRequest, NotAsked,
     SlotAgrees, Uploading, Requesting, Asking

\* A slot that has finished forgets what it was asked.
LEMMA FinishFacts ==
  ASSUME TypeOK, NEW r \in Slots, Finish(r)
  PROVE  /\ pc' \in [Slots -> Labels] /\ req' \in [Slots -> Asked]
         /\ pc'[r] = "idle" /\ req'[r] = NotAsked
         /\ \A q \in Slots \ {r} : pc'[q] = pc[q] /\ req'[q] = req[q]
  BY DEF TypeOK, Finish, Labels, Asked, NotAsked

\* A slot that moves on keeps what it was asked.
LEMMA GoToFacts ==
  ASSUME TypeOK, NEW r \in Slots, NEW l \in Labels, GoTo(r, l)
  PROVE  /\ pc' \in [Slots -> Labels] /\ req' \in [Slots -> Asked]
         /\ pc'[r] = l /\ req'[r] = req[r]
         /\ \A q \in Slots \ {r} : pc'[q] = pc[q] /\ req'[q] = req[q]
  BY DEF TypeOK, GoTo

\* A step that writes nothing.
LEMMA MoveKeeps ==
  ASSUME IInv, NEW r \in Slots, UNCHANGED tables,
         pc' \in [Slots -> Labels], req' \in [Slots -> Asked],
         \A q \in Slots \ {r} : pc'[q] = pc[q] /\ req'[q] = req[q],
         pc'[r] \in Uploading =>
            \A q \in Slots \ {r} : pc[q] \in Uploading =>
               req[q].document # req'[r].document,
         SlotAgrees(r)'
  PROVE  IInv'
  <1>1. TypeOK' /\ LiveHasBlob'
    BY DEF IInv, TypeOK, LiveHasBlob, Live, tables
  <1>2. (\A q \in Requests : request[q].status # "ABSENT" =>
            Subject(q) \in Documents /\ doc[Subject(q)].status # "ABSENT")'
    BY DEF IInv, Subject, tables
  <1>3. ASSUME NEW q \in Slots PROVE SlotAgrees(q)'
    BY DEF IInv, SlotAgrees, tables
  <1>4. QED
    BY <1>1, <1>2, <1>3 DEF IInv

\* An error answer, a download, a lost request.
LEMMA RefuseKeeps ==
  ASSUME IInv, NEW r \in Slots, Refuse(r)
  PROVE  IInv'
  <1>1. TypeOK
    BY DEF IInv
  <1>2. SlotAgrees(r)'
    BY <1>1, FinishFacts, DocumentAssumption
    DEF Refuse, SlotAgrees, NotAsked, Uploading, Requesting, Asking, Removing
  <1>3. QED
    BY <1>1, <1>2, FinishFacts, MoveKeeps DEF Refuse, Uploading

\* A query that lets the handler go on.
LEMMA AskKeeps ==
  ASSUME IInv, NEW r \in Slots, NEW l \in Labels, Ask(r, l),
         l \notin Uploading,
         SlotAgrees(r)'
  PROVE  IInv'
  BY GoToFacts, MoveKeeps DEF Ask, IInv

\* A request arrives; an upload with an id of its own.
LEMMA ReceiveKeeps ==
  ASSUME IInv, NEW r \in Slots, Receive(r)
  PROVE  IInv'
  <1>1. /\ UNCHANGED tables /\ TypeOK /\ req[r] \in Asked
        /\ pc[r] = "idle"
    BY DEF Receive, IInv, TypeOK
  <1>2. PICK kind \in {"upload", "download", "requestDeletion", "remove", "decide"} :
           /\ pc' = [pc EXCEPT ![r] = kind]
           /\ \/ /\ kind = "upload"
                 /\ \E d \in FreshDocuments, u \in Users :
                       req' = [req EXCEPT ![r].document = d, ![r].user = u]
              \/ /\ kind = "download"
                 /\ \E d \in Documents, u \in Users :
                       req' = [req EXCEPT ![r].document = d, ![r].user = u]
              \/ /\ kind = "requestDeletion"
                 /\ \E d \in Documents, q \in FreshRequests, u \in Users :
                       req' = [req EXCEPT ![r].document = d, ![r].request = q,
                                          ![r].user = u]
              \/ /\ kind = "remove"
                 /\ \E d \in Documents, a \in Admins :
                       req' = [req EXCEPT ![r].document = d, ![r].user = a]
              \/ /\ kind = "decide"
                 /\ \E q \in Requests, a \in Admins, ok \in BOOLEAN :
                       /\ request[q].status # "ABSENT"
                       /\ req' = [req EXCEPT ![r] =
                             [document |-> Subject(q), request |-> q,
                              user |-> a, approve |-> ok]]
    BY DEF Receive
  <1> DEFINE Moved(in) ==
         /\ in \in Asked
         /\ req' = [req EXCEPT ![r] = in]
         /\ in.document \in Documents
         /\ kind = "upload" => in.document \in FreshDocuments
         /\ kind = "remove" => in.request = req[r].request
         /\ kind = "requestDeletion" => in.request \in Requests
         /\ kind = "decide" => /\ in.request \in Requests
                               /\ request[in.request].status # "ABSENT"
                               /\ doc[in.document].status # "ABSENT"
  <1>3. \E in \in Asked : Moved(in)
    <2>1. CASE kind = "upload"
      <3> PICK d \in FreshDocuments, u \in Users :
             req' = [req EXCEPT ![r].document = d, ![r].user = u]
        BY <1>2, <2>1
      <3> DEFINE in == [req[r] EXCEPT !.document = d, !.user = u]
      <3>1. in \in Asked /\ in.document = d /\ d \in Documents
        BY <1>1 DEF Asked, FreshDocuments
      <3>2. req' = [req EXCEPT ![r] = in]
        BY <1>1 DEF TypeOK
      <3> HIDE DEF in
      <3>3. QED
        BY <2>1, <3>1, <3>2
    <2>2. CASE kind = "download"
      <3> PICK d \in Documents, u \in Users :
             req' = [req EXCEPT ![r].document = d, ![r].user = u]
        BY <1>2, <2>2
      <3> DEFINE in == [req[r] EXCEPT !.document = d, !.user = u]
      <3>1. in \in Asked /\ in.document = d
        BY <1>1 DEF Asked
      <3>2. req' = [req EXCEPT ![r] = in]
        BY <1>1 DEF TypeOK
      <3> HIDE DEF in
      <3>3. QED
        BY <2>2, <3>1, <3>2
    <2>3. CASE kind = "requestDeletion"
      <3> PICK d \in Documents, q \in FreshRequests, u \in Users :
             req' = [req EXCEPT ![r].document = d, ![r].request = q,
                                ![r].user = u]
        BY <1>2, <2>3
      <3> DEFINE in == [req[r] EXCEPT !.document = d, !.request = q, !.user = u]
      <3>1. in \in Asked /\ in.document = d /\ in.request \in Requests
        BY <1>1 DEF Asked, FreshRequests
      <3>2. req' = [req EXCEPT ![r] = in]
        BY <1>1 DEF TypeOK
      <3> HIDE DEF in
      <3>3. QED
        BY <2>3, <3>1, <3>2
    <2>4. CASE kind = "remove"
      <3> PICK d \in Documents, a \in Admins :
             req' = [req EXCEPT ![r].document = d, ![r].user = a]
        BY <1>2, <2>4
      <3> DEFINE in == [req[r] EXCEPT !.document = d, !.user = a]
      <3>1. in \in Asked /\ in.document = d /\ in.request = req[r].request
        BY <1>1, DocumentAssumption DEF Asked
      <3>2. req' = [req EXCEPT ![r] = in]
        BY <1>1 DEF TypeOK
      <3> HIDE DEF in
      <3>3. QED
        BY <2>4, <3>1, <3>2
    <2>5. CASE kind = "decide"
      <3> PICK q \in Requests, a \in Admins, ok \in BOOLEAN :
             /\ request[q].status # "ABSENT"
             /\ req' = [req EXCEPT ![r] =
                   [document |-> Subject(q), request |-> q,
                    user |-> a, approve |-> ok]]
        BY <1>2, <2>5
      <3>1. Subject(q) \in Documents /\ doc[Subject(q)].status # "ABSENT"
        BY DEF IInv
      <3> DEFINE in == [document |-> Subject(q), request |-> q, user |-> a,
                        approve |-> ok]
      <3>2. in \in Asked /\ in.document = Subject(q) /\ in.request = q
        BY <3>1, DocumentAssumption DEF Asked
      <3>3. req' = [req EXCEPT ![r] = in]
        OBVIOUS
      <3> HIDE DEF in
      <3>4. QED
        BY <2>5, <3>1, <3>2, <3>3
    <2>6. QED
      BY <2>1, <2>2, <2>3, <2>4, <2>5
  <1> PICK in \in Asked : Moved(in)
    BY <1>3
  <1>4. /\ pc' \in [Slots -> Labels] /\ req' \in [Slots -> Asked]
        /\ \A q \in Slots \ {r} : pc'[q] = pc[q] /\ req'[q] = req[q]
        /\ pc'[r] = kind /\ req'[r] = in
    <2>1. req' = [req EXCEPT ![r] = in]
      OBVIOUS
    <2>2. req' \in [Slots -> Asked] /\ req'[r] = in
          /\ \A q \in Slots \ {r} : req'[q] = req[q]
      <3> HIDE DEF Moved
      <3>1. QED
        BY <1>1, <2>1 DEF TypeOK
    <2>3. pc' \in [Slots -> Labels] /\ pc'[r] = kind
          /\ \A q \in Slots \ {r} : pc'[q] = pc[q]
      BY <1>1, <1>2 DEF TypeOK, Labels, Removing
    <2>4. QED
      BY <2>2, <2>3
  <1>5. kind = "upload" =>
           /\ doc[in.document].status = "ABSENT"
           /\ \A q \in Slots \ {r} : req[q].document # in.document
    BY DEF FreshDocuments
  <1>6. kind = "remove" => in.request = None \/ request[in.request].status # "ABSENT"
    BY <1>1 DEF IInv, SlotAgrees, NotAsked
  <1>7. SlotAgrees(r)'
    BY <1>1, <1>4, <1>5, <1>6, DocumentAssumption
    DEF SlotAgrees, Uploading, Requesting, Asking, Removing, tables
  <1>8. QED
    BY <1>1, <1>4, <1>5, <1>7, MoveKeeps DEF Uploading

\* What a write of slot r must leave alone for the sake of the other slots: no
\* row but its own comes to life or goes back, the bytes of an upload under way
\* stay, and no deletion request disappears.
Harmless(r) ==
    /\ \A q \in Slots \ {r} : pc'[q] = pc[q] /\ req'[q] = req[q]
    /\ pc'[r] \in Uploading =>
          pc[r] \in Uploading /\ req'[r].document = req[r].document
    /\ \A d \in Documents :
          \/ doc'[d].status = doc[d].status
          \/ pc[r] \in Uploading /\ d = req[r].document /\ doc'[d].status = "LIVE"
          \/ doc[d].status # "ABSENT" /\ doc'[d].status = "DELETED"
    /\ \A d \in blob : doc[d].status = "ABSENT" => d \in blob'
    /\ \A p \in Requests :
          request[p].status # "ABSENT" => request'[p].status # "ABSENT"

LEMMA OthersAgree ==
  ASSUME IInv, NEW r \in Slots, Harmless(r), NEW q \in Slots \ {r}
  PROVE  SlotAgrees(q)'
  <1> DEFINE d == req[q].document
             p == req[q].request
  <1>1. pc'[q] = pc[q] /\ req'[q] = req[q] /\ SlotAgrees(q) /\ SlotAgrees(r)
    BY DEF IInv, Harmless
  <1>2. p \in Requests \cup {None} /\ (pc[q] # "idle" => d \in Documents)
    BY <1>1 DEF SlotAgrees, IInv, TypeOK, Asked
  <1>3. pc[q] \in Uploading =>
           /\ doc'[d].status = "ABSENT"
           /\ \A o \in Slots \ {q} : pc'[o] \in Uploading => req'[o].document # d
           /\ d \in blob => d \in blob'
    BY <1>1, <1>2 DEF SlotAgrees, Harmless, Uploading
  <1>4. pc[q] \notin Uploading \cup Asking => doc'[d].status # "ABSENT"
    BY <1>1, <1>2 DEF SlotAgrees, Harmless, Asking
  <1>5. pc[q] = "remove.blob" => doc'[d].status = "DELETED"
    BY <1>1, <1>2 DEF SlotAgrees, Harmless, Uploading
  <1>6. p # None /\ request[p].status # "ABSENT" => request'[p].status # "ABSENT"
    BY <1>2 DEF Harmless
  <1>7. QED
    BY <1>1, <1>2, <1>3, <1>4, <1>5, <1>6 DEF SlotAgrees, Uploading

\* The bytes are stored before the row.
LEMMA UploadBlobKeeps ==
  ASSUME IInv, NEW r \in Slots, UploadBlob(r)
  PROVE  IInv'
  <1> SUFFICES ASSUME blob' = blob \cup {req[r].document},
                      GoTo(r, "upload.create"), UNCHANGED <<doc, request>>
               PROVE  IInv'
    BY RefuseKeeps DEF UploadBlob
  <1> DEFINE d == req[r].document
  <1>1. /\ TypeOK /\ LiveHasBlob /\ SlotAgrees(r)
        /\ d \in Documents
    BY DEF IInv, SlotAgrees, UploadBlob
  <1>2. /\ pc' \in [Slots -> Labels] /\ req' \in [Slots -> Asked]
        /\ pc'[r] = "upload.create" /\ req'[r] = req[r]
        /\ \A q \in Slots \ {r} : pc'[q] = pc[q] /\ req'[q] = req[q]
    BY <1>1, GoToFacts DEF Labels
  <1>3. TypeOK'
    BY <1>1, <1>2 DEF TypeOK
  <1>4. LiveHasBlob'
    BY <1>1, <1>2 DEF LiveHasBlob, Live
  <1>5. (\A q \in Requests : request[q].status # "ABSENT" =>
            Subject(q) \in Documents /\ doc[Subject(q)].status # "ABSENT")'
    BY <1>1, <1>2 DEF IInv, Subject
  <1>6. SlotAgrees(r)'
    BY <1>1, <1>2, DocumentAssumption
    DEF UploadBlob, SlotAgrees, Uploading, Requesting, Asking, Removing
  <1>7. Harmless(r)
    BY <1>1, <1>2 DEF UploadBlob, Harmless, Uploading
  <1>8. QED
    BY <1>3, <1>4, <1>5, <1>6, <1>7, OthersAgree DEF IInv

\* The row of an upload whose bytes are there.
LEMMA UploadCreateKeeps ==
  ASSUME IInv, NEW r \in Slots, UploadCreate(r)
  PROVE  IInv'
  <1> DEFINE d == req[r].document
  <1>1. /\ TypeOK /\ LiveHasBlob /\ SlotAgrees(r)
        /\ d \in Documents
    BY DEF IInv, SlotAgrees, UploadCreate
  <1>2. /\ pc' \in [Slots -> Labels] /\ req' \in [Slots -> Asked]
        /\ pc'[r] = "idle" /\ req'[r] = NotAsked
        /\ \A q \in Slots \ {r} : pc'[q] = pc[q] /\ req'[q] = req[q]
    BY <1>1, FinishFacts DEF UploadCreate
  <1>3. TypeOK'
    BY <1>1, <1>2 DEF UploadCreate, TypeOK, DocumentRow, Asked
  <1>4. LiveHasBlob'
    BY <1>1, <1>2 DEF UploadCreate, LiveHasBlob, Live, SlotAgrees, TypeOK
  <1>5. (\A q \in Requests : request[q].status # "ABSENT" =>
            Subject(q) \in Documents /\ doc[Subject(q)].status # "ABSENT")'
    BY <1>1, <1>2 DEF UploadCreate, IInv, Subject, TypeOK
  <1>6. SlotAgrees(r)'
    BY <1>1, <1>2, DocumentAssumption
    DEF UploadCreate, NotAsked, SlotAgrees, Uploading, Requesting, Asking,
        Removing
  <1>7. Harmless(r)
    BY <1>1, <1>2 DEF UploadCreate, Harmless, Uploading, TypeOK
  <1>8. QED
    BY <1>3, <1>4, <1>5, <1>6, <1>7, OthersAgree DEF IInv

\* A deletion request about a row the handler has found.
LEMMA RequestCreateKeeps ==
  ASSUME IInv, NEW r \in Slots, RequestCreate(r)
  PROVE  IInv'
  <1> DEFINE d == req[r].document
  <1>1. /\ TypeOK /\ LiveHasBlob /\ SlotAgrees(r)
        /\ d \in Documents
    BY DEF IInv, SlotAgrees, RequestCreate
  <1>2. /\ pc' \in [Slots -> Labels] /\ req' \in [Slots -> Asked]
        /\ pc'[r] = "idle" /\ req'[r] = NotAsked
        /\ \A q \in Slots \ {r} : pc'[q] = pc[q] /\ req'[q] = req[q]
    BY <1>1, FinishFacts DEF RequestCreate
  <1>3. TypeOK'
    BY <1>1, <1>2 DEF RequestCreate, TypeOK, RequestRow, Asked
  <1>4. LiveHasBlob'
    BY <1>1, <1>2 DEF RequestCreate, LiveHasBlob, Live
  <1>5. (\A q \in Requests : request[q].status # "ABSENT" =>
            Subject(q) \in Documents /\ doc[Subject(q)].status # "ABSENT")'
    BY <1>1, <1>2
    DEF RequestCreate, IInv, Subject, TypeOK, SlotAgrees, Uploading,
        Requesting, Asking
  <1>6. SlotAgrees(r)'
    BY <1>1, <1>2, DocumentAssumption
    DEF RequestCreate, NotAsked, SlotAgrees, Uploading, Requesting, Asking,
        Removing
  <1>7. Harmless(r)
    BY <1>1, <1>2 DEF RequestCreate, Harmless, Uploading, TypeOK
  <1>8. QED
    BY <1>3, <1>4, <1>5, <1>6, <1>7, OthersAgree DEF IInv

\* A row that exists is marked deleted: nothing asks for its bytes any more.
LEMMA RemoveMarkKeeps ==
  ASSUME IInv, NEW r \in Slots, RemoveMark(r)
  PROVE  IInv'
  <1> DEFINE d == req[r].document
  <1>1. /\ TypeOK /\ LiveHasBlob /\ SlotAgrees(r)
        /\ d \in Documents
    BY DEF IInv, SlotAgrees, RemoveMark
  <1>2. /\ pc' \in [Slots -> Labels] /\ req' \in [Slots -> Asked]
        /\ pc'[r] = "remove.blob" /\ req'[r] = req[r]
        /\ \A q \in Slots \ {r} : pc'[q] = pc[q] /\ req'[q] = req[q]
    BY <1>1, GoToFacts DEF RemoveMark, Labels, Removing
  <1>3. TypeOK'
    BY <1>1, <1>2 DEF RemoveMark, TypeOK, DocumentRow
  <1>4. LiveHasBlob'
    BY <1>1, <1>2 DEF RemoveMark, LiveHasBlob, Live, TypeOK, DocumentRow
  <1>5. (\A q \in Requests : request[q].status # "ABSENT" =>
            Subject(q) \in Documents /\ doc[Subject(q)].status # "ABSENT")'
    BY <1>1, <1>2 DEF RemoveMark, IInv, Subject, TypeOK, DocumentRow
  <1>6. SlotAgrees(r)'
    BY <1>1, <1>2, DocumentAssumption
    DEF RemoveMark, TypeOK, DocumentRow, SlotAgrees, Uploading, Requesting,
        Asking, Removing
  <1>7. Harmless(r)
    BY <1>1, <1>2
    DEF RemoveMark, Harmless, Uploading, TypeOK, DocumentRow, SlotAgrees,
        Asking
  <1>8. QED
    BY <1>3, <1>4, <1>5, <1>6, <1>7, OthersAgree DEF IInv

\* Only then are the bytes removed.
LEMMA RemoveBlobKeeps ==
  ASSUME IInv, NEW r \in Slots, RemoveBlob(r)
  PROVE  IInv'
  <1> DEFINE d == req[r].document
  <1>1. /\ TypeOK /\ LiveHasBlob /\ SlotAgrees(r)
        /\ d \in Documents
    BY DEF IInv, SlotAgrees, RemoveBlob
  <1>2. /\ pc' \in [Slots -> Labels] /\ req' \in [Slots -> Asked]
        /\ pc'[r] = "remove.resolve" /\ req'[r] = req[r]
        /\ \A q \in Slots \ {r} : pc'[q] = pc[q] /\ req'[q] = req[q]
    BY <1>1, GoToFacts DEF RemoveBlob, Labels, Removing
  <1>3. TypeOK'
    BY <1>1, <1>2 DEF RemoveBlob, TypeOK
  <1>4. LiveHasBlob'
    BY <1>1, <1>2 DEF RemoveBlob, LiveHasBlob, Live, SlotAgrees
  <1>5. (\A q \in Requests : request[q].status # "ABSENT" =>
            Subject(q) \in Documents /\ doc[Subject(q)].status # "ABSENT")'
    BY <1>1, <1>2 DEF RemoveBlob, IInv, Subject
  <1>6. SlotAgrees(r)'
    BY <1>1, <1>2, DocumentAssumption
    DEF RemoveBlob, SlotAgrees, Uploading, Requesting, Asking, Removing
  <1>7. Harmless(r)
    BY <1>1, <1>2 DEF RemoveBlob, Harmless, Uploading, SlotAgrees
  <1>8. QED
    BY <1>3, <1>4, <1>5, <1>6, <1>7, OthersAgree DEF IInv

\* The two updates of decide write the status of one request.
LEMMA DecideRejectKeeps ==
  ASSUME IInv, NEW r \in Slots, DecideReject(r)
  PROVE  IInv'
  <1> DEFINE d == req[r].document
  <1>1. /\ TypeOK /\ LiveHasBlob /\ SlotAgrees(r)
        /\ d \in Documents
    BY DEF IInv, SlotAgrees, DecideReject
  <1>2. /\ pc' \in [Slots -> Labels] /\ req' \in [Slots -> Asked]
        /\ pc'[r] = "idle" /\ req'[r] = NotAsked
        /\ \A q \in Slots \ {r} : pc'[q] = pc[q] /\ req'[q] = req[q]
    BY <1>1, FinishFacts DEF DecideReject
  <1>3. TypeOK'
    BY <1>1, <1>2 DEF DecideReject, TypeOK, RequestRow
  <1>4. LiveHasBlob'
    BY <1>1, <1>2 DEF DecideReject, LiveHasBlob, Live
  <1>5. (\A q \in Requests : request[q].status # "ABSENT" =>
            Subject(q) \in Documents /\ doc[Subject(q)].status # "ABSENT")'
    BY <1>1, <1>2
    DEF DecideReject, IInv, Subject, TypeOK, RequestRow, SlotAgrees
  <1>6. SlotAgrees(r)'
    BY <1>1, <1>2, DocumentAssumption
    DEF DecideReject, NotAsked, SlotAgrees, Uploading, Requesting, Asking,
        Removing
  <1>7. Harmless(r)
    BY <1>1, <1>2 DEF DecideReject, Harmless, Uploading, TypeOK, RequestRow
  <1>8. QED
    BY <1>3, <1>4, <1>5, <1>6, <1>7, OthersAgree DEF IInv

\* And nothing else.
LEMMA DecideApproveKeeps ==
  ASSUME IInv, NEW r \in Slots, DecideApprove(r)
  PROVE  IInv'
  <1> DEFINE d == req[r].document
  <1>1. /\ TypeOK /\ LiveHasBlob /\ SlotAgrees(r)
        /\ d \in Documents
    BY DEF IInv, SlotAgrees, DecideApprove
  <1>2. /\ pc' \in [Slots -> Labels] /\ req' \in [Slots -> Asked]
        /\ pc'[r] = "idle" /\ req'[r] = NotAsked
        /\ \A q \in Slots \ {r} : pc'[q] = pc[q] /\ req'[q] = req[q]
    BY <1>1, FinishFacts DEF DecideApprove
  <1>3. TypeOK'
    BY <1>1, <1>2 DEF DecideApprove, TypeOK, RequestRow
  <1>4. LiveHasBlob'
    BY <1>1, <1>2 DEF DecideApprove, LiveHasBlob, Live
  <1>5. (\A q \in Requests : request[q].status # "ABSENT" =>
            Subject(q) \in Documents /\ doc[Subject(q)].status # "ABSENT")'
    BY <1>1, <1>2
    DEF DecideApprove, IInv, Subject, TypeOK, RequestRow, SlotAgrees
  <1>6. SlotAgrees(r)'
    BY <1>1, <1>2, DocumentAssumption
    DEF DecideApprove, NotAsked, SlotAgrees, Uploading, Requesting, Asking,
        Removing
  <1>7. Harmless(r)
    BY <1>1, <1>2 DEF DecideApprove, Harmless, Uploading, TypeOK, RequestRow
  <1>8. QED
    BY <1>3, <1>4, <1>5, <1>6, <1>7, OthersAgree DEF IInv

\* Requests that were pending are approved; the handler ends, or goes on in decide.
LEMMA RemoveResolveKeeps ==
  ASSUME IInv, NEW r \in Slots, RemoveResolve(r)
  PROVE  IInv'
  <1> DEFINE d == req[r].document
  <1>1. /\ TypeOK /\ LiveHasBlob /\ SlotAgrees(r) /\ pc[r] = "remove.resolve"
        /\ UNCHANGED <<doc, blob>>
        /\ d \in Documents /\ doc[d].status # "ABSENT"
    BY DEF IInv, RemoveResolve, SlotAgrees, Uploading, Requesting, Asking
  <1>2. /\ pc' \in [Slots -> Labels] /\ req' \in [Slots -> Asked]
        /\ \A q \in Slots \ {r} : pc'[q] = pc[q] /\ req'[q] = req[q]
        /\ \/ pc'[r] = "idle" /\ req'[r] = NotAsked
           \/ pc'[r] = "decide.approve" /\ req'[r] = req[r] /\ req[r].request # None
    BY <1>1, FinishFacts, GoToFacts DEF RemoveResolve, RemoveReturn, Labels
  <1>3. \A q \in Requests :
           /\ request'[q] \in RequestRow
           /\ request'[q].documentId = request[q].documentId
           /\ request'[q].status # "ABSENT" <=> request[q].status # "ABSENT"
    BY <1>1 DEF RemoveResolve, PendingFor, TypeOK, RequestRow
  <1>4. TypeOK'
    <2>1. request' \in [Requests -> RequestRow]
      BY <1>3 DEF RemoveResolve
    <2>2. QED
      BY <1>1, <1>2, <2>1 DEF TypeOK
  <1>5. LiveHasBlob'
    BY <1>1 DEF LiveHasBlob, Live
  <1>6. (\A q \in Requests : request[q].status # "ABSENT" =>
            Subject(q) \in Documents /\ doc[Subject(q)].status # "ABSENT")'
    BY <1>1, <1>3 DEF IInv, Subject
  <1>7. SlotAgrees(r)'
    <2>1. req[r].request \in Requests \cup {None}
      BY <1>1 DEF TypeOK, Asked
    <2>2. QED
      BY <1>1, <1>2, <1>3, <2>1
      DEF NotAsked, SlotAgrees, Uploading, Requesting, Asking, Removing
  <1>8. Harmless(r)
    BY <1>1, <1>2, <1>3 DEF Harmless, Uploading
  <1>9. QED
    BY <1>4, <1>5, <1>6, <1>7, <1>8, OthersAgree DEF IInv

\* The queries: each goes on only to a label it may be at.
LEMMA QueryKeeps ==
  ASSUME IInv, NEW r \in Slots,
         \/ DownloadFind(r) \/ DownloadBlob(r) \/ RequestFind(r)
         \/ RequestFindPending(r) \/ RemoveFind(r) \/ DecideFind(r)
  PROVE  IInv'
  <1> DEFINE d == req[r].document
  <1>1. /\ TypeOK /\ SlotAgrees(r)
        /\ req[r].request \in Requests \cup {None}
    BY DEF IInv, TypeOK, Asked
  <1>2. ASSUME NEW l \in Labels \ Uploading, Ask(r, l),
               SlotAgrees(r) => SlotAgrees(r)'
        PROVE  IInv'
    BY <1>1, <1>2, AskKeeps
  <1>3. ASSUME NEW l \in Labels \ Uploading, Ask(r, l)
        PROVE  /\ pc'[r] = l /\ req'[r] = req[r] /\ UNCHANGED tables
               /\ \A q \in Slots \ {r} : pc'[q] = pc[q] /\ req'[q] = req[q]
    BY <1>1, <1>3, GoToFacts DEF Ask
  <1>4. CASE DownloadFind(r)
    <2>1. \/ Refuse(r)
          \/ Ask(r, "download.blob") /\ doc[d].status # "ABSENT"
      BY <1>4 DEF DownloadFind, Live, Subject
    <2>2. ASSUME Ask(r, "download.blob"), doc[d].status # "ABSENT"
          PROVE  IInv'
      <3>1. "download.blob" \in Labels \ Uploading
        BY DEF Labels, Removing, Uploading
      <3>2. SlotAgrees(r)'
        BY <1>1, <1>3, <1>4, <2>2, <3>1
        DEF DownloadFind, SlotAgrees, Uploading, Requesting, Asking, Removing,
            tables
      <3>3. QED
        BY <1>2, <2>2, <3>1, <3>2
    <2>3. QED
      BY <2>1, <2>2, RefuseKeeps
  <1>5. CASE DownloadBlob(r)
    BY <1>5, RefuseKeeps DEF DownloadBlob
  <1>6. CASE RequestFind(r)
    <2>1. \/ Refuse(r)
          \/ Ask(r, "requestDeletion.pending") /\ doc[d].status # "ABSENT"
      BY <1>6 DEF RequestFind, Live, Subject
    <2>2. ASSUME Ask(r, "requestDeletion.pending"), doc[d].status # "ABSENT"
          PROVE  IInv'
      <3>1. "requestDeletion.pending" \in Labels \ Uploading
        BY DEF Labels, Removing, Uploading
      <3>2. SlotAgrees(r)'
        BY <1>1, <1>3, <1>6, <2>2, <3>1
        DEF RequestFind, SlotAgrees, Uploading, Requesting, Asking, Removing,
            tables
      <3>3. QED
        BY <1>2, <2>2, <3>1, <3>2
    <2>3. QED
      BY <2>1, <2>2, RefuseKeeps
  <1>7. CASE RequestFindPending(r)
    <2>1. \/ Refuse(r)
          \/ Ask(r, "requestDeletion.create")
      BY <1>7 DEF RequestFindPending, Live, Subject
    <2>2. ASSUME Ask(r, "requestDeletion.create") PROVE IInv'
      <3>1. "requestDeletion.create" \in Labels \ Uploading
        BY DEF Labels, Removing, Uploading
      <3>2. SlotAgrees(r)'
        BY <1>1, <1>3, <1>7, <2>2, <3>1
        DEF RequestFindPending, SlotAgrees, Uploading, Requesting, Asking,
            Removing, tables
      <3>3. QED
        BY <1>2, <2>2, <3>1, <3>2
    <2>3. QED
      BY <2>1, <2>2, RefuseKeeps
  <1>8. CASE RemoveFind(r)
    <2>1. \/ Refuse(r)
          \/ Ask(r, "remove.mark") /\ doc[d].status # "ABSENT"
      BY <1>8 DEF RemoveFind, Live, Subject
    <2>2. ASSUME Ask(r, "remove.mark"), doc[d].status # "ABSENT"
          PROVE  IInv'
      <3>1. "remove.mark" \in Labels \ Uploading
        BY DEF Labels, Removing, Uploading
      <3>2. SlotAgrees(r)'
        BY <1>1, <1>3, <1>8, <2>2, <3>1
        DEF RemoveFind, SlotAgrees, Uploading, Requesting, Asking, Removing,
            tables
      <3>3. QED
        BY <1>2, <2>2, <3>1, <3>2
    <2>3. QED
      BY <2>1, <2>2, RefuseKeeps
  <1>9. CASE DecideFind(r)
    <2>1. \/ Refuse(r)
          \/ \E l \in {"remove", "decide.reject"} : Ask(r, l)
      BY <1>9 DEF DecideFind, Live, Subject
    <2>2. ASSUME NEW l \in {"remove", "decide.reject"}, Ask(r, l) PROVE IInv'
      <3>1. l \in Labels \ Uploading
        BY DEF Labels, Removing, Uploading
      <3>2. SlotAgrees(r)'
        BY <1>1, <1>3, <1>9, <2>2, <3>1
        DEF DecideFind, SlotAgrees, Uploading, Requesting, Asking, Removing,
            tables
      <3>3. QED
        BY <1>2, <2>2, <3>1, <3>2
    <2>3. QED
      BY <2>1, <2>2, RefuseKeeps
  <1>10. QED
    BY <1>4, <1>5, <1>6, <1>7, <1>8, <1>9

\* Every step, and stuttering.
LEMMA NextKeeps ==
  IInv /\ [Next]_vars => IInv'
  <1> SUFFICES ASSUME IInv, [Next]_vars PROVE IInv'
    OBVIOUS
  <1>1. CASE UNCHANGED vars
    BY <1>1
    DEF vars, tables, IInv, TypeOK, LiveHasBlob, Live, Subject, SlotAgrees
  <1>2. CASE Next
    <2> PICK r \in Slots : Receive(r) \/ Step(r) \/ Lost(r)
      BY <1>2 DEF Next
    <2>1. CASE Receive(r)
      BY <2>1, ReceiveKeeps
    <2>2. CASE Step(r)
      BY <2>2, UploadBlobKeeps, UploadCreateKeeps, RequestCreateKeeps, RemoveMarkKeeps,
         RemoveBlobKeeps, RemoveResolveKeeps, DecideRejectKeeps, DecideApproveKeeps,
         QueryKeeps
      DEF Step
    <2>3. CASE Lost(r)
      BY <2>3, RefuseKeeps DEF Lost
    <2>4. QED
      BY <2>1, <2>2, <2>3
  <1>3. QED
    BY <1>1, <1>2

\* Every reachable state of the two services satisfies the inductive invariant,
\* wherever requests are lost.
THEOREM DocumentsConsistent == Spec => []IInv
  BY InitIInv, NextKeeps, PTL DEF Spec

\* A document that is listed has its bytes in the store: upload stores them
\* before the row, and remove marks the row before it deletes them.
THEOREM ListedCanBeDownloaded == Spec => []LiveHasBlob
  <1>1. IInv => LiveHasBlob
    BY DEF IInv
  <1>2. QED
    BY <1>1, DocumentsConsistent, PTL

----------------------------------------------------------------------------
(* One request per document, and no removal lost: the reads of a handler   *)
(* still hold when it writes.                                              *)

\* The tables empty.
LEMMA InitSerial == Init => SerialIInv
  BY InitIInv, DocumentAssumption
  DEF Init, SerialIInv, OnePendingEach, LingeringServed, Lingering, SlotKnows, NoRequest,
      NoDocument,
      NotAsked, Requesting, Removing

\* A step of slot r that touches only requests about its document, or the one it
\* is to create, and hands its document to nobody.
Elsewhere(r) ==
    /\ \A o \in Slots \ {r} :
          /\ pc'[o] = pc[o] /\ req'[o] = req[o]
          /\ pc[o] # "idle" => req'[r].document # req[o].document
          /\ pc[o] \in Requesting /\ pc'[r] \in Requesting =>
                req'[r].request # req[o].request
    /\ \A p \in Requests :
          \/ request'[p] = request[p]
          \/ /\ pc[r] # "idle" /\ pc[r] \notin Requesting
             /\ request[p].status # "ABSENT"
             /\ Subject(p) = req[r].document
             /\ request'[p].documentId = request[p].documentId
             /\ request[p].status # "PENDING" => request'[p].status # "PENDING"
          \/ /\ pc[r] \in Requesting
             /\ p = req[r].request
             /\ request'[p].documentId = req[r].document

\* Then what the other slots know goes on to hold.
LEMMA OthersKnow ==
  ASSUME SerialIInv, NEW r \in Slots, Elsewhere(r), NEW o \in Slots \ {r}
  PROVE  SlotKnows(o)'
  <1> DEFINE d == req[o].document
             q == req[o].request
  <1>1. /\ pc'[o] = pc[o] /\ req'[o] = req[o]
        /\ SlotKnows(o) /\ SlotKnows(r) /\ SlotAgrees(o) /\ SlotAgrees(r)
        /\ TypeOK
    BY DEF SerialIInv, IInv, Elsewhere
  <1>2. pc[o] # "idle" => \A i \in Slots \ {o} : req'[i].document # d
    BY <1>1 DEF SlotKnows, Elsewhere
  <1>3. q \in Requests \cup {None} /\ d \in Documents \cup {None}
    BY <1>1 DEF TypeOK, Asked
  <1>4. pc[o] = "idle" => q = None /\ d = None
    BY <1>1 DEF SlotAgrees, NotAsked
  <1>5. pc[o] \in Requesting => q \in Requests
    BY <1>1 DEF SlotAgrees
  <1>6. CASE pc[o] = "idle"
    BY <1>1, <1>4, <1>6 DEF SlotKnows, Requesting, Removing
  <1>7. CASE pc[o] # "idle"
    <2>1. req[r].document # d
      BY <1>1, <1>7 DEF SlotKnows
    <2>2. pc[o] \in Requesting =>
             /\ request'[q].status = "ABSENT"
             /\ \A i \in Slots \ {o} : pc'[i] \in Requesting => req'[i].request # q
      <3> SUFFICES ASSUME pc[o] \in Requesting
                   PROVE  /\ request'[q].status = "ABSENT"
                          /\ \A i \in Slots \ {o} :
                                pc'[i] \in Requesting => req'[i].request # q
        OBVIOUS
      <3>1. /\ q \in Requests /\ request[q].status = "ABSENT"
            /\ pc[r] \in Requesting => req[r].request # q
        BY <1>1, <1>5 DEF SlotKnows
      <3>2. request'[q] = request[q]
        BY <3>1 DEF Elsewhere
      <3>3. QED
        BY <1>1, <3>1, <3>2 DEF SlotKnows, Elsewhere
    <2>3. pc[o] = "requestDeletion.create" => PendingFor(d)' = {}
      BY <1>1, <2>1 DEF SlotKnows, PendingFor, Elsewhere, Subject
    <2>4. ASSUME pc[o] \notin Requesting, q # None
          PROVE  Subject(q) = d /\ request'[q] = request[q]
      <3>1. q \in Requests /\ Subject(q) = d
        BY <1>1, <1>3, <2>4 DEF SlotKnows
      <3>2. pc[r] \in Requesting => request[req[r].request].status = "ABSENT"
        BY <1>1 DEF SlotKnows
      <3>3. pc[r] \in Requesting => req[r].request # q
        BY <1>1, <2>4, <3>2 DEF SlotKnows
      <3>4. QED
        BY <2>1, <3>1, <3>3 DEF Elsewhere
    <2>5. pc[o] \notin Requesting /\ q # None =>
             /\ request'[q].status # "ABSENT" /\ request'[q].documentId = d
             /\ pc[o] \in Removing \cup {"decide.reject"} =>
                   request'[q].status = "PENDING"
             /\ pc[o] = "decide.approve" => request'[q].status = "APPROVED"
      BY <1>1, <2>4 DEF SlotKnows, Subject
    <2>6. (pc[o] = "decide.approve" => request[q].status = "APPROVED")'
      BY <1>1, <2>5 DEF SlotAgrees, Requesting
    <2>7. QED
      BY <1>1, <1>2, <2>2, <2>3, <2>5, <2>6 DEF SlotKnows, Subject
  <1>8. QED
    BY <1>6, <1>7

\* A slot that has finished knows nothing.
LEMMA FinishedKnows ==
  ASSUME SerialIInv, NEW r \in Slots, Finish(r)
  PROVE  /\ SlotKnows(r)'
         /\ \A o \in Slots \ {r} :
               /\ pc'[o] = pc[o] /\ req'[o] = req[o]
               /\ pc[o] # "idle" => req'[r].document # req[o].document
         /\ pc'[r] \notin Requesting
  <1>1. /\ TypeOK /\ pc'[r] = "idle" /\ req'[r] = NotAsked
        /\ \A o \in Slots \ {r} : pc'[o] = pc[o] /\ req'[o] = req[o]
    BY FinishFacts DEF SerialIInv, IInv
  <1>2. \A o \in Slots : pc[o] # "idle" => req[o].document \in Documents
    BY DEF SerialIInv, IInv, SlotAgrees
  <1>3. QED
    BY <1>1, <1>2, DocumentAssumption DEF SlotKnows, NotAsked, Requesting, Removing

\* A slot that goes on keeps its document and the id of its new request.
LEMMA MovedKnows ==
  ASSUME SerialIInv, NEW r \in Slots, pc[r] # "idle", NEW l \in Labels, GoTo(r, l),
         l \in Requesting => pc[r] \in Requesting
  PROVE  /\ pc'[r] = l /\ req'[r] = req[r]
         /\ \A o \in Slots \ {r} :
               /\ pc'[o] = pc[o] /\ req'[o] = req[o]
               /\ req'[o].document # req'[r].document
               /\ pc[o] # "idle" => req'[r].document # req[o].document
               /\ pc'[r] \in Requesting /\ pc[o] \in Requesting =>
                     req'[r].request # req[o].request
  <1>1. /\ TypeOK /\ SlotKnows(r)
        /\ pc'[r] = l /\ req'[r] = req[r]
        /\ \A o \in Slots \ {r} : pc'[o] = pc[o] /\ req'[o] = req[o]
    BY GoToFacts DEF SerialIInv, IInv
  <1>2. QED
    BY <1>1 DEF SlotKnows

\* A step that leaves the tables alone, of a slot not about to purge bytes.
LEMMA ReadKnows ==
  ASSUME SerialIInv, IInv', NEW r \in Slots, UNCHANGED tables, pc[r] # "remove.blob",
         Elsewhere(r), SlotKnows(r)'
  PROVE  SerialIInv'
  <1>1. OnePendingEach'
    BY DEF SerialIInv, OnePendingEach, tables, Subject
  <1>2. LingeringServed'
    BY DEF SerialIInv, LingeringServed, Lingering, tables, Elsewhere
  <1>3. \A o \in Slots : SlotKnows(o)'
    BY OthersKnow
  <1>4. QED
    BY <1>1, <1>2, <1>3 DEF SerialIInv

\* An answer that writes nothing, or a loss before anything is written.
LEMMA RefuseKnows ==
  ASSUME SerialIInv, IInv', NEW r \in Slots, Refuse(r), pc[r] # "remove.blob"
  PROVE  SerialIInv'
  <1>1. Elsewhere(r)
    BY FinishedKnows DEF Refuse, tables, Elsewhere
  <1>2. QED
    BY <1>1, FinishedKnows, ReadKnows DEF Refuse

\* A query that finds what its handler needs.
LEMMA AskKnows ==
  ASSUME SerialIInv, IInv', NEW r \in Slots, pc[r] \notin {"idle", "remove.blob"},
         NEW l \in Labels, Ask(r, l),
         l \in Requesting <=> pc[r] \in Requesting,
         l = "requestDeletion.create" => PendingFor(req[r].document) = {},
         l \in Removing \cup {"decide.reject"} /\ req[r].request # None =>
            request[req[r].request].status = "PENDING",
         l # "decide.approve"
  PROVE  SerialIInv'
  <1>1. /\ GoTo(r, l) /\ UNCHANGED tables /\ UNCHANGED request /\ SlotKnows(r)
    BY DEF Ask, tables, SerialIInv
  <1>2. Elsewhere(r)
    BY <1>1, MovedKnows DEF Elsewhere
  <1>3. pc'[r] = l /\ req'[r] = req[r]
    BY <1>1, MovedKnows
  <1>4. PendingFor(req[r].document)' = PendingFor(req[r].document)
    BY <1>1, <1>3 DEF PendingFor
  <1>5. l \in Requesting => \A o \in Slots \ {r} : pc'[o] \in Requesting =>
                                 req'[o].request # req[r].request
    BY <1>1, MovedKnows DEF SlotKnows
  <1>6. SlotKnows(r)'
    BY <1>1, <1>3, <1>4, <1>5, MovedKnows DEF SlotKnows, Subject
  <1>7. QED
    BY <1>1, <1>2, <1>6, ReadKnows

\* A request about a document nobody else is at work on.
LEMMA ReceiveKnows ==
  ASSUME SerialIInv, IInv', NEW r \in Slots, Receive(r),
         \A o \in Slots \ {r} : req[o].document # req'[r].document
  PROVE  SerialIInv'
  <1>1. /\ TypeOK /\ pc[r] = "idle" /\ req[r] = NotAsked /\ UNCHANGED tables
        /\ UNCHANGED request /\ req[r] \in Asked
    BY DEF Receive, SerialIInv, IInv, TypeOK, SlotAgrees, tables
  <1>2. PICK kind \in {"upload", "download", "requestDeletion", "remove", "decide"} :
           /\ pc' = [pc EXCEPT ![r] = kind]
           /\ \/ /\ kind \in {"upload", "download", "remove"}
                 /\ \E d \in Documents, u \in Users :
                       req' = [req EXCEPT ![r].document = d, ![r].user = u]
              \/ /\ kind = "requestDeletion"
                 /\ \E d \in Documents, q \in FreshRequests, u \in Users :
                       req' = [req EXCEPT ![r].document = d, ![r].request = q,
                                          ![r].user = u]
              \/ /\ kind = "decide"
                 /\ \E q \in Requests, a \in Admins, ok \in BOOLEAN :
                       /\ request[q].status # "ABSENT"
                       /\ req' = [req EXCEPT ![r] =
                             [document |-> Subject(q), request |-> q,
                              user |-> a, approve |-> ok]]
    BY DocumentAssumption DEF Receive, FreshDocuments
  <1>3. /\ pc'[r] = kind
        /\ \A o \in Slots \ {r} : pc'[o] = pc[o] /\ req'[o] = req[o]
    BY <1>1, <1>2 DEF TypeOK
  <1>4. \/ /\ kind \in {"upload", "download", "remove"}
           /\ req'[r].request = None
        \/ /\ kind = "requestDeletion"
           /\ req'[r].request \in FreshRequests
        \/ /\ kind = "decide"
           /\ req'[r].request \in Requests
           /\ request[req'[r].request].status # "ABSENT"
           /\ request[req'[r].request].documentId = req'[r].document
    <2>1. CASE /\ kind \in {"upload", "download", "remove"}
               /\ \E d \in Documents, u \in Users :
                     req' = [req EXCEPT ![r].document = d, ![r].user = u]
      BY <1>1, <2>1 DEF TypeOK, Asked, NotAsked
    <2>2. CASE /\ kind = "requestDeletion"
               /\ \E d \in Documents, q \in FreshRequests, u \in Users :
                     req' = [req EXCEPT ![r].document = d, ![r].request = q,
                                        ![r].user = u]
      BY <1>1, <2>2 DEF TypeOK, Asked, NotAsked
    <2>3. CASE /\ kind = "decide"
               /\ \E q \in Requests, a \in Admins, ok \in BOOLEAN :
                     /\ request[q].status # "ABSENT"
                     /\ req' = [req EXCEPT ![r] =
                           [document |-> Subject(q), request |-> q,
                            user |-> a, approve |-> ok]]
      BY <1>1, <2>3 DEF TypeOK, Subject
    <2>4. QED
      BY <1>2, <2>1, <2>2, <2>3
  <1>5. SlotKnows(r)'
    BY <1>1, <1>3, <1>4 DEF SlotKnows, Subject, Requesting, Removing, FreshRequests
  <1>6. Elsewhere(r)
    BY <1>1, <1>3, <1>4 DEF Elsewhere, Requesting, FreshRequests
  <1>7. QED
    BY <1>1, <1>5, <1>6, ReadKnows

\* The queries.
LEMMA QueryKnows ==
  ASSUME SerialIInv, IInv', NEW r \in Slots,
         \/ DownloadFind(r) \/ DownloadBlob(r) \/ RequestFind(r)
         \/ RequestFindPending(r) \/ RemoveFind(r) \/ DecideFind(r)
  PROVE  SerialIInv'
  <1>1. SlotKnows(r)
    BY DEF SerialIInv
  <1>2. CASE DownloadFind(r)
    <2>1. "download.blob" \in Labels
      BY DEF Labels, Removing
    <2>2. QED
      BY <1>2, <2>1, RefuseKnows, AskKnows DEF DownloadFind, Requesting, Removing
  <1>3. CASE DownloadBlob(r)
    BY <1>3, RefuseKnows DEF DownloadBlob
  <1>4. CASE RequestFind(r)
    <2>1. "requestDeletion.pending" \in Labels
      BY DEF Labels, Removing
    <2>2. QED
      BY <1>4, <2>1, RefuseKnows, AskKnows DEF RequestFind, Requesting, Removing
  <1>5. CASE RequestFindPending(r)
    <2>1. "requestDeletion.create" \in Labels
      BY DEF Labels, Removing
    <2>2. QED
      BY <1>5, <2>1, RefuseKnows, AskKnows DEF RequestFindPending, Requesting, Removing
  <1>6. CASE RemoveFind(r)
    <2>1. "remove.mark" \in Labels
      BY DEF Labels, Removing
    <2>2. QED
      BY <1>1, <1>6, <2>1, RefuseKnows, AskKnows
      DEF RemoveFind, SlotKnows, Requesting, Removing
  <1>7. CASE DecideFind(r)
    <2>1. "remove" \in Labels /\ "decide.reject" \in Labels
      BY DEF Labels, Removing
    <2>2. QED
      BY <1>7, <2>1, RefuseKnows, AskKnows DEF DecideFind, Requesting, Removing
  <1>8. QED
    BY <1>2, <1>3, <1>4, <1>5, <1>6, <1>7

\* A step of slot r that leaves the requests alone.
LEMMA SameRequests ==
  ASSUME SerialIInv, IInv', NEW r \in Slots, UNCHANGED request,
         Elsewhere(r), SlotKnows(r)', LingeringServed'
  PROVE  SerialIInv'
  <1>1. OnePendingEach'
    BY DEF SerialIInv, OnePendingEach, Subject
  <1>2. \A o \in Slots : SlotKnows(o)'
    BY OthersKnow
  <1>3. QED
    BY <1>1, <1>2 DEF SerialIInv

\* A step of slot r that leaves documents and bytes alone, with no bytes of r's to
\* purge, and adds no pending request but the first about its document.
LEMMA SameDocuments ==
  ASSUME SerialIInv, IInv', NEW r \in Slots, UNCHANGED <<doc, blob>>,
         pc[r] # "remove.blob",
         Elsewhere(r), SlotKnows(r)',
         pc[r] \in Requesting => PendingFor(req[r].document) = {}
  PROVE  SerialIInv'
  <1>1. LingeringServed'
    BY DEF SerialIInv, LingeringServed, Lingering, Elsewhere
  <1>2. OnePendingEach'
    <2>1. ASSUME NEW p \in Requests, request'[p].status = "PENDING"
          PROVE  \/ request[p].status = "PENDING" /\ request'[p].documentId = Subject(p)
                 \/ /\ pc[r] \in Requesting /\ p = req[r].request
                    /\ request'[p].documentId = req[r].document
      BY <2>1 DEF Elsewhere, Subject
    <2>2. QED
      BY <2>1 DEF SerialIInv, OnePendingEach, PendingFor, Subject
  <1>3. \A o \in Slots : SlotKnows(o)'
    BY OthersKnow
  <1>4. QED
    BY <1>1, <1>2, <1>3 DEF SerialIInv

\* Bytes and row of an upload: no row of a deleted document.
LEMMA UploadKnows ==
  ASSUME SerialIInv, IInv', NEW r \in Slots, UploadBlob(r) \/ UploadCreate(r)
  PROVE  SerialIInv'
  <1> DEFINE d == req[r].document
  <1>1. /\ TypeOK /\ SlotAgrees(r) /\ SlotKnows(r) /\ LingeringServed
        /\ pc[r] \in Uploading /\ doc[d].status = "ABSENT" /\ d \in Documents
    BY DEF SerialIInv, IInv, UploadBlob, UploadCreate, SlotAgrees, Uploading
  <1>2. CASE UploadBlob(r)
    <2>1. CASE Refuse(r)
      BY <1>2, <2>1, RefuseKnows DEF UploadBlob
    <2>2. CASE /\ blob' = blob \cup {d} /\ GoTo(r, "upload.create")
               /\ UNCHANGED <<doc, request>>
      <3>1. /\ pc'[r] = "upload.create" /\ req'[r] = req[r]
            /\ \A o \in Slots \ {r} :
                  /\ pc'[o] = pc[o] /\ req'[o] = req[o]
                  /\ req'[o].document # req'[r].document
                  /\ pc[o] # "idle" => req'[r].document # req[o].document
        BY <1>1, <2>2, MovedKnows DEF Uploading, Requesting, Labels
      <3>2. Elsewhere(r)
        BY <2>2, <3>1 DEF Elsewhere, Requesting
      <3>3. SlotKnows(r)'
        BY <1>1, <2>2, <3>1 DEF SlotKnows, Subject, Requesting, Removing, Uploading
      <3>4. LingeringServed'
        BY <1>1, <2>2, <3>1 DEF LingeringServed, Lingering, Uploading
      <3>5. QED
        BY <2>2, <3>2, <3>3, <3>4, SameRequests
    <2>3. QED
      BY <1>2, <2>1, <2>2 DEF UploadBlob
  <1>3. CASE UploadCreate(r)
    <2>1. Elsewhere(r) /\ SlotKnows(r)'
      BY <1>3, FinishedKnows DEF UploadCreate, Elsewhere
    <2>2. LingeringServed'
      BY <1>1, <1>3, <2>1
      DEF UploadCreate, LingeringServed, Lingering, Uploading, Elsewhere, TypeOK
    <2>3. QED
      BY <1>3, <2>1, <2>2, SameRequests DEF UploadCreate
  <1>4. QED
    BY <1>2, <1>3

\* The one pending request about a document.
LEMMA RequestCreateKnows ==
  ASSUME SerialIInv, IInv', NEW r \in Slots, RequestCreate(r)
  PROVE  SerialIInv'
  <1>1. /\ TypeOK /\ SlotKnows(r) /\ pc[r] = "requestDeletion.create"
        /\ pc[r] \in Requesting /\ PendingFor(req[r].document) = {}
        /\ req[r].request \in Requests
    BY DEF SerialIInv, IInv, RequestCreate, SlotAgrees, SlotKnows, Requesting
  <1>2. Elsewhere(r) /\ SlotKnows(r)'
    BY <1>1, FinishedKnows DEF RequestCreate, Elsewhere, TypeOK
  <1>3. QED
    BY <1>1, <1>2, SameDocuments DEF RequestCreate

\* A row is marked: its bytes linger until the next step of the same removal.
LEMMA RemoveMarkKnows ==
  ASSUME SerialIInv, IInv', NEW r \in Slots, RemoveMark(r)
  PROVE  SerialIInv'
  <1> DEFINE d == req[r].document
  <1>1. /\ TypeOK /\ SlotKnows(r) /\ LingeringServed /\ pc[r] = "remove.mark"
        /\ d \in Documents
    BY DEF SerialIInv, IInv, RemoveMark, SlotAgrees
  <1>2. /\ pc'[r] = "remove.blob" /\ req'[r] = req[r]
        /\ \A o \in Slots \ {r} :
              /\ pc'[o] = pc[o] /\ req'[o] = req[o]
              /\ req'[o].document # req'[r].document
              /\ pc[o] # "idle" => req'[r].document # req[o].document
    BY <1>1, MovedKnows DEF RemoveMark, Requesting, Labels, Removing
  <1>3. Elsewhere(r)
    BY <1>2 DEF RemoveMark, Elsewhere, Requesting
  <1>4. SlotKnows(r)'
    BY <1>1, <1>2 DEF RemoveMark, SlotKnows, Subject, Requesting, Removing
  <1>5. LingeringServed'
    BY <1>1, <1>2 DEF RemoveMark, LingeringServed, Lingering, TypeOK
  <1>6. QED
    BY <1>3, <1>4, <1>5, SameRequests DEF RemoveMark

\* And there they go.
LEMMA RemoveBlobKnows ==
  ASSUME SerialIInv, IInv', NEW r \in Slots, RemoveBlob(r)
  PROVE  SerialIInv'
  <1>1. /\ TypeOK /\ SlotKnows(r) /\ LingeringServed /\ pc[r] = "remove.blob"
    BY DEF SerialIInv, IInv, RemoveBlob
  <1>2. /\ pc'[r] = "remove.resolve" /\ req'[r] = req[r]
        /\ \A o \in Slots \ {r} :
              /\ pc'[o] = pc[o] /\ req'[o] = req[o]
              /\ req'[o].document # req'[r].document
              /\ pc[o] # "idle" => req'[r].document # req[o].document
    BY <1>1, MovedKnows DEF RemoveBlob, Requesting, Labels, Removing
  <1>3. Elsewhere(r)
    BY <1>2 DEF RemoveBlob, Elsewhere, Requesting
  <1>4. SlotKnows(r)'
    BY <1>1, <1>2 DEF RemoveBlob, SlotKnows, Subject, Requesting, Removing
  <1>5. LingeringServed'
    BY <1>1, <1>2 DEF RemoveBlob, LingeringServed, Lingering
  <1>6. QED
    BY <1>3, <1>4, <1>5, SameRequests DEF RemoveBlob

\* remove approves what was pending about its document, the request of the decide
\* that called it included.
LEMMA RemoveResolveKnows ==
  ASSUME SerialIInv, IInv', NEW r \in Slots, RemoveResolve(r)
  PROVE  SerialIInv'
  <1> DEFINE d == req[r].document
             q == req[r].request
  <1>1. /\ TypeOK /\ SlotKnows(r) /\ pc[r] = "remove.resolve"
        /\ pc[r] # "idle" /\ pc[r] \notin Requesting
        /\ UNCHANGED <<doc, blob>>
        /\ q \in Requests \cup {None}
    BY DEF SerialIInv, IInv, RemoveResolve, TypeOK, Asked, Requesting
  <1>2. \A p \in Requests :
           \/ request'[p] = request[p]
           \/ /\ request[p].status = "PENDING"
              /\ Subject(p) = d
              /\ request'[p].documentId = request[p].documentId
    BY <1>1 DEF RemoveResolve, PendingFor, Subject, TypeOK, RequestRow
  <1>3. q # None => /\ request'[q].status = "APPROVED"
                    /\ request'[q].documentId = d
    BY <1>1 DEF RemoveResolve, PendingFor, Subject, TypeOK, RequestRow, SlotKnows,
       Removing
  <1>4. CASE Finish(r)
    <2>1. Elsewhere(r) /\ SlotKnows(r)'
      BY <1>1, <1>2, <1>4, FinishedKnows DEF Elsewhere
    <2>2. QED
      BY <1>1, <2>1, SameDocuments
  <1>5. CASE GoTo(r, "decide.approve") /\ q # None
    <2>1. /\ pc'[r] = "decide.approve" /\ req'[r] = req[r]
          /\ \A o \in Slots \ {r} :
                /\ pc'[o] = pc[o] /\ req'[o] = req[o]
                /\ req'[o].document # req'[r].document
                /\ pc[o] # "idle" => req'[r].document # req[o].document
      BY <1>1, <1>5, MovedKnows DEF Requesting, Labels
    <2>2. Elsewhere(r)
      BY <1>1, <1>2, <2>1 DEF Elsewhere, Requesting
    <2>3. SlotKnows(r)'
      BY <1>1, <1>3, <1>5, <2>1 DEF SlotKnows, Subject, Requesting, Removing
    <2>4. QED
      BY <1>1, <2>2, <2>3, SameDocuments
  <1>6. QED
    BY <1>4, <1>5 DEF RemoveResolve, RemoveReturn

\* A decision about the request that the handler found, or has just approved.
LEMMA DecideKnows ==
  ASSUME SerialIInv, IInv', NEW r \in Slots, DecideReject(r) \/ DecideApprove(r)
  PROVE  SerialIInv'
  <1> DEFINE q == req[r].request
  <1>1. /\ TypeOK /\ SlotKnows(r)
        /\ pc[r] \in {"decide.reject", "decide.approve"}
        /\ pc[r] # "idle" /\ pc[r] \notin Requesting /\ Finish(r)
        /\ UNCHANGED <<doc, blob>>
        /\ q \in Requests
    BY DEF SerialIInv, IInv, DecideReject, DecideApprove, SlotAgrees, TypeOK, Asked,
       Requesting
  <1>2. \A p \in Requests :
           \/ request'[p] = request[p]
           \/ /\ p = q
              /\ request'[p].documentId = request[p].documentId
              /\ request'[p].status # "PENDING"
    BY <1>1 DEF DecideReject, DecideApprove, TypeOK, RequestRow
  <1>3. request[q].status # "ABSENT" /\ Subject(q) = req[r].document
    BY <1>1, DocumentAssumption DEF SlotKnows
  <1>4. Elsewhere(r) /\ SlotKnows(r)'
    BY <1>1, <1>2, <1>3, FinishedKnows DEF Elsewhere
  <1>5. QED
    BY <1>1, <1>4, SameDocuments

\* Every step of the run with one request per document.
LEMMA SerialNextIsNext == [SerialNext]_vars => [Next]_vars
  BY DEF SerialNext, Next

LEMMA SerialNextKeeps ==
  SerialIInv /\ [SerialNext]_vars => SerialIInv'
  <1> SUFFICES ASSUME SerialIInv, [SerialNext]_vars PROVE SerialIInv'
    OBVIOUS
  <1>1. IInv'
    BY SerialNextIsNext, NextKeeps DEF SerialIInv
  <1>2. CASE UNCHANGED vars
    BY <1>1, <1>2
    DEF vars, SerialIInv, OnePendingEach, LingeringServed, Lingering, SlotKnows,
        Subject, PendingFor
  <1>3. CASE SerialNext
    <2> PICK r \in Slots :
           \/ Step(r)
           \/ pc[r] \notin Committed /\ Lost(r)
           \/ /\ Receive(r)
              /\ \A q \in Slots \ {r} : req[q].document # req'[r].document
      BY <1>3 DEF SerialNext
    <2>1. CASE Receive(r) /\ \A q \in Slots \ {r} : req[q].document # req'[r].document
      BY <1>1, <2>1, ReceiveKnows
    <2>2. CASE Step(r)
      BY <1>1, <2>2, QueryKnows, UploadKnows, RequestCreateKnows, RemoveMarkKnows,
         RemoveBlobKnows, RemoveResolveKnows, DecideKnows
      DEF Step
    <2>3. CASE pc[r] \notin Committed /\ Lost(r)
      BY <1>1, <2>3, RefuseKnows DEF Lost, Committed
    <2>4. QED
      BY <2>1, <2>2, <2>3
  <1>4. QED
    BY <1>2, <1>3

\* What every handler has read still holds when it writes.
THEOREM SerialReadsHold == SerialSpec => []SerialIInv
  BY InitSerial, SerialNextKeeps, PTL DEF SerialSpec

\* requestDeletion: at most one request about a document is pending, one request
\* per document being served at a time.
THEOREM OneRequestPending == SerialSpec => []OnePendingEach
  <1>1. SerialIInv => OnePendingEach
    BY DEF SerialIInv
  <1>2. QED
    BY <1>1, SerialReadsHold, PTL

\* remove: with no request under way no bytes of a deleted document are left in
\* the store.
THEOREM NothingLingers == SerialSpec => []PurgedAtOnce
  <1>1. SerialIInv => PurgedAtOnce
    BY DEF SerialIInv, LingeringServed, PurgedAtOnce
  <1>2. QED
    BY <1>1, SerialReadsHold, PTL

\* decide: a request that has been decided keeps its decision, also when a removal
\* approves the pending requests about its document.
THEOREM DecisionsStand == SerialSpec => DecidedOnce
  <1> DEFINE Decided == \A q \in Requests :
                           request[q].status \in {"APPROVED", "REJECTED"} =>
                              request'[q].status = request[q].status
  <1>1. SerialIInv /\ [SerialNext]_vars => [Decided]_request
    <2> SUFFICES ASSUME SerialIInv, SerialNext, NEW q \in Requests,
                        request[q].status \in {"APPROVED", "REJECTED"},
                        ~UNCHANGED request
                 PROVE  request'[q].status = request[q].status
      BY DEF vars
    <2> PICK r \in Slots : Step(r) \/ Lost(r) \/ Receive(r)
      BY DEF SerialNext
    <2>1. /\ SlotKnows(r) /\ SlotAgrees(r) /\ request \in [Requests -> RequestRow]
      BY DEF SerialIInv, IInv, TypeOK
    <2>2. CASE RequestCreate(r)
      BY <2>1, <2>2 DEF RequestCreate, SlotKnows, Requesting
    <2>3. CASE RemoveResolve(r)
      BY <2>3 DEF RemoveResolve, PendingFor
    <2>4. CASE DecideReject(r)
      BY <2>1, <2>4 DEF DecideReject, SlotKnows, SlotAgrees
    <2>5. CASE DecideApprove(r)
      BY <2>1, <2>5 DEF DecideApprove, SlotKnows, RequestRow
    <2>6. RequestCreate(r) \/ RemoveResolve(r) \/ DecideReject(r) \/ DecideApprove(r)
      BY DEF Step, Lost, Receive, Refuse, Ask, tables, UploadBlob, UploadCreate,
         DownloadFind, DownloadBlob, RequestFind, RequestFindPending, RemoveFind,
         RemoveMark, RemoveBlob, DecideFind
    <2>7. QED
      BY <2>2, <2>3, <2>4, <2>5, <2>6
  <1>2. QED
    BY <1>1, SerialReadsHold, PTL DEF SerialSpec, DecidedOnce
=============================================================================
