------------------------------ MODULE Accounts ------------------------------
(***************************************************************************)
(* Accounts from UsersService and AuthService: registration, creation by   *)
(* an administrator one at a time or from a spreadsheet, approval,         *)
(* rejection, changes by an administrator, and password links. One         *)
(* database call per step. A unique index on email holds whatever a        *)
(* handler has looked up; the audit log is kept as what its rows, in       *)
(* order, say of each account.                                             *)
(***************************************************************************)
EXTENDS Integers, Sequences

CONSTANTS
    Users,      \* ids of accounts
    Emails,
    Roles,
    Sheets,     \* spreadsheets administrators import, as sequences of rows
    Changes,    \* the fields administrators change at once, None for the rest
    Seeded,     \* table users of a fresh clone
    Slots,      \* requests being served at the same time
    MaxRequests,
    None

ASSUME AccountAssumption ==
    /\ "EMPLOYEE" \in Roles
    /\ None \notin Users \cup Emails \cup Roles
    /\ MaxRequests \in Nat

VARIABLES
    requireRegistrationApproval, \* AppSettings
    user,       \* table users
    links,      \* accounts that have been sent a link to set a password
    told,       \* what the audit log says an account's fields are
    gap,        \* accounts with an audit row that starts from what never was
    muddled,    \* accounts with requests that overlapped, or broke off
    requests,   \* how many of MaxRequests have been received
    pc,         \* the next call of each slot
    req         \* what each slot was asked, has read and reports

accounts == <<requireRegistrationApproval, user, links, told, gap>>

Status == {"PENDING", "ACTIVE", "SUSPENDED", "REJECTED"}
UserRow == [email : Emails, role : Roles, status : Status]
NoUser == [email |-> None, role |-> None, status |-> "ABSENT"]

\* A row of a sheet: an address to invite, an address whose department nobody
\* knows, a row that fails validation, an empty one.
Creating == {"register", "create", "import"}
Asked == [kind : Creating \cup {"none", "update", "approve", "reject", "forgot"},
          user : Users \cup {None}, email : Emails \cup {None, "noDepartment"},
          role : Roles \cup {None}, status : Status \cup {None},
          seen : UserRow \cup {NoUser},
          sheet : Sheets \cup {<<>>}, row : Nat,
          created : SUBSET Nat, errors : SUBSET Nat, broke : SUBSET Nat,
          inserted : SUBSET (Nat \X Users)]
NotAsked == [kind |-> "none", user |-> None, email |-> None, role |-> None,
             status |-> None, seen |-> NoUser, sheet |-> <<>>, row |-> 0,
             created |-> {}, errors |-> {}, broke |-> {}, inserted |-> {}]

ASSUME SeedAssumption == Seeded \in [Users -> UserRow \cup {NoUser}]

ASSUME FormAssumption ==
    /\ Sheets \subseteq Seq(Emails \cup {"empty", "invalid", "noDepartment"})
    /\ Changes \subseteq [email : Emails \cup {None}, role : Roles \cup {None},
                          status : Status \cup {None}]

Rows == {u \in Users : user[u] # NoUser}
Holders(e) == {u \in Rows : user[u].email = e}

\* The seed has created some accounts.
AccountsInit ==
    /\ requireRegistrationApproval \in BOOLEAN
    /\ user = Seeded
    /\ links = {}
    /\ told = Seeded
    /\ gap = {}
    /\ muddled = {}
    /\ requests = 0
    /\ pc = [r \in Slots |-> "idle"]
    /\ req = [r \in Slots |-> NotAsked]

-----------------------------------------------------------------------------
GoTo(r, label) == pc' = [pc EXCEPT ![r] = label]

\* The accounts a request is about; others about the same ones muddle them.
Busy(r) == pc[r] # "idle"
About(u) == {r \in Slots : Busy(r) /\ req[r].user = u}

\* AuditService.record with before and after of one field.
Record(u, field, before, after) ==
    /\ told' = [told EXCEPT ![u][field] = after]
    /\ gap' = IF told[u][field] = before THEN gap ELSE gap \cup {u}

\* parseBulkImportWorkbook: empty rows are skipped, and invalid ones reported
\* without being imported.
DataRows(sheet) == {i \in DOMAIN sheet : sheet[i] # "empty"}
ParseErrors(sheet) == {i \in DOMAIN sheet : sheet[i] = "invalid"}
ValidRows(sheet) == DataRows(sheet) \ ParseErrors(sheet)
RowsAfter(sheet, i) == {j \in ValidRows(sheet) : j > i}

\* The loop of bulkImport moves to its next row, or ends.
NextRow(r, asked) ==
    LET left == RowsAfter(asked.sheet, asked.row)
        next == CHOOSE i \in left : \A j \in left : i <= j
    IN  IF left = {}
        THEN /\ GoTo(r, "idle")
             /\ req' = [req EXCEPT ![r] = [asked EXCEPT !.user = None]]
        ELSE /\ GoTo(r, "findEmail")
             /\ req' = [req EXCEPT ![r] =
                    [asked EXCEPT !.row = next, !.user = None,
                                  !.email = asked.sheet[next]]]

\* A handler answers. In an import only a row of it ends.
Return(r) ==
    IF req[r].kind = "import"
    THEN NextRow(r, [req[r] EXCEPT !.created = @ \cup {req[r].row}])
    ELSE GoTo(r, "idle") /\ req' = [req EXCEPT ![r] = NotAsked]

\* Mutant: the import swallows the exception.
ThrowUnreported(r, broken) ==
    IF req[r].kind = "import"
    THEN NextRow(r, [req[r] EXCEPT !.broke = @ \cup broken])
    ELSE GoTo(r, "idle") /\ req' = [req EXCEPT ![r] = NotAsked]

\* An exception ends a handler; an import catches it and reports the row.
Throw(r, broken) ==
    IF req[r].kind = "import"
    THEN NextRow(r, [req[r] EXCEPT !.errors = @ \cup {req[r].row},
                                   !.broke = @ \cup broken])
    ELSE GoTo(r, "idle") /\ req' = [req EXCEPT ![r] = NotAsked]

-----------------------------------------------------------------------------
Take(r) ==
    /\ pc[r] = "idle"
    /\ requests < MaxRequests
    /\ requests' = requests + 1

\* POST /auth/register, POST /users
AskCreate(r) ==
    /\ Take(r)
    /\ \E kind \in {"register", "create"}, e \in Emails, role \in Roles :
          /\ kind = "register" => role = "EMPLOYEE"
          /\ req' = [req EXCEPT ![r] =
                 [NotAsked EXCEPT !.kind = kind, !.email = e, !.role = role]]
    /\ GoTo(r, "findEmail")
    /\ UNCHANGED <<accounts, muddled>>

\* POST /users/bulk-import, for a sheet that has a row.
AskImport(r) ==
    /\ Take(r)
    /\ \E sheet \in {s \in Sheets : DataRows(s) # {}} :
          NextRow(r, [NotAsked EXCEPT !.kind = "import", !.role = "EMPLOYEE",
                                      !.sheet = sheet, !.errors = ParseErrors(sheet)])
    /\ UNCHANGED <<accounts, muddled>>

\* PATCH /users/:id, POST /users/:id/approve, POST /users/:id/reject
AskChange(r) ==
    /\ Take(r)
    /\ \E u \in Rows :
          /\ \/ \E change \in Changes :
                   req' = [req EXCEPT ![r] =
                       [NotAsked EXCEPT !.kind = "update", !.user = u,
                           !.email = change.email, !.role = change.role,
                           !.status = change.status]]
             \/ \E kind \in {"approve", "reject"} :
                   req' = [req EXCEPT ![r] =
                       [NotAsked EXCEPT !.kind = kind, !.user = u]]
          /\ muddled' = IF About(u) = {} THEN muddled ELSE muddled \cup {u}
    /\ GoTo(r, "read")
    /\ UNCHANGED accounts

\* register and createOne look the address up; so does an import, after it
\* has looked for the department.
FindEmail(r) ==
    /\ pc[r] = "findEmail"
    /\ IF req[r].email = "noDepartment" \/ Holders(req[r].email) # {}
       THEN Throw(r, {})
       ELSE GoTo(r, "insert") /\ UNCHANGED req
    /\ UNCHANGED <<accounts, muddled, requests>>

FirstStatus(kind) ==
    IF kind = "register" /\ requireRegistrationApproval THEN "PENDING" ELSE "ACTIVE"

Insert(r) ==
    /\ pc[r] = "insert"
    /\ \/ /\ Holders(req[r].email) # {}
          /\ Throw(r, {})
          /\ UNCHANGED user
       \/ /\ Holders(req[r].email) = {}
          /\ \E u \in Users \ Rows :
                /\ user' = [user EXCEPT ![u] =
                       [email |-> req[r].email, role |-> req[r].role,
                        status |-> FirstStatus(req[r].kind)]]
                /\ req' = [req EXCEPT ![r].user = u,
                                      ![r].inserted = @ \cup {<<req[r].row, u>>}]
          /\ GoTo(r, IF req[r].kind = "register" THEN "auditCreated" ELSE "link")
    /\ UNCHANGED <<requireRegistrationApproval, links, told, gap, muddled, requests>>

\* createPasswordResetToken; the mail itself is never an error.
Link(r) ==
    /\ pc[r] = "link"
    /\ links' = links \cup {req[r].user}
    /\ IF req[r].kind = "forgot"
       THEN Return(r)
       ELSE GoTo(r, "auditCreated") /\ UNCHANGED req
    /\ UNCHANGED <<requireRegistrationApproval, user, told, gap, muddled, requests>>

\* USER_CREATED
AuditCreated(r) ==
    /\ pc[r] = "auditCreated"
    /\ told' = [told EXCEPT ![req[r].user] =
           [email |-> req[r].email, role |-> req[r].role,
            status |-> FirstStatus(req[r].kind)]]
    /\ gap' = IF told[req[r].user] = NoUser THEN gap ELSE gap \cup {req[r].user}
    /\ Return(r)
    /\ UNCHANGED <<requireRegistrationApproval, user, links, muddled, requests>>

\* forgotPassword answers the same whether it finds the account or not.
AskForgot(r) ==
    /\ Take(r)
    /\ \E e \in Emails :
          \/ /\ Holders(e) = {}
             /\ UNCHANGED <<pc, req>>
          \/ \E u \in Holders(e) :
                /\ req' = [req EXCEPT ![r] =
                       [NotAsked EXCEPT !.kind = "forgot", !.user = u]]
                /\ GoTo(r, "link")
    /\ UNCHANGED <<accounts, muddled>>

-----------------------------------------------------------------------------
\* The row as it was: approve and reject want it PENDING.
ReadBefore(r) ==
    /\ pc[r] = "read"
    /\ LET before == user[req[r].user]
           kind == req[r].kind
       IN  IF kind # "update" /\ before.status # "PENDING"
           THEN Throw(r, {})
           ELSE /\ req' = [req EXCEPT ![r].seen = before]
                /\ GoTo(r, IF kind # "update" THEN kind
                           ELSE IF req[r].email \in {None, before.email} THEN "write"
                           ELSE "findOther")
    /\ UNCHANGED <<accounts, muddled, requests>>

FindOther(r) ==
    /\ pc[r] = "findOther"
    /\ IF Holders(req[r].email) # {}
       THEN Throw(r, {})
       ELSE GoTo(r, "write") /\ UNCHANGED req
    /\ UNCHANGED <<accounts, muddled, requests>>

Given(value, old) == IF value = None THEN old ELSE value

\* The update, which the unique index may refuse (P2002).
Write(r) ==
    /\ pc[r] = "write"
    /\ LET u == req[r].user
       IN  IF req[r].email # None /\ Holders(req[r].email) \ {u} # {}
           THEN Throw(r, {}) /\ UNCHANGED user
           ELSE /\ user' = [user EXCEPT ![u] =
                       [email |-> Given(req[r].email, user[u].email),
                        role |-> Given(req[r].role, user[u].role),
                        status |-> Given(req[r].status, user[u].status)]]
                /\ GoTo(r, "auditRole") /\ UNCHANGED req
    /\ UNCHANGED <<requireRegistrationApproval, links, told, gap, muddled, requests>>

\* Mutant: the audit rows read the account again.
AuditFieldAfter(r, field) ==
    IF req[r][field] \in {None, req[r].seen[field]}
    THEN UNCHANGED <<told, gap>>
    ELSE Record(req[r].user, field, user[req[r].user][field], req[r][field])

\* A field that was given, and differs from the row that was read, is audited
\* with the value read as its before.
AuditField(r, field) ==
    IF req[r][field] \in {None, req[r].seen[field]}
    THEN UNCHANGED <<told, gap>>
    ELSE Record(req[r].user, field, req[r].seen[field], req[r][field])

\* USER_ROLE_CHANGED
AuditRole(r) ==
    /\ pc[r] = "auditRole"
    /\ AuditField(r, "role")
    /\ GoTo(r, "auditStatus")
    /\ UNCHANGED <<requireRegistrationApproval, user, links, muddled, requests, req>>

\* USER_STATUS_CHANGED
AuditStatus(r) ==
    /\ pc[r] = "auditStatus"
    /\ AuditField(r, "status")
    /\ GoTo(r, "auditUpdated")
    /\ UNCHANGED <<requireRegistrationApproval, user, links, muddled, requests, req>>

\* USER_UPDATED, with the address before and after
AuditUpdated(r) ==
    /\ pc[r] = "auditUpdated"
    /\ IF req[r].email = None
       THEN UNCHANGED <<told, gap>>
       ELSE Record(req[r].user, "email", req[r].seen.email, req[r].email)
    /\ Return(r)
    /\ UNCHANGED <<requireRegistrationApproval, user, links, muddled, requests>>

Decided(kind) == IF kind = "approve" THEN "ACTIVE" ELSE "REJECTED"

\* approve and reject write the status by id.
Approve(r) ==
    /\ pc[r] \in {"approve", "reject"}
    /\ user' = [user EXCEPT ![req[r].user].status = Decided(req[r].kind)]
    /\ GoTo(r, "auditDecided")
    /\ UNCHANGED <<requireRegistrationApproval, links, told, gap, muddled, requests, req>>

\* USER_APPROVED or USER_REJECTED, of an account that was PENDING
AuditDecided(r) ==
    /\ pc[r] = "auditDecided"
    /\ Record(req[r].user, "status", "PENDING", Decided(req[r].kind))
    /\ Return(r)
    /\ UNCHANGED <<requireRegistrationApproval, user, links, muddled, requests>>

\* A call fails at the database.
Fail(r) ==
    /\ req[r].kind # "none" /\ Busy(r)
    /\ muddled' = IF req[r].user = None THEN muddled ELSE muddled \cup {req[r].user}
    /\ Throw(r, {req[r].row})
    /\ UNCHANGED <<accounts, requests>>

AccountsStep(r) ==
    \/ AskCreate(r) \/ AskImport(r) \/ AskChange(r) \/ AskForgot(r)
    \/ FindEmail(r) \/ Insert(r) \/ Link(r) \/ AuditCreated(r)
    \/ ReadBefore(r) \/ FindOther(r) \/ Write(r)
    \/ AuditRole(r) \/ AuditStatus(r) \/ AuditUpdated(r)
    \/ Approve(r) \/ AuditDecided(r)
    \/ Fail(r)

-----------------------------------------------------------------------------
\* The rows of its sheet an import is through with.
RowsDone(r) ==
    {i \in DataRows(req[r].sheet) :
        \/ i \in ParseErrors(req[r].sheet)
        \/ i < req[r].row
        \/ i = req[r].row /\ ~Busy(r)}

\* A bulk import accounts for each row of its sheet exactly once: a row it
\* reports as created has an account and a link to set a password, and one it
\* reports as an error left no account, unless a call failed after the insert.
ImportReports ==
    \A r \in Slots :
        req[r].kind = "import" =>
            /\ req[r].created \cup req[r].errors = RowsDone(r)
            /\ req[r].created \cap req[r].errors = {}
            /\ \A i \in req[r].created :
                  \E u \in Rows \cap links : <<i, u>> \in req[r].inserted
            /\ \A row \in req[r].inserted :
                  row[1] \in req[r].errors => row[1] \in req[r].broke

\* Replaying the audit log gives the accounts as they are, wherever requests
\* about one account did not overlap and none of them broke off.
TrailExplains ==
    \A u \in Rows \ muddled :
        /\ u \notin gap
        /\ About(u) = {} => told[u] = user[u]

=============================================================================
