--------------------------- MODULE ProfileChanges ---------------------------
(***************************************************************************)
(* ProfileChangesService beside Accounts: the sections of a user's record  *)
(* (EmployeeProfile, EmergencyContact), the requests to change them, and   *)
(* the changes administrators make directly. One database call per step,   *)
(* in the slots of Accounts.                                               *)
(***************************************************************************)
EXTENDS Accounts, FiniteSets

CONSTANTS
    Targets,    \* ProfileChangeTargetType
    Columns,    \* of each target, the columns getCurrent selects
    Required,   \* those of them that may not be null
    Values,     \* what a column may hold, None for null
    Forms,      \* what may be proposed: some columns, and a value for each
    lastFour,   \* what maskProfileData leaves of an account number
    ChangeIds

ASSUME ProfileAssumption ==
    None \notin Targets \cup Values \cup ChangeIds \cup (Users \X Targets) \cup Forms

ASSUME ColumnsAssumption ==
    /\ \A t \in Targets : None \notin [Columns[t] -> Values \cup {None}]
    /\ \A form \in Forms : \A f \in DOMAIN form : form[f] \in Values \cup {None}
    /\ lastFour \in [Values -> Values]

VARIABLES
    profile,    \* tables employee_profiles and emergency_contacts
    change,     \* table profile_change_requests
    latest,     \* the forms approved so far, merged in the order of approval
    said,       \* what the audit log says each section holds
    saidGap,    \* sections with an audit row that starts from what never was
    applied,    \* changes whose form has been written
    overlap,    \* sections with requests that overlapped or broke off, and how,
                \* and columns written twice before either form was approved
    ask         \* what each slot was asked about sections, and has read

profiles == <<profile, change, latest, said, saidGap, applied>>
accountsVars == <<accounts, muddled, requests, req>>
vars == <<accounts, muddled, requests, pc, req, profiles, overlap, ask>>

Sections == Users \X Targets
NoChange == [section |-> None, proposed |-> None, status |-> "ABSENT"]
NoAsk == [kind |-> "none", section |-> None, value |-> None, id |-> None,
          approve |-> FALSE, before |-> None, after |-> None]

Init ==
    /\ AccountsInit
    /\ profile = [s \in Sections |-> None]
    /\ change = [i \in ChangeIds |-> NoChange]
    /\ latest = [s \in Sections |-> None]
    /\ said = [s \in Sections |-> None]
    /\ saidGap = {}
    /\ applied = {}
    /\ overlap = {}
    /\ ask = [r \in Slots |-> NoAsk]

Pending(s) == {i \in ChangeIds : change[i].section = s /\ change[i].status = "PENDING"}
FreshIds == {i \in ChangeIds : change[i] = NoChange}

\* A column of a section; nobody has filled it in while there is no row.
FieldOf(row, f) == IF row = None THEN None ELSE row[f]

\* The upsert leaves the columns a form does not name as they are, and creates
\* the row with null in them if there is none.
Upserted(row, t, form) ==
    [f \in Columns[t] |-> IF f \in DOMAIN form THEN form[f] ELSE FieldOf(row, f)]

\* Prisma throws for a column it does not know, and for a create that would
\* leave a required one null.
Accepts(t, form) ==
    /\ DOMAIN form \subseteq Columns[t]
    /\ \A f \in Required[t] : f \in DOMAIN form /\ form[f] # None

\* maskProfileData, as the audit log has every row.
Masked(row) ==
    IF row = None THEN None
    ELSE [f \in DOMAIN row |->
             IF f = "bankAccountNumber" /\ row[f] # None THEN lastFour[row[f]]
             ELSE row[f]]

\* The columns a slot has written for a form that is not approved yet.
Unapproved(r) ==
    IF pc[r] \in {"after", "markApproved", "record"} THEN DOMAIN ask[r].value ELSE {}

\* How requests of two kinds about one section get in each other's way.
Clash(kind, other) ==
    IF kind = other /\ kind # "direct" THEN {kind} ELSE {}
Writes(kind, other) ==
    IF "request" \notin {kind, other} THEN {"apply"} ELSE {}

Accept(r, asked, label) ==
    /\ Take(r)
    /\ req' = [req EXCEPT ![r] = NotAsked]
    /\ ask' = [ask EXCEPT ![r] = asked]
    /\ overlap' = overlap \cup {<<asked.section, tag>> : tag \in
           UNION {Clash(asked.kind, ask[q].kind) \cup Writes(asked.kind, ask[q].kind) :
                     q \in {p \in Slots : ask[p].section = asked.section}}}
    /\ GoTo(r, label)
    /\ UNCHANGED <<accounts, muddled, profiles>>

Leave(r) == GoTo(r, "idle") /\ ask' = [ask EXCEPT ![r] = NoAsk]
Go(r, label) == GoTo(r, label) /\ UNCHANGED ask

\* POST /profile-changes, by the user.
AskRequest(r) ==
    \E u \in Rows, t \in Targets, v \in Forms :
        /\ user[u].status = "ACTIVE"
        /\ Accept(r, [NoAsk EXCEPT !.kind = "request", !.section = <<u, t>>,
                                   !.value = v], "findPending")

\* POST /profile-changes/:id/decide
AskDecide(r) ==
    \E i \in ChangeIds \ FreshIds, approve \in BOOLEAN :
        Accept(r, [NoAsk EXCEPT !.kind = "decide", !.section = change[i].section,
                                !.id = i, !.approve = approve], "findChange")

\* POST /profile-changes/direct
AskDirect(r) ==
    \E u \in Rows, t \in Targets, v \in Forms :
        Accept(r, [NoAsk EXCEPT !.kind = "direct", !.section = <<u, t>>,
                                !.value = v], "before")

-----------------------------------------------------------------------------
\* Mutant: request asks only whether the same form is pending.
FindSamePending(r) ==
    /\ pc[r] = "findPending"
    /\ IF \E i \in Pending(ask[r].section) : change[i].proposed = ask[r].value
       THEN Leave(r) ELSE Go(r, "createChange")
    /\ UNCHANGED <<accountsVars, profiles, overlap>>

FindPending(r) ==
    /\ pc[r] = "findPending"
    /\ IF Pending(ask[r].section) # {} THEN Leave(r) ELSE Go(r, "createChange")
    /\ UNCHANGED <<accountsVars, profiles, overlap>>

CreateChange(r) ==
    /\ pc[r] = "createChange"
    /\ \E i \in FreshIds :
          change' = [change EXCEPT ![i] = [section |-> ask[r].section,
                         proposed |-> ask[r].value, status |-> "PENDING"]]
    /\ Leave(r)
    /\ UNCHANGED <<accountsVars, profile, latest, said, saidGap, applied, overlap>>

\* Mutant: decide does not look whether the request was decided.
FindAnyChange(r) ==
    /\ pc[r] = "findChange"
    /\ ask' = [ask EXCEPT ![r].value = change[ask[r].id].proposed]
    /\ GoTo(r, IF ask[r].approve THEN "before" ELSE "rejectChange")
    /\ UNCHANGED <<accountsVars, profiles, overlap>>

FindChange(r) ==
    /\ pc[r] = "findChange"
    /\ IF change[ask[r].id].status # "PENDING"
       THEN Leave(r)
       ELSE /\ ask' = [ask EXCEPT ![r].value = change[ask[r].id].proposed]
            /\ GoTo(r, IF ask[r].approve THEN "before" ELSE "rejectChange")
    /\ UNCHANGED <<accountsVars, profiles, overlap>>

Reject(r) ==
    /\ pc[r] = "rejectChange"
    /\ change' = [change EXCEPT ![ask[r].id].status = "REJECTED"]
    /\ Leave(r)
    /\ UNCHANGED <<accountsVars, profile, latest, said, saidGap, applied, overlap>>

\* getCurrent before, applyChange, getCurrent after
Before(r) ==
    /\ pc[r] = "before"
    /\ ask' = [ask EXCEPT ![r].before = profile[ask[r].section]]
    /\ GoTo(r, "apply")
    /\ UNCHANGED <<accountsVars, profiles, overlap>>

\* Mutant: the form is merged into the row that was read before.
ApplyToBefore(r) ==
    LET s == ask[r].section
        form == ask[r].value
    IN  /\ pc[r] = "apply"
        /\ IF Accepts(s[2], form)
           THEN /\ profile' = [profile EXCEPT ![s] = Upserted(ask[r].before, s[2], form)]
                /\ applied' = applied \cup ({ask[r].id} \ {None})
                /\ overlap' = overlap \cup {<<s, f>> : f \in DOMAIN form \cap
                       UNION {Unapproved(q) : q \in {p \in Slots : ask[p].section = s}}}
                /\ Go(r, "after")
           ELSE Leave(r) /\ UNCHANGED <<profile, applied, overlap>>
        /\ UNCHANGED <<accountsVars, change, latest, said, saidGap>>

\* The upsert, or the exception it ends in with nothing written.
ApplyChange(r) ==
    LET s == ask[r].section
        form == ask[r].value
    IN  /\ pc[r] = "apply"
        /\ IF Accepts(s[2], form)
           THEN /\ profile' = [profile EXCEPT ![s] = Upserted(profile[s], s[2], form)]
                /\ applied' = applied \cup ({ask[r].id} \ {None})
                /\ overlap' = overlap \cup {<<s, f>> : f \in DOMAIN form \cap
                       UNION {Unapproved(q) : q \in {p \in Slots : ask[p].section = s}}}
                /\ Go(r, "after")
           ELSE Leave(r) /\ UNCHANGED <<profile, applied, overlap>>
        /\ UNCHANGED <<accountsVars, change, latest, said, saidGap>>

After(r) ==
    /\ pc[r] = "after"
    /\ ask' = [ask EXCEPT ![r].after = profile[ask[r].section]]
    /\ GoTo(r, IF ask[r].kind = "decide" THEN "markApproved" ELSE "record")
    /\ UNCHANGED <<accountsVars, profiles, overlap>>

ApprovedLast(r) ==
    LET s == ask[r].section
    IN  latest' = [latest EXCEPT ![s] = Upserted(latest[s], s[2], ask[r].value)]

MarkApproved(r) ==
    /\ pc[r] = "markApproved"
    /\ change' = [change EXCEPT ![ask[r].id].status = "APPROVED"]
    /\ ApprovedLast(r)
    /\ Go(r, "auditApplied")
    /\ UNCHANGED <<accountsVars, profile, said, saidGap, applied, overlap>>

\* A direct change is recorded as a request already approved.
RecordDirect(r) ==
    /\ pc[r] = "record"
    /\ \E i \in FreshIds :
          /\ change' = [change EXCEPT ![i] = [section |-> ask[r].section,
                            proposed |-> ask[r].value, status |-> "APPROVED"]]
          /\ applied' = applied \cup {i}
    /\ ApprovedLast(r)
    /\ Go(r, "auditApplied")
    /\ UNCHANGED <<accountsVars, profile, said, saidGap, overlap>>

\* PROFILE_CHANGE_APPROVED or ADMIN_DIRECT_PROFILE_UPDATE, before and after
\* with the account number masked
AuditApplied(r) ==
    /\ pc[r] = "auditApplied"
    /\ said' = [said EXCEPT ![ask[r].section] = Masked(ask[r].after)]
    /\ saidGap' = IF said[ask[r].section] = Masked(ask[r].before) THEN saidGap
                  ELSE saidGap \cup {ask[r].section}
    /\ Leave(r)
    /\ UNCHANGED <<accountsVars, profile, change, latest, applied, overlap>>

\* A call fails at the database.
ProfileFail(r) ==
    /\ ask[r] # NoAsk
    /\ overlap' = overlap \cup {<<ask[r].section, tag>> : tag \in {"failed"} \cup Unapproved(r)}
    /\ Leave(r)
    /\ UNCHANGED <<accountsVars, profiles>>

ProfileStep(r) ==
    \/ AskRequest(r) \/ FindPending(r) \/ CreateChange(r)
    \/ AskDecide(r) \/ FindChange(r) \/ Reject(r) \/ MarkApproved(r)
    \/ AskDirect(r) \/ RecordDirect(r)
    \/ Before(r) \/ ApplyChange(r) \/ After(r) \/ AuditApplied(r)
    \/ ProfileFail(r)

Next == \E r \in Slots :
    \/ AccountsStep(r) /\ UNCHANGED <<profiles, overlap, ask>>
    \/ ProfileStep(r)

Spec == Init /\ [][Next]_vars

-----------------------------------------------------------------------------
Clean(s, tags) == \A tag \in tags : <<s, tag>> \notin overlap
Quiet(s) == \A r \in Slots : ask[r].section = s => ask[r].kind = "request"

\* A section has one request to decide at a time, unless two requests for it
\* were made at once.
OnePendingPerSection ==
    \A s \in Sections : Clean(s, {"request"}) => Cardinality(Pending(s)) <= 1

\* What was rejected is not in force and never was, unless two administrators
\* decided it at once, or an approval broke off after the form was written.
RejectedNeverApplied ==
    \A i \in applied :
        change[i].status = "REJECTED" =>
            ~Clean(change[i].section, {"decide", "failed"})

\* A column holds what the form approved last of those that name it gave it,
\* however other forms for the same section came in between, unless two forms
\* naming it were written before either was approved, or one was written and
\* never approved.
ColumnsExplained ==
    \A s \in Sections : \A f \in Columns[s[2]] :
        (/\ Clean(s, {f})
         /\ \A r \in Slots : ask[r].section = s => f \notin Unapproved(r))
        => FieldOf(profile[s], f) = FieldOf(latest[s], f)

\* The rows of the audit log about a section, the account number masked in all
\* of them, each start where the one before ended and end at what the section
\* holds, unless two of its writes overlapped or one broke off.
AuditExplained ==
    \A s \in Sections :
        (Clean(s, {"apply", "failed"}) /\ Quiet(s)) =>
            /\ said[s] = Masked(profile[s])
            /\ s \notin saidGap

\* What a section holds can be told from what was approved, column by column,
\* and from the audit log as far as it is masked.
HistoryExplains == ColumnsExplained /\ AuditExplained

=============================================================================
