----------------------- MODULE ProfileChanges_proofs -----------------------
(***************************************************************************)
(* Accounts, and the sections of a user's record, for any number of        *)
(* accounts, sections, forms, sheets and requests in flight.  A slot is    *)
(* busy with an account or with a section, never both (Suits), so each     *)
(* half has an invariant of its own.  Nothing keeps two requests about one *)
(* section, or one account, apart: the invariants say what each of them    *)
(* knows as long as nobody else is about (Tagged, Apart).                  *)
(***************************************************************************)
EXTENDS ProfileChanges, FiniteSetTheorems, WellFoundedInduction, TLAPS

----------------------------------------------------------------------------
(* Accounts.                                                               *)

ProfileLabels == {"findPending", "createChange", "findChange", "rejectChange", "before",
                  "apply", "after", "markApproved", "record", "auditApplied"}
AccountLabels == {"idle", "findEmail", "insert", "link", "auditCreated", "read",
                  "findOther", "write", "approve", "reject", "auditRole",
                  "auditStatus", "auditUpdated", "auditDecided"}
Labels == ProfileLabels \cup AccountLabels
ToldRow == [email : Emails \cup {None}, role : Roles \cup {None},
            status : Status \cup {"ABSENT"}]
AccountsTypeOK ==
    /\ requireRegistrationApproval \in BOOLEAN
    /\ user \in [Users -> UserRow \cup {NoUser}]
    /\ links \subseteq Users
    /\ told \in [Users -> ToldRow]
    /\ muddled \subseteq Rows
    /\ pc \in [Slots -> Labels]
    /\ req \in [Slots -> Asked]
    /\ \A r \in Slots : req[r].user \in Rows \cup {None}

\* What a slot at label l was asked.
Subjectless == {"idle", "findEmail", "insert"} \cup ProfileLabels
Fits(l, x) ==
    /\ l \in Subjectless <=> x.user = None
    /\ l \in ProfileLabels => x = NotAsked
    /\ l = "idle" => x.kind \in {"none", "import"}
    /\ l \in {"findEmail", "insert", "auditCreated"} => x.kind \in Creating
    /\ l = "link" => x.kind \in {"create", "import", "forgot"}
    /\ l = "read" => x.kind \in {"update", "approve", "reject"}
    /\ l \in {"findOther", "write", "auditRole", "auditStatus", "auditUpdated"} =>
          x.kind = "update"
    /\ l \in {"approve", "reject"} => x.kind = l
    /\ l = "auditDecided" => x.kind \in {"approve", "reject"}
    /\ x.kind \in Creating => x.role \in Roles
    /\ x.kind = "import" => x.sheet \in Sheets
    /\ l \in {"insert", "link", "auditCreated"} /\ x.kind \in Creating => x.email \in Emails
    /\ x.kind = "update" => x.email \in Emails \cup {None}
    /\ l = "findEmail" => x.email \in Emails \cup {"noDepartment"}

\* Two requests about one account have left their mark, and so has one that
\* ended early; a link for a password does not touch the account.
Handles(r, u) == req[r].user = u /\ req[r].kind # "forgot"
Apart(u) ==
    u \notin muddled =>
        \A r, q \in Slots : Handles(r, u) /\ Handles(q, u) => r = q

\* How far the one request about an account has come: what it has read, what
\* it has written, and what of that the audit log says.
Explains(l, x, before, row) ==
    /\ l \in {"link", "auditCreated"} =>
          /\ before = NoUser
          /\ row = [email |-> x.email, role |-> x.role, status |-> FirstStatus(x.kind)]
    /\ l \in {"read", "findOther", "write", "approve", "reject"} => before = row
    /\ l \in {"findOther", "write"} => x.seen = row
    /\ l \in {"approve", "reject"} => row.status = "PENDING"
    /\ l \in {"auditRole", "auditStatus", "auditUpdated"} =>
          row = [email |-> Given(x.email, x.seen.email),
                 role |-> Given(x.role, x.seen.role),
                 status |-> Given(x.status, x.seen.status)]
    /\ l = "auditRole" => before = x.seen
    /\ l = "auditStatus" => before = [x.seen EXCEPT !.role = Given(x.role, @)]
    /\ l = "auditUpdated" => before = [row EXCEPT !.email = x.seen.email]
    /\ l = "auditDecided" =>
          /\ before = [row EXCEPT !.status = "PENDING"]
          /\ row.status = Decided(x.kind)
Trail(u) ==
    u \notin muddled =>
        /\ u \notin gap
        /\ \A r \in Slots : Handles(r, u) => Explains(pc[r], req[r], told[u], user[u])
        /\ (\A r \in Slots : ~Handles(r, u)) => told[u] = user[u]

\* How far an import has come in its sheet, and which accounts, of those that
\* exist and have been sent a link, it has to show for it.
Through(l, x) ==
    {i \in DataRows(x.sheet) :
        \/ i \in ParseErrors(x.sheet)
        \/ i < x.row
        \/ i = x.row /\ l = "idle"}
Imported(l, x, invited) ==
    x.kind = "import" =>
        /\ x.created \cup x.errors = Through(l, x)
        /\ x.created \cap x.errors = {}
        /\ l # "idle" => x.row \in ValidRows(x.sheet)
        /\ \A i \in x.created : \E u \in invited : <<i, u>> \in x.inserted
        /\ \A p \in x.inserted :
              /\ p[1] \in x.errors => p[1] \in x.broke
              /\ p[1] <= x.row
              /\ l \in {"findEmail", "insert"} => p[1] # x.row
        /\ l \in {"link", "auditCreated"} => <<x.row, x.user>> \in x.inserted
        /\ l = "auditCreated" => x.user \in invited

AccountIInv ==
    /\ AccountsTypeOK
    /\ \A r \in Slots : Fits(pc[r], req[r]) /\ Imported(pc[r], req[r], Rows \cap links)
    /\ \A u \in Users : Apart(u) /\ Trail(u)

----------------------------------------------------------------------------
(* Sections.                                                               *)

AskKinds == {"none", "request", "decide", "direct"}
RowsOf(t) == [Columns[t] -> Values \cup {None}] \cup {None}
AnyRow == UNION {RowsOf(t) : t \in Targets}
Holding == {h \in [Sections -> AnyRow] : \A s \in Sections : h[s] \in RowsOf(s[2])}
AskRow == [kind : AskKinds, section : Sections \cup {None}, value : Forms \cup {None},
           id : ChangeIds \cup {None}, approve : BOOLEAN,
           before : AnyRow \cup {None}, after : AnyRow \cup {None}]
ChangeRow == [section : Sections \cup {None}, proposed : Forms \cup {None},
              status : {"ABSENT", "PENDING", "APPROVED", "REJECTED"}]
ProfileTypeOK ==
    /\ ask \in [Slots -> AskRow]
    /\ change \in [ChangeIds -> ChangeRow]
    /\ profile \in Holding
    /\ latest \in Holding
    /\ said \in [Sections -> AnyRow]

\* A slot is about a section, or about an account, or neither.
Suits(l, a) ==
    /\ l \in ProfileLabels => a.section \in Sections /\ a.kind # "none"
    /\ l \in AccountLabels => a = NoAsk
    /\ l \in {"findPending", "createChange"} <=> a.kind = "request"
    /\ l \in {"findChange", "rejectChange", "markApproved"} => a.kind = "decide"
    /\ l = "record" => a.kind = "direct"
    /\ l \in ProfileLabels \ {"findChange"} => a.value \in Forms

\* A request that was inserted is about a section, and so is what decides on it.
ChangesAgree ==
    /\ \A i \in ChangeIds : IF change[i].status = "ABSENT" THEN change[i] = NoChange
                            ELSE change[i].section \in Sections /\ change[i].proposed \in Forms
    /\ \A i \in applied : i \in ChangeIds /\ change[i].status # "ABSENT"
    /\ \A r \in Slots :
          IF ask[r].kind = "decide"
          THEN /\ ask[r].id \in ChangeIds
               /\ change[ask[r].id].status # "ABSENT"
               /\ change[ask[r].id].section = ask[r].section
          ELSE ask[r].id = None

\* Two requests about one section have left their mark.
Tagged ==
    \A r, q \in Slots :
       /\ r # q /\ ask[r].section = ask[q].section /\ ask[r].section \in Sections
       => \A tag \in Clash(ask[r].kind, ask[q].kind) \cup Writes(ask[r].kind, ask[q].kind) :
             <<ask[r].section, tag>> \in overlap

\* Where no two requests were made at once, what findPending saw is so.
PendingAlone(s) ==
    Clean(s, {"request"}) =>
       /\ \A i, j \in Pending(s) : i = j
       /\ \A r \in Slots : pc[r] = "createChange" /\ ask[r].section = s => Pending(s) = {}

\* Where no two decisions were made at once and none broke off, a form that was
\* written is approved or about to be.
Deciding(r) == ask[r].kind = "decide" /\ pc[r] # "findChange"
DecidedAlone(i) ==
    Clean(change[i].section, {"decide", "failed"}) =>
       /\ i \in applied =>
             \/ change[i].status = "APPROVED"
             \/ \E r \in Slots : ask[r].id = i /\ pc[r] \in {"after", "markApproved"}
       /\ \A r \in Slots :
             ask[r].id = i /\ Deciding(r) /\ pc[r] # "auditApplied" =>
                change[i].status = "PENDING"

\* Where writes did not overlap and none broke off, how far the one under way has
\* come: what it has read, and what the audit log says.
Writing(r, s) == ask[r].section = s /\ ask[r].kind \in {"decide", "direct"}
Told(s, v) == said[s] = v /\ s \notin saidGap
Midway(r, s) ==
    /\ pc[r] \in {"findChange", "rejectChange", "before", "apply"} =>
          Told(s, Masked(profile[s]))
    /\ pc[r] = "apply" => ask[r].before = profile[s]
    /\ pc[r] \in {"after", "markApproved", "record", "auditApplied"} =>
          Told(s, Masked(ask[r].before))
    /\ pc[r] \in {"markApproved", "record", "auditApplied"} => ask[r].after = profile[s]
Explained(s) ==
    Clean(s, {"apply", "failed"}) =>
       /\ \A r \in Slots : Writing(r, s) => Midway(r, s)
       /\ (\A r \in Slots : ~Writing(r, s)) => Told(s, Masked(profile[s]))

\* A column no two forms met in: it holds what the one form written and not
\* approved yet gave it, or else what was approved.
Holds(r, s, f) == ask[r].section = s /\ f \in Unapproved(r)
Merged(s, f) ==
    Clean(s, {f}) =>
       /\ \A r, q \in Slots : Holds(r, s, f) /\ Holds(q, s, f) => r = q
       /\ \A r \in Slots : Holds(r, s, f) => FieldOf(profile[s], f) = FieldOf(ask[r].value, f)
       /\ (\A r \in Slots : ~Holds(r, s, f)) =>
             FieldOf(profile[s], f) = FieldOf(latest[s], f)

ProfileIInv ==
    /\ ProfileTypeOK
    /\ \A r \in Slots : Suits(pc[r], ask[r])
    /\ ChangesAgree
    /\ Tagged
    /\ \A s \in Sections : PendingAlone(s) /\ Explained(s)
    /\ \A s \in Sections : \A f \in Columns[s[2]] : Merged(s, f)
    /\ \A i \in ChangeIds : DecidedAlone(i)

\* A set of naturals has a least member, whenever it has one.
LEMMA Least ==
  ASSUME NEW S \in SUBSET Nat, S # {}
  PROVE  \E m \in S : \A n \in S : m <= n
  <1>1. IsWellFoundedOn({ss \in Nat \X Nat : ss[1] < ss[2]}, Nat)
    BY NatLessThanWellFounded DEF OpToRel
  <1>2. PICK m \in S :
           \A n \in S : ~(<<n, m>> \in {ss \in Nat \X Nat : ss[1] < ss[2]})
    BY <1>1, WFMin
  <1>3. \A n \in S : ~(n < m)
    BY <1>2
  <1>4. QED
    BY <1>3

\* Slot r goes to label l, asked x: what every step of an account does.
Moves(r, l, x) ==
    pc' = [pc EXCEPT ![r] = l] /\ req' = [req EXCEPT ![r] = x]

LEMMA MovesOnly ==
  ASSUME AccountsTypeOK, NEW r \in Slots, NEW l \in Labels, NEW x \in Asked,
         Moves(r, l, x)
  PROVE  /\ pc' \in [Slots -> Labels] /\ pc'[r] = l
         /\ req' \in [Slots -> Asked] /\ req'[r] = x
         /\ \A q \in Slots : q # r => pc'[q] = pc[q] /\ req'[q] = req[q]
  BY DEF AccountsTypeOK, Moves

\* Rows of a sheet are numbered, and the loop takes the next one.
LEMMA SheetRows ==
  ASSUME NEW sheet \in Sheets
  PROVE  /\ DataRows(sheet) \subseteq Nat \ {0} /\ DataRows(sheet) \subseteq DOMAIN sheet
         /\ ParseErrors(sheet) \subseteq DataRows(sheet)
         /\ \A i \in ValidRows(sheet) : sheet[i] \in Emails \cup {"noDepartment"}
  <1>1. sheet \in Seq(Emails \cup {"empty", "invalid", "noDepartment"})
    BY FormAssumption
  <1>2. DOMAIN sheet \subseteq Nat \ {0}
    BY <1>1
  <1>3. \A i \in DOMAIN sheet : sheet[i] \in Emails \cup {"empty", "invalid", "noDepartment"}
    BY <1>1
  <1>4. QED
    BY <1>2, <1>3 DEF DataRows, ParseErrors, ValidRows

Onward(x) == [x EXCEPT !.row = CHOOSE i \in RowsAfter(x.sheet, x.row) :
                                 \A j \in RowsAfter(x.sheet, x.row) : i <= j,
                       !.user = None,
                       !.email = x.sheet[CHOOSE i \in RowsAfter(x.sheet, x.row) :
                                           \A j \in RowsAfter(x.sheet, x.row) : i <= j]]

LEMMA OnwardRow ==
  ASSUME NEW x \in Asked, x.sheet \in Sheets, RowsAfter(x.sheet, x.row) # {}
  PROVE  /\ Onward(x) \in Asked
         /\ Onward(x) = [x EXCEPT !.row = Onward(x).row, !.user = None,
                                  !.email = Onward(x).email]
         /\ Onward(x).row \in RowsAfter(x.sheet, x.row)
         /\ \A j \in RowsAfter(x.sheet, x.row) : Onward(x).row <= j
         /\ Onward(x).email \in Emails \cup {"noDepartment"}
  <1> DEFINE left == RowsAfter(x.sheet, x.row)
             next == CHOOSE i \in left : \A j \in left : i <= j
  <1>1. left \in SUBSET Nat /\ left # {} /\ left \subseteq ValidRows(x.sheet)
    BY SheetRows DEF RowsAfter, ValidRows
  <1>2. \E m \in left : \A n \in left : m <= n
    <2> HIDE DEF left
    <2> QED BY <1>1, Least
  <1>3. next \in left /\ \A j \in left : next <= j
    <2> HIDE DEF left
    <2> QED BY <1>2
  <1>4. Onward(x) = [x EXCEPT !.row = next, !.user = None, !.email = x.sheet[next]]
    BY DEF Onward
  <1>5. x.sheet[next] \in Emails \cup {"noDepartment"} /\ next \in Nat
    BY <1>1, <1>3, SheetRows
  <1> HIDE DEF next, left
  <1>6. QED
    BY <1>1, <1>3, <1>4, <1>5 DEF left, Asked

LEMMA NextRowMoves ==
  ASSUME AccountsTypeOK, NEW r \in Slots, NEW x \in Asked, x.sheet \in Sheets,
         NextRow(r, x)
  PROVE  \/ /\ RowsAfter(x.sheet, x.row) = {}
            /\ Moves(r, "idle", [x EXCEPT !.user = None])
         \/ /\ RowsAfter(x.sheet, x.row) # {}
            /\ Moves(r, "findEmail", Onward(x))
  BY DEF NextRow, Onward, Moves, GoTo

----------------------------------------------------------------------------
(* The loop of an import.                                                  *)

\* What an import has to show when it is through with its row.
RowDone(x, invited) ==
    /\ x.created \cup x.errors =
          {i \in DataRows(x.sheet) : i \in ParseErrors(x.sheet) \/ i <= x.row}
    /\ x.created \cap x.errors = {}
    /\ \A i \in x.created : \E u \in invited : <<i, u>> \in x.inserted
    /\ \A p \in x.inserted : /\ p[1] \in x.errors => p[1] \in x.broke
                             /\ p[1] <= x.row

LEMMA NextRowImported ==
  ASSUME NEW x \in Asked, x.kind = "import", x.sheet \in Sheets, NEW invited,
         RowDone(x, invited)
  PROVE  /\ RowsAfter(x.sheet, x.row) = {} =>
              Imported("idle", [x EXCEPT !.user = None], invited)
         /\ RowsAfter(x.sheet, x.row) # {} => Imported("findEmail", Onward(x), invited)
  <1>1. /\ DataRows(x.sheet) \subseteq Nat /\ x.row \in Nat
        /\ x.inserted \subseteq Nat \X Users
    BY SheetRows DEF Asked
  <1>2. ASSUME RowsAfter(x.sheet, x.row) = {}
        PROVE  Imported("idle", [x EXCEPT !.user = None], invited)
    <2> DEFINE y == [x EXCEPT !.user = None]
    <2>1. /\ y.kind = x.kind /\ y.sheet = x.sheet /\ y.row = x.row /\ y.created = x.created
          /\ y.errors = x.errors /\ y.broke = x.broke /\ y.inserted = x.inserted
      BY DEF Asked
    <2> HIDE DEF y
    <2>2. Through("idle", y) =
             {i \in DataRows(x.sheet) : i \in ParseErrors(x.sheet) \/ i <= x.row}
      BY <1>1, <1>2, <2>1 DEF Through, RowsAfter, ValidRows
    <2>3. Imported("idle", y, invited)
      BY <2>1, <2>2 DEF Imported, RowDone
    <2> QED BY <2>3 DEF y
  <1>3. ASSUME RowsAfter(x.sheet, x.row) # {}
        PROVE  Imported("findEmail", Onward(x), invited)
    <2> DEFINE y == Onward(x)
    <2>1. /\ y.kind = x.kind /\ y.sheet = x.sheet /\ y.created = x.created
          /\ y.errors = x.errors /\ y.broke = x.broke /\ y.inserted = x.inserted
      <3>1. PICK n, e : y = [x EXCEPT !.row = n, !.user = None, !.email = e]
        BY <1>3, OnwardRow
      <3> QED BY <3>1 DEF Asked
    <2>2. /\ y.row \in RowsAfter(x.sheet, x.row)
          /\ \A j \in RowsAfter(x.sheet, x.row) : y.row <= j
      BY <1>3, OnwardRow
    <2> HIDE DEF y
    <2>3. y.row \in ValidRows(x.sheet) /\ y.row > x.row /\ y.row \in Nat
      BY <1>1, <2>2 DEF RowsAfter, ValidRows
    <2>4. Through("findEmail", y) =
             {i \in DataRows(x.sheet) : i \in ParseErrors(x.sheet) \/ i <= x.row}
      <3>1. ASSUME NEW i \in DataRows(x.sheet), i \notin ParseErrors(x.sheet)
            PROVE  i < y.row <=> i <= x.row
        BY <1>1, <2>2, <2>3, <3>1 DEF RowsAfter, ValidRows
      <3> QED BY <2>1, <3>1 DEF Through
    <2>5. \A p \in x.inserted : p[1] <= y.row /\ p[1] # y.row
      BY <1>1, <2>3 DEF RowDone
    <2>6. Imported("findEmail", y, invited)
      BY <2>1, <2>3, <2>4, <2>5 DEF Imported, RowDone
    <2> QED BY <2>6 DEF y
  <1>4. QED
    BY <1>2, <1>3

\* The row of an import that is under way is not in the report yet.
LEMMA RowOpen ==
  ASSUME NEW x \in Asked, x.kind = "import", x.sheet \in Sheets, NEW l, l # "idle",
         NEW invited, Imported(l, x, invited)
  PROVE  /\ x.row \notin x.created \cup x.errors
         /\ x.created \cup x.errors \cup {x.row} =
              {i \in DataRows(x.sheet) : i \in ParseErrors(x.sheet) \/ i <= x.row}
  BY SheetRows DEF Imported, Through, ValidRows, Asked

\* Its row was created: there is an account with a link.
LEMMA RowCreated ==
  ASSUME NEW x \in Asked, x.kind = "import", x.sheet \in Sheets, NEW l, l # "idle",
         NEW invited, Imported(l, x, invited), l = "auditCreated"
  PROVE  RowDone([x EXCEPT !.created = @ \cup {x.row}], invited)
  <1> DEFINE y == [x EXCEPT !.created = @ \cup {x.row}]
  <1>1. /\ y.sheet = x.sheet /\ y.row = x.row /\ y.created = x.created \cup {x.row}
        /\ y.errors = x.errors /\ y.broke = x.broke /\ y.inserted = x.inserted
    BY DEF Asked
  <1> HIDE DEF y
  <1>2. y.created \cup y.errors = x.created \cup x.errors \cup {x.row}
    BY <1>1
  <1>3. y.created \cap y.errors = {}
    BY <1>1, RowOpen DEF Imported
  <1>4. ASSUME NEW i \in y.created
        PROVE  \E u \in invited : <<i, u>> \in y.inserted
    BY <1>1 DEF Imported
  <1>5. RowDone(y, invited)
    BY <1>1, <1>2, <1>3, <1>4, RowOpen DEF RowDone, Imported
  <1>6. QED
    BY <1>5 DEF y

\* Its row failed: it left no account, or broke off.
LEMMA RowFailed ==
  ASSUME NEW x \in Asked, x.kind = "import", x.sheet \in Sheets, NEW l, l # "idle",
         NEW invited, Imported(l, x, invited), NEW broken \in SUBSET Nat,
         l \in {"findEmail", "insert"} \/ x.row \in broken
  PROVE  RowDone([x EXCEPT !.errors = @ \cup {x.row}, !.broke = @ \cup broken], invited)
  <1> DEFINE y == [x EXCEPT !.errors = @ \cup {x.row}, !.broke = @ \cup broken]
  <1>1. /\ y.sheet = x.sheet /\ y.row = x.row /\ y.errors = x.errors \cup {x.row}
        /\ y.created = x.created /\ y.broke = x.broke \cup broken
        /\ y.inserted = x.inserted
    BY DEF Asked
  <1> HIDE DEF y
  <1>2. y.created \cup y.errors = x.created \cup x.errors \cup {x.row}
    BY <1>1
  <1>3. y.created \cap y.errors = {}
    BY <1>1, RowOpen DEF Imported
  <1>4. ASSUME NEW p \in y.inserted, p[1] \in y.errors
        PROVE  p[1] \in y.broke
    BY <1>1, <1>4 DEF Imported
  <1>5. RowDone(y, invited)
    BY <1>1, <1>2, <1>3, <1>4, RowOpen DEF RowDone, Imported
  <1>6. QED
    BY <1>5 DEF y

----------------------------------------------------------------------------
(* What a step of one slot has to show for the invariant of the accounts.  *)

\* For an account that is not muddled: only the request about it touches it, or
\* the one that creates it, and the audit log follows.
Accounted(r, l, x, u) ==
    /\ u \notin gap'
    /\ \/ told'[u] = told[u] /\ user'[u] = user[u]
       \/ Handles(r, u)
       \/ u \notin Rows
    /\ x.user = u /\ x.kind # "forgot" =>
          /\ Explains(l, x, told'[u], user'[u])
          /\ Handles(r, u) \/ \A q \in Slots : ~Handles(q, u)
    /\ ~(x.user = u /\ x.kind # "forgot") =>
          \/ told'[u] = user'[u]
          \/ ~Handles(r, u) /\ told'[u] = told[u] /\ user'[u] = user[u]
Sound(r, l, x) ==
    /\ UNCHANGED requireRegistrationApproval
    /\ user' \in [Users -> UserRow \cup {NoUser}] /\ told' \in [Users -> ToldRow]
    /\ links \subseteq links' /\ links' \subseteq Users
    /\ Rows \subseteq Rows' /\ muddled \subseteq muddled' /\ muddled' \subseteq Rows'
    /\ Fits(l, x) /\ x.user \in Rows' \cup {None}
    /\ Imported(l, x, Rows' \cap links')
    /\ \A u \in Users \ muddled' : Accounted(r, l, x, u)

LEMMA ImportedGrows ==
  ASSUME NEW l, NEW x, NEW S, NEW T, S \subseteq T, Imported(l, x, S)
  PROVE  Imported(l, x, T)
  BY DEF Imported

LEMMA SoundIInv ==
  ASSUME AccountIInv, NEW r \in Slots, NEW l \in Labels, NEW x \in Asked,
         Moves(r, l, x), Sound(r, l, x)
  PROVE  AccountIInv'
  <1>1. /\ pc' \in [Slots -> Labels] /\ pc'[r] = l
        /\ req' \in [Slots -> Asked] /\ req'[r] = x
        /\ \A q \in Slots : q # r => pc'[q] = pc[q] /\ req'[q] = req[q]
    BY MovesOnly DEF AccountIInv
  <1>2. AccountsTypeOK'
    BY <1>1 DEF AccountIInv, AccountsTypeOK, Sound
  <1>3. \A q \in Slots : Fits(pc'[q], req'[q])
    BY <1>1 DEF AccountIInv, Sound
  <1>4. ASSUME NEW q \in Slots
        PROVE  Imported(pc'[q], req'[q], Rows' \cap links')
    <2>1. Rows \cap links \subseteq Rows' \cap links'
      BY DEF Sound
    <2>2. Imported(pc[q], req[q], Rows \cap links)
      BY DEF AccountIInv
    <2>3. CASE q = r
      BY <1>1, <2>3 DEF Sound
    <2>4. CASE q # r
      BY <1>1, <2>1, <2>2, <2>4, ImportedGrows
    <2>5. QED
      BY <2>3, <2>4
  <1>5. ASSUME NEW u \in Users, u \notin muddled'
        PROVE  /\ \A p, q \in Slots : Handles(p, u)' /\ Handles(q, u)' => p = q
               /\ u \notin gap'
               /\ \A q \in Slots : Handles(q, u)' =>
                     Explains(pc'[q], req'[q], told'[u], user'[u])
               /\ (\A q \in Slots : ~Handles(q, u)') => told'[u] = user'[u]
    <2>1. Accounted(r, l, x, u) /\ u \notin muddled
      BY <1>5 DEF Sound
    <2>2. \A q \in Slots : q # r => (Handles(q, u)' <=> Handles(q, u))
      BY <1>1 DEF Handles
    <2>3. Handles(r, u)' <=> x.user = u /\ x.kind # "forgot"
      BY <1>1 DEF Handles
    <2>4. \A p, q \in Slots : Handles(p, u) /\ Handles(q, u) => p = q
      BY <2>1 DEF AccountIInv, Apart
    <2>5. /\ \A q \in Slots : Handles(q, u) => Explains(pc[q], req[q], told[u], user[u])
          /\ (\A q \in Slots : ~Handles(q, u)) => told[u] = user[u]
      BY <2>1 DEF AccountIInv, Trail
    <2>6. u \notin Rows => \A q \in Slots : ~Handles(q, u)
      BY AccountAssumption DEF AccountIInv, AccountsTypeOK, Handles
    <2>7. \A p, q \in Slots : Handles(p, u)' /\ Handles(q, u)' => p = q
      BY <2>1, <2>2, <2>3, <2>4 DEF Accounted
    <2>8. ASSUME NEW q \in Slots, Handles(q, u)'
          PROVE  Explains(pc'[q], req'[q], told'[u], user'[u])
      <3>1. CASE q = r
        BY <1>1, <2>1, <2>3, <2>8, <3>1 DEF Accounted
      <3>2. CASE q # r
        <4>1. Handles(q, u) /\ ~Handles(r, u)
          BY <2>2, <2>4, <2>8, <3>2
        <4>2. told'[u] = told[u] /\ user'[u] = user[u]
          BY <2>1, <2>6, <4>1 DEF Accounted
        <4> QED BY <1>1, <2>5, <3>2, <4>1, <4>2
      <3> QED BY <3>1, <3>2
    <2>9. ASSUME \A q \in Slots : ~Handles(q, u)'
          PROVE  told'[u] = user'[u]
      <3>1. CASE told'[u] = user'[u]
        BY <3>1
      <3>2. CASE ~Handles(r, u) /\ told'[u] = told[u] /\ user'[u] = user[u]
        BY <2>2, <2>5, <2>9, <3>2
      <3> QED BY <2>1, <2>3, <2>9, <3>1, <3>2 DEF Accounted
    <2>10. QED
      BY <2>1, <2>7, <2>8, <2>9 DEF Accounted
  <1>6. ASSUME NEW u \in Users
        PROVE  Apart(u)' /\ Trail(u)'
    <2>1. \A k, y, b, w : Explains(k, y, b, w)' <=> Explains(k, y, b, w)
      BY DEF Sound, Explains, FirstStatus
    <2>2. QED
      BY <1>5, <2>1 DEF Apart, Trail
  <1>7. QED
    BY <1>2, <1>3, <1>4, <1>6 DEF AccountIInv

LEMMA NotAskedType ==
  /\ NotAsked \in Asked /\ NotAsked.user = None /\ NotAsked.kind = "none"
  BY DEF NotAsked, Asked, Creating

\* A request that is through leaves its slot, or moves on to the next row.
Ended(r, invited) ==
    \E l \in {"idle", "findEmail"}, x \in Asked :
        /\ Moves(r, l, x)
        /\ x.user = None
        /\ Fits(l, x)
        /\ Imported(l, x, invited)

LEMMA EndsRow ==
  ASSUME AccountsTypeOK, NEW r \in Slots, NEW invited, NEW x \in Asked,
         x.kind = "import", x.sheet \in Sheets, x.role \in Roles,
         NextRow(r, x), RowDone(x, invited)
  PROVE  Ended(r, invited)
  <1>1. CASE RowsAfter(x.sheet, x.row) = {}
    <2> DEFINE y == [x EXCEPT !.user = None]
    <2>1. Moves(r, "idle", y)
      BY <1>1, NextRowMoves
    <2>2. /\ y \in Asked /\ y.user = None /\ y.kind = "import" /\ y.role \in Roles
          /\ y.sheet \in Sheets
      BY DEF Asked
    <2>3. Imported("idle", y, invited)
      BY <1>1, NextRowImported
    <2> HIDE DEF y
    <2>4. Fits("idle", y)
      BY <2>2 DEF Fits, Subjectless, ProfileLabels, Creating
    <2> QED BY <2>1, <2>2, <2>3, <2>4 DEF Ended
  <1>2. CASE RowsAfter(x.sheet, x.row) # {}
    <2> DEFINE y == Onward(x)
    <2>1. Moves(r, "findEmail", y)
      BY <1>2, NextRowMoves
    <2>2. /\ y \in Asked /\ y.user = None /\ y.kind = "import" /\ y.role \in Roles
          /\ y.sheet \in Sheets /\ y.email \in Emails \cup {"noDepartment"}
      <3>1. PICK n, e : y = [x EXCEPT !.row = n, !.user = None, !.email = e]
        BY <1>2, OnwardRow
      <3> QED BY <1>2, <3>1, OnwardRow DEF Asked
    <2>3. Imported("findEmail", y, invited)
      BY <1>2, NextRowImported
    <2> HIDE DEF y
    <2>4. Fits("findEmail", y)
      BY <2>2 DEF Fits, Subjectless, ProfileLabels, Creating
    <2> QED BY <2>1, <2>2, <2>3, <2>4 DEF Ended
  <1>3. QED
    BY <1>1, <1>2

LEMMA EndsOther ==
  ASSUME NEW r \in Slots, NEW invited, Moves(r, "idle", NotAsked)
  PROVE  Ended(r, invited)
  <1>1. /\ NotAsked \in Asked /\ NotAsked.user = None /\ NotAsked.kind = "none"
    BY NotAskedType
  <1>2. Fits("idle", NotAsked) /\ Imported("idle", NotAsked, invited)
    BY <1>1 DEF Fits, Subjectless, ProfileLabels, Creating, Imported
  <1>3. QED
    BY <1>1, <1>2 DEF Ended

LEMMA ThrowEnds ==
  ASSUME AccountIInv, NEW r \in Slots, pc[r] # "idle", NEW broken \in SUBSET Nat,
         Throw(r, broken), NEW invited, Rows \cap links \subseteq invited,
         pc[r] \in {"findEmail", "insert"} \/ req[r].row \in broken
            \/ req[r].kind # "import"
  PROVE  Ended(r, invited)
  <1>1. CASE req[r].kind = "import"
    <2> DEFINE x == [req[r] EXCEPT !.errors = @ \cup {req[r].row}, !.broke = @ \cup broken]
    <2>1. /\ req[r] \in Asked /\ Fits(pc[r], req[r])
          /\ Imported(pc[r], req[r], invited)
      BY ImportedGrows DEF AccountIInv, AccountsTypeOK
    <2>2. req[r].sheet \in Sheets /\ req[r].role \in Roles
      BY <1>1, <2>1 DEF Fits, Creating
    <2>3. RowDone(x, invited)
      BY <1>1, <2>1, <2>2, RowFailed
    <2>4. /\ x \in Asked /\ x.kind = "import" /\ x.sheet \in Sheets
          /\ x.role \in Roles
      BY <1>1, <2>1, <2>2 DEF Asked
    <2>5. NextRow(r, x)
      BY <1>1 DEF Throw
    <2> HIDE DEF x
    <2> QED BY <2>3, <2>4, <2>5, EndsRow DEF AccountIInv
  <1>2. CASE req[r].kind # "import"
    BY <1>2, EndsOther DEF Throw, Moves, GoTo
  <1>3. QED
    BY <1>1, <1>2

LEMMA ReturnEnds ==
  ASSUME AccountIInv, NEW r \in Slots, pc[r] # "idle",
         Return(r), NEW invited, Rows \cap links \subseteq invited,
         req[r].kind = "import" => pc[r] = "auditCreated"
  PROVE  Ended(r, invited)
  <1>1. CASE req[r].kind = "import"
    <2> DEFINE x == [req[r] EXCEPT !.created = @ \cup {req[r].row}]
    <2>1. /\ req[r] \in Asked /\ Fits(pc[r], req[r])
          /\ Imported(pc[r], req[r], invited)
      BY ImportedGrows DEF AccountIInv, AccountsTypeOK
    <2>2. req[r].sheet \in Sheets /\ req[r].role \in Roles
      BY <1>1, <2>1 DEF Fits, Creating
    <2>3. RowDone(x, invited)
      BY <1>1, <2>1, <2>2, RowCreated
    <2>4. /\ x \in Asked /\ x.kind = "import" /\ x.sheet \in Sheets
          /\ x.role \in Roles
      BY <1>1, <2>1, <2>2 DEF Asked
    <2>5. NextRow(r, x)
      BY <1>1 DEF Return
    <2> HIDE DEF x
    <2> QED BY <2>3, <2>4, <2>5, EndsRow DEF AccountIInv
  <1>2. CASE req[r].kind # "import"
    BY <1>2, EndsOther DEF Return, Moves, GoTo
  <1>3. QED
    BY <1>1, <1>2

\* An account nobody handles, or whose request ends as the log says it is.
LEMMA EndedSound ==
  ASSUME AccountIInv, NEW r \in Slots, Ended(r, Rows' \cap links'),
         UNCHANGED requireRegistrationApproval,
         user' \in [Users -> UserRow \cup {NoUser}], told' \in [Users -> ToldRow],
         links \subseteq links', links' \subseteq Users, Rows \subseteq Rows',
         muddled \subseteq muddled', muddled' \subseteq Rows',
         \A u \in Users \ muddled' :
            /\ u \notin gap'
            /\ \/ told'[u] = told[u] /\ user'[u] = user[u]
               \/ Handles(r, u)
            /\ told'[u] = user'[u] \/ ~Handles(r, u)
  PROVE  AccountIInv'
  <1>1. PICK l \in {"idle", "findEmail"}, x \in Asked :
           /\ Moves(r, l, x)
           /\ x.user = None
           /\ Fits(l, x)
           /\ Imported(l, x, Rows' \cap links')
    BY DEF Ended
  <1>2. None \notin Users
    BY AccountAssumption
  <1>3. \A u \in Users \ muddled' : Accounted(r, l, x, u)
    BY <1>1, <1>2 DEF Accounted
  <1>4. Sound(r, l, x) /\ l \in Labels
    BY <1>1, <1>3 DEF Sound, Labels, AccountLabels
  <1>5. QED
    BY <1>1, <1>4, SoundIInv

\* What the invariant says of one slot and the account it is about.
LEMMA SlotFacts ==
  ASSUME AccountIInv, NEW r \in Slots
  PROVE  /\ pc[r] \in Labels /\ req[r] \in Asked
         /\ Fits(pc[r], req[r]) /\ Imported(pc[r], req[r], Rows \cap links)
         /\ req[r].user \in Rows \cup {None}
         /\ pc[r] \in Subjectless => \A u \in Users : ~Handles(r, u)
         /\ \A u \in Users \ muddled :
               /\ u \notin gap
               /\ Handles(r, u) => /\ Explains(pc[r], req[r], told[u], user[u])
                                   /\ \A q \in Slots : Handles(q, u) => q = r
  <1>1. /\ pc[r] \in Labels /\ req[r] \in Asked
        /\ Fits(pc[r], req[r]) /\ Imported(pc[r], req[r], Rows \cap links)
        /\ req[r].user \in Rows \cup {None}
    BY DEF AccountIInv, AccountsTypeOK
  <1>2. pc[r] \in Subjectless => \A u \in Users : ~Handles(r, u)
    BY <1>1, AccountAssumption DEF Fits, Handles
  <1>3. QED
    BY <1>1, <1>2 DEF AccountIInv, Apart, Trail

\* A step that only reads, or writes what the log says already.
LEMMA ReadSound ==
  ASSUME AccountIInv, NEW r \in Slots, UNCHANGED <<requireRegistrationApproval, user,
            told, gap, muddled>>, links \subseteq links', links' \subseteq Users,
         NEW l \in Labels, NEW x \in Asked, Moves(r, l, x),
         Fits(l, x), x.user = req[r].user, x.kind = req[r].kind,
         Imported(l, x, Rows \cap links'),
         \A u \in Users \ muddled : Handles(r, u) => Explains(l, x, told[u], user[u])
  PROVE  AccountIInv'
  <1>1. Rows' = Rows
    BY DEF Rows
  <1>2. req[r].user \in Rows \cup {None}
    BY SlotFacts
  <1>3. \A u \in Users : Handles(r, u) <=> x.user = u /\ x.kind # "forgot"
    BY DEF Handles
  <1>4. \A u \in Users \ muddled' : Accounted(r, l, x, u)
    BY <1>3, SlotFacts DEF Accounted
  <1>5. Sound(r, l, x)
    BY <1>1, <1>2, <1>4 DEF Sound, AccountIInv, AccountsTypeOK
  <1>6. QED
    BY <1>5, SoundIInv

\* A slot that was about no account begins a request, or ends one about a
\* section.
LEMMA AskSound ==
  ASSUME AccountIInv, NEW r \in Slots, UNCHANGED accounts, pc[r] \in Subjectless,
         muddled \subseteq muddled', muddled' \subseteq Rows,
         NEW l \in Labels, NEW x \in Asked, Moves(r, l, x),
         Fits(l, x), x.user \in Rows \cup {None}, x.kind # "import",
         \A u \in Users \ muddled' : x.user = u /\ x.kind # "forgot" =>
            /\ \A q \in Slots : ~Handles(q, u)
            /\ Explains(l, x, told[u], user[u])
  PROVE  AccountIInv'
  <1>1. Rows' = Rows
    BY DEF Rows, accounts
  <1>2. \A u \in Users : ~Handles(r, u)
    BY SlotFacts
  <1>3. \A u \in Users \ muddled' : Accounted(r, l, x, u)
    BY <1>2, SlotFacts DEF Accounted, accounts
  <1>4. Imported(l, x, Rows' \cap links')
    BY DEF Imported
  <1>5. Sound(r, l, x)
    BY <1>1, <1>3, <1>4 DEF Sound, AccountIInv, AccountsTypeOK, accounts
  <1>6. QED
    BY <1>5, SoundIInv

LEMMA AskCreateIInv ==
  ASSUME AccountIInv, NEW r \in Slots, AskCreate(r)
  PROVE  AccountIInv'
  <1>1. PICK kind \in {"register", "create"}, e \in Emails, role \in Roles :
           req' = [req EXCEPT ![r] =
                 [NotAsked EXCEPT !.kind = kind, !.email = e, !.role = role]]
    BY DEF AskCreate
  <1> DEFINE x == [NotAsked EXCEPT !.kind = kind, !.email = e, !.role = role]
  <1>2. /\ x \in Asked /\ x.kind = kind /\ x.email = e /\ x.role = role
        /\ x.user = None
    BY DEF Asked, NotAsked, Creating
  <1>3. /\ Moves(r, "findEmail", x) /\ UNCHANGED <<accounts, muddled>>
        /\ pc[r] = "idle"
    BY <1>1 DEF AskCreate, Take, GoTo, Moves
  <1> HIDE DEF x
  <1>4. Fits("findEmail", x)
    BY <1>2 DEF Fits, Subjectless, ProfileLabels, Creating
  <1>5. "findEmail" \in Labels /\ x.kind # "import" /\ None \notin Users
    BY <1>2, AccountAssumption DEF Labels, AccountLabels
  <1>6. QED
    BY <1>2, <1>3, <1>4, <1>5, AskSound DEF Subjectless, AccountIInv, AccountsTypeOK

LEMMA AskImportIInv ==
  ASSUME AccountIInv, NEW r \in Slots, AskImport(r)
  PROVE  AccountIInv'
  <1>1. PICK sheet \in Sheets :
          NextRow(r, [NotAsked EXCEPT !.kind = "import", !.role = "EMPLOYEE",
                                      !.sheet = sheet, !.errors = ParseErrors(sheet)])
    BY DEF AskImport
  <1> DEFINE x == [NotAsked EXCEPT !.kind = "import", !.role = "EMPLOYEE",
                                   !.sheet = sheet, !.errors = ParseErrors(sheet)]
  <1>2. UNCHANGED <<accounts, muddled>> /\ pc[r] = "idle"
    BY DEF AskImport, Take
  <1>3. ParseErrors(sheet) \subseteq Nat \ {0} /\ DataRows(sheet) \subseteq Nat \ {0}
    BY SheetRows
  <1>4. /\ x \in Asked /\ x.kind = "import" /\ x.role \in Roles /\ x.sheet = sheet
        /\ x.errors = ParseErrors(sheet) /\ x.created = {} /\ x.inserted = {}
        /\ x.row = 0
    BY <1>3, AccountAssumption DEF Asked, NotAsked, Creating
  <1>5. NextRow(r, x)
    BY <1>1
  <1> HIDE DEF x
  <1>6. RowDone(x, Rows' \cap links')
    BY <1>3, <1>4, SheetRows DEF RowDone
  <1>7. Ended(r, Rows' \cap links')
    BY <1>4, <1>5, <1>6, EndsRow DEF AccountIInv
  <1>8. Rows' = Rows
    BY <1>2 DEF Rows, accounts
  <1>9. \A u \in Users : ~Handles(r, u)
    BY <1>2, SlotFacts DEF Subjectless
  <1>10. \A u \in Users \ muddled' : u \notin gap'
    BY <1>2, SlotFacts DEF accounts
  <1>11. QED
    BY <1>2, <1>7, <1>8, <1>9, <1>10, EndedSound DEF AccountIInv, AccountsTypeOK, accounts

LEMMA AskChangeIInv ==
  ASSUME AccountIInv, NEW r \in Slots, AskChange(r)
  PROVE  AccountIInv'
  <1>1. PICK u \in Rows :
          /\ \/ \E form \in Changes :
                   req' = [req EXCEPT ![r] =
                       [NotAsked EXCEPT !.kind = "update", !.user = u,
                           !.email = form.email, !.role = form.role,
                           !.status = form.status]]
             \/ \E kind \in {"approve", "reject"} :
                   req' = [req EXCEPT ![r] =
                       [NotAsked EXCEPT !.kind = kind, !.user = u]]
          /\ muddled' = IF About(u) = {} THEN muddled ELSE muddled \cup {u}
    BY DEF AskChange
  <1>2. u \in Users /\ u # None
    BY <1>1, AccountAssumption DEF Rows
  <1>3. PICK x \in Asked : /\ req' = [req EXCEPT ![r] = x]
                           /\ x.user = u
                           /\ x.kind \in {"update", "approve", "reject"}
                           /\ x.kind = "update" => x.email \in Emails \cup {None}
    <2>1. CASE \E form \in Changes :
                   req' = [req EXCEPT ![r] =
                       [NotAsked EXCEPT !.kind = "update", !.user = u,
                           !.email = form.email, !.role = form.role,
                           !.status = form.status]]
      <3>1. PICK form \in Changes :
                   req' = [req EXCEPT ![r] =
                       [NotAsked EXCEPT !.kind = "update", !.user = u,
                           !.email = form.email, !.role = form.role,
                           !.status = form.status]]
        BY <2>1
      <3>2. form \in [email : Emails \cup {None}, role : Roles \cup {None},
                        status : Status \cup {None}]
        BY FormAssumption
      <3> DEFINE x == [NotAsked EXCEPT !.kind = "update", !.user = u,
                           !.email = form.email, !.role = form.role,
                           !.status = form.status]
      <3>a. /\ form.email \in Emails \cup {None} /\ form.role \in Roles \cup {None}
            /\ form.status \in Status \cup {None}
        BY <3>2
      <3>b. x \in Asked
        BY <1>2, <3>a, NotAskedType, ZenonT(40) DEF Asked
      <3>c. x.user = u /\ x.kind = "update" /\ x.email = form.email
        BY NotAskedType DEF Asked
      <3>3. x \in Asked /\ x.user = u /\ x.kind = "update" /\ x.email = form.email
        BY <3>b, <3>c
      <3> QED BY <3>1, <3>2, <3>3
    <2>2. CASE \E kind \in {"approve", "reject"} :
                   req' = [req EXCEPT ![r] =
                       [NotAsked EXCEPT !.kind = kind, !.user = u]]
      <3>1. PICK kind \in {"approve", "reject"} :
                   req' = [req EXCEPT ![r] =
                       [NotAsked EXCEPT !.kind = kind, !.user = u]]
        BY <2>2
      <3> DEFINE x == [NotAsked EXCEPT !.kind = kind, !.user = u]
      <3>2. x \in Asked
        BY <1>2, NotAskedType, ZenonT(40) DEF Asked
      <3>3. x.user = u /\ x.kind = kind
        BY NotAskedType DEF Asked
      <3> QED BY <3>1, <3>2, <3>3
    <2> QED BY <1>1, <2>1, <2>2
  <1>4. /\ Moves(r, "read", x) /\ UNCHANGED accounts /\ pc[r] = "idle"
    BY <1>3 DEF AskChange, Take, GoTo, Moves
  <1>5. Fits("read", x)
    BY <1>2, <1>3 DEF Fits, Subjectless, ProfileLabels, Creating
  <1>6. muddled \subseteq muddled' /\ muddled' \subseteq Rows
    BY <1>1 DEF AccountIInv, AccountsTypeOK
  <1>7. ASSUME u \notin muddled'
        PROVE  /\ \A q \in Slots : ~Handles(q, u)
               /\ Explains("read", x, told[u], user[u])
    <2>1. About(u) = {} /\ u \notin muddled
      BY <1>1, <1>7
    <2>2. ASSUME NEW q \in Slots, Handles(q, u) PROVE FALSE
      <3>1. pc[q] # "idle"
        BY <1>2, <2>2, SlotFacts DEF Subjectless
      <3> QED BY <2>1, <2>2, <3>1 DEF About, Busy, Handles
    <2>3. told[u] = user[u]
      BY <1>2, <2>1, <2>2 DEF AccountIInv, Trail
    <2>4. QED
      BY <2>2, <2>3 DEF Explains
  <1>8. "read" \in Labels /\ x.kind # "import" /\ x.user \in Rows \cup {None}
    BY <1>1, <1>3 DEF Labels, AccountLabels
  <1>9. QED
    BY <1>3, <1>4, <1>5, <1>6, <1>7, <1>8, AskSound DEF Subjectless

LEMMA AskForgotIInv ==
  ASSUME AccountIInv, NEW r \in Slots, AskForgot(r)
  PROVE  AccountIInv'
  <1>1. UNCHANGED <<accounts, muddled>> /\ pc[r] = "idle"
    BY DEF AskForgot, Take
  <1>2. CASE UNCHANGED <<pc, req>>
    BY <1>1, <1>2 DEF accounts, AccountIInv, AccountsTypeOK, Rows, Apart, Trail,
       Handles, Explains, FirstStatus
  <1>3. ASSUME NEW u \in Rows, GoTo(r, "link"),
               req' = [req EXCEPT ![r] = [NotAsked EXCEPT !.kind = "forgot", !.user = u]]
        PROVE  AccountIInv'
    <2> DEFINE x == [NotAsked EXCEPT !.kind = "forgot", !.user = u]
    <2>1. u \in Users /\ u # None
      BY AccountAssumption DEF Rows
    <2>2. x \in Asked /\ x.kind = "forgot" /\ x.user = u
      BY <2>1, NotAskedType DEF Asked
    <2>3. Moves(r, "link", x)
      BY <1>3 DEF Moves, GoTo
    <2> HIDE DEF x
    <2>4. Fits("link", x) /\ "link" \in Labels
      BY <2>1, <2>2 DEF Fits, Subjectless, ProfileLabels, Creating, Labels, AccountLabels
    <2> QED BY <1>1, <2>2, <2>3, <2>4, AskSound DEF Subjectless, AccountIInv, AccountsTypeOK
  <1>4. QED
    BY <1>2, <1>3 DEF AskForgot, Holders

LEMMA FindEmailIInv ==
  ASSUME AccountIInv, NEW r \in Slots, FindEmail(r)
  PROVE  AccountIInv'
  <1>1. UNCHANGED <<accounts, muddled>> /\ pc[r] = "findEmail"
    BY DEF FindEmail
  <1>2. Rows' = Rows /\ \A u \in Users : ~Handles(r, u)
    BY <1>1, SlotFacts DEF accounts, Rows, Subjectless
  <1>3. CASE Throw(r, {})
    <2>1. Ended(r, Rows' \cap links')
      BY <1>1, <1>2, <1>3, ThrowEnds DEF accounts
    <2> QED BY <1>1, <1>2, <2>1, SlotFacts, EndedSound DEF accounts, AccountIInv, AccountsTypeOK
  <1>4. CASE req[r].email # "noDepartment" /\ GoTo(r, "insert") /\ UNCHANGED req
    <2>1. Moves(r, "insert", req[r]) /\ req[r] \in Asked
      BY <1>4 DEF Moves, GoTo, AccountIInv, AccountsTypeOK
    <2>2. Fits("insert", req[r]) /\ "insert" \in Labels
      BY <1>1, <1>4, SlotFacts DEF Fits, Subjectless, ProfileLabels, Creating, Labels, AccountLabels
    <2>3. Imported("insert", req[r], Rows \cap links')
      <3>1. Imported("findEmail", req[r], Rows \cap links) /\ links' = links
        BY <1>1, SlotFacts DEF accounts
      <3>2. Through("insert", req[r]) = Through("findEmail", req[r])
        BY DEF Through
      <3> QED BY <3>1, <3>2 DEF Imported
    <2> QED BY <1>1, <1>2, <2>1, <2>2, <2>3, ReadSound DEF accounts, AccountIInv, AccountsTypeOK
  <1>5. QED
    BY <1>3, <1>4 DEF FindEmail

LEMMA FirstStatusType ==
  ASSUME NEW kind
  PROVE  FirstStatus(kind) \in Status
  BY DEF FirstStatus, Status

LEMMA InsertIInv ==
  ASSUME AccountIInv, NEW r \in Slots, Insert(r)
  PROVE  AccountIInv'
  <1>1. UNCHANGED <<requireRegistrationApproval, links, told, gap, muddled>>
        /\ pc[r] = "insert"
    BY DEF Insert
  <1>2. \A u \in Users : ~Handles(r, u)
    BY <1>1, SlotFacts DEF Subjectless
  <1>3. CASE Throw(r, {}) /\ UNCHANGED user
    <2>1. Rows' = Rows
      BY <1>3 DEF Rows
    <2>2. Ended(r, Rows' \cap links')
      BY <1>1, <1>3, <2>1, ThrowEnds
    <2> QED BY <1>1, <1>2, <1>3, <2>1, <2>2, SlotFacts, EndedSound DEF AccountIInv, AccountsTypeOK
  <1>4. ASSUME NEW u \in Users \ Rows,
               user' = [user EXCEPT ![u] =
                       [email |-> req[r].email, role |-> req[r].role,
                        status |-> FirstStatus(req[r].kind)]],
               req' = [req EXCEPT ![r].user = u,
                                  ![r].inserted = @ \cup {<<req[r].row, u>>}],
               GoTo(r, IF req[r].kind = "register" THEN "auditCreated" ELSE "link")
        PROVE  AccountIInv'
    <2> DEFINE x == [req[r] EXCEPT !.user = u, !.inserted = @ \cup {<<req[r].row, u>>}]
               l == IF req[r].kind = "register" THEN "auditCreated" ELSE "link"
               w == [email |-> req[r].email, role |-> req[r].role,
                     status |-> FirstStatus(req[r].kind)]
    <2>1. /\ req[r] \in Asked /\ Fits("insert", req[r])
          /\ Imported("insert", req[r], Rows \cap links)
      BY <1>1, SlotFacts
    <2>2. /\ x \in Asked /\ x.user = u /\ x.kind = req[r].kind /\ x.email = req[r].email
          /\ x.role = req[r].role /\ x.sheet = req[r].sheet /\ x.row = req[r].row
          /\ x.created = req[r].created /\ x.errors = req[r].errors
          /\ x.broke = req[r].broke
          /\ x.inserted = req[r].inserted \cup {<<req[r].row, u>>}
      <3>1. /\ req[r].inserted \cup {<<req[r].row, u>>} \in SUBSET (Nat \X Users)
            /\ u \in Users \cup {None} /\ req[r] \in Asked
        BY <1>4, <2>1 DEF Asked
      <3>2. x \in Asked
        BY <3>1, ZenonT(40) DEF Asked
      <3>3. /\ x.user = u /\ x.kind = req[r].kind /\ x.email = req[r].email
            /\ x.role = req[r].role /\ x.sheet = req[r].sheet /\ x.row = req[r].row
            /\ x.created = req[r].created /\ x.errors = req[r].errors
            /\ x.broke = req[r].broke
            /\ x.inserted = req[r].inserted \cup {<<req[r].row, u>>}
        BY <3>1 DEF Asked
      <3> QED BY <3>2, <3>3
    <2>3. Moves(r, l, x)
      <3>1. req' = [req EXCEPT ![r] = x]
        BY <1>4, <2>1 DEF AccountIInv, AccountsTypeOK, Asked
      <3> QED BY <1>4, <3>1 DEF Moves, GoTo
    <2>4. w \in UserRow
      BY <2>1, FirstStatusType DEF Fits, UserRow, Creating
    <2>5. w # NoUser
      BY <2>4, AccountAssumption DEF UserRow, NoUser
    <2>6. user' \in [Users -> UserRow \cup {NoUser}]
      BY <1>4, <2>4 DEF AccountIInv, AccountsTypeOK
    <2>7. /\ user'[u] = w /\ \A v \in Users : v # u => user'[v] = user[v]
      BY <1>4 DEF AccountIInv, AccountsTypeOK
    <2>8. Rows' = Rows \cup {u}
      <3> HIDE DEF w
      <3> QED BY <2>5, <2>7 DEF Rows
    <2>9. u # None
      BY <1>4, AccountAssumption
    <2> HIDE DEF x
    <2>10. l \in {"link", "auditCreated"}
      OBVIOUS
    <2>11. Fits(l, x)
      BY <2>1, <2>2, <2>9 DEF Fits, Subjectless, ProfileLabels, Creating
    <2>12. Imported(l, x, Rows' \cap links')
      <3>1. ASSUME req[r].kind = "import" PROVE req[r].sheet \in Sheets
        BY <2>1, <3>1 DEF Fits
      <3>2. \A p \in x.inserted : p \in req[r].inserted \/ p = <<req[r].row, u>>
        BY <2>2
      <3>3. ASSUME req[r].kind = "import" PROVE req[r].row \notin req[r].errors
        BY <2>1, <3>1, <3>3, RowOpen
      <3>4. Rows \cap links \subseteq Rows' \cap links'
        BY <1>1, <2>8
      <3>5. x.row \in Nat
        BY <2>2 DEF Asked
      <3>6. Through(l, x) = Through("insert", req[r])
        BY <2>2 DEF Through
      <3>7. ASSUME x.kind = "import", NEW p \in x.inserted
            PROVE  /\ p[1] \in x.errors => p[1] \in x.broke
                   /\ p[1] <= x.row
        <4>1. CASE p \in req[r].inserted
          BY <2>1, <2>2, <3>7, <4>1 DEF Imported
        <4>2. CASE p = <<req[r].row, u>>
          BY <2>2, <3>3, <3>5, <3>7, <4>2
        <4> QED BY <3>2, <4>1, <4>2
      <3>8. x.kind = "import" => l = "link"
        BY <2>2
      <3>9. ASSUME x.kind = "import", NEW i \in x.created
            PROVE  \E v \in Rows' \cap links' : <<i, v>> \in x.inserted
        <4>1. PICK v \in Rows \cap links : <<i, v>> \in req[r].inserted
          BY <2>1, <2>2, <3>9 DEF Imported
        <4> QED BY <2>2, <3>4, <4>1
      <3>10. <<x.row, x.user>> \in x.inserted
        BY <2>2
      <3> HIDE DEF l
      <3> QED BY <2>1, <2>2, <2>10, <3>6, <3>7, <3>8, <3>9, <3>10 DEF Imported
    <2>13. \A v \in Users \ muddled' : Accounted(r, l, x, v)
      <3>1. ASSUME NEW v \in Users \ muddled', v # u
            PROVE  Accounted(r, l, x, v)
        BY <1>1, <1>2, <2>2, <2>7, <3>1, SlotFacts DEF Accounted
      <3>2. ASSUME u \notin muddled'
            PROVE  Accounted(r, l, x, u)
        <4>1. \A q \in Slots : ~Handles(q, u)
          BY <2>9, SlotFacts DEF Handles
        <4>2. told[u] = user[u] /\ user[u] = NoUser /\ u \notin gap
          BY <1>1, <1>4, <3>2, <4>1 DEF AccountIInv, Trail, Rows
        <4>3. Explains(l, x, told'[u], user'[u])
          BY <1>1, <2>2, <2>7, <2>10, <4>2 DEF Explains
        <4> QED BY <1>1, <1>4, <2>1, <2>2, <4>1, <4>2, <4>3 DEF Accounted, Fits, Creating
      <3> QED BY <3>1, <3>2
    <2>14. Sound(r, l, x)
      <3> HIDE DEF l
      <3> QED BY <1>1, <2>2, <2>6, <2>8, <2>11, <2>12, <2>13 DEF Sound, AccountIInv, AccountsTypeOK
    <2>15. l \in Labels
      BY DEF Labels, AccountLabels
    <2> HIDE DEF l
    <2> QED BY <2>2, <2>3, <2>14, <2>15, SoundIInv
  <1>5. QED
    BY <1>3, <1>4 DEF Insert

\* A slot that is about an account, and changes it or says so.
LEMMA Mine ==
  ASSUME AccountIInv, NEW r \in Slots, pc[r] \notin Subjectless, req[r].kind # "forgot"
  PROVE  /\ req[r].user \in Rows /\ req[r].user \in Users
         /\ user[req[r].user] \in UserRow
         /\ \A v \in Users : Handles(r, v) <=> v = req[r].user
  <1>1. req[r].user \in Rows /\ req[r].user \in Users
    BY SlotFacts DEF Fits, Rows
  <1>2. QED
    BY <1>1 DEF Handles, Rows, AccountIInv, AccountsTypeOK

LEMMA LinkIInv ==
  ASSUME AccountIInv, NEW r \in Slots, Link(r)
  PROVE  AccountIInv'
  <1>1. /\ UNCHANGED <<requireRegistrationApproval, user, told, gap, muddled>>
        /\ pc[r] = "link" /\ links' = links \cup {req[r].user}
    BY DEF Link
  <1>2. /\ req[r] \in Asked /\ Fits("link", req[r])
        /\ Imported("link", req[r], Rows \cap links)
    BY <1>1, SlotFacts
  <1>3. Rows' = Rows /\ req[r].user \in Rows /\ Rows \subseteq Users
    BY <1>1, <1>2, SlotFacts DEF Rows, Fits, Subjectless, ProfileLabels
  <1>4. links \subseteq links' /\ links' \subseteq Users
    BY <1>1, <1>3 DEF AccountIInv, AccountsTypeOK
  <1>5. CASE req[r].kind = "forgot" /\ Return(r)
    <2>1. Ended(r, Rows' \cap links')
      BY <1>1, <1>3, <1>4, <1>5, ReturnEnds
    <2>2. \A u \in Users : ~Handles(r, u)
      BY <1>5 DEF Handles
    <2> QED BY <1>1, <1>3, <1>4, <2>1, <2>2, SlotFacts, EndedSound DEF AccountIInv, AccountsTypeOK
  <1>6. CASE req[r].kind # "forgot" /\ GoTo(r, "auditCreated") /\ UNCHANGED req
    <2>1. Moves(r, "auditCreated", req[r]) /\ req[r] \in Asked
      BY <1>6 DEF Moves, GoTo, AccountIInv, AccountsTypeOK
    <2>2. Fits("auditCreated", req[r]) /\ "auditCreated" \in Labels
      BY <1>2, <1>6 DEF Fits, Subjectless, ProfileLabels, Creating, Labels, AccountLabels
    <2>3. Imported("auditCreated", req[r], Rows \cap links')
      <3>1. Imported("link", req[r], Rows \cap links')
        BY <1>2, <1>4, ImportedGrows
      <3>2. Through("auditCreated", req[r]) = Through("link", req[r])
        BY DEF Through
      <3>3. req[r].user \in Rows \cap links'
        BY <1>1, <1>3
      <3> QED BY <3>1, <3>2, <3>3 DEF Imported
    <2>4. \A u \in Users \ muddled : Handles(r, u) =>
             Explains("auditCreated", req[r], told[u], user[u])
      <3>1. \A u \in Users \ muddled : Handles(r, u) =>
               Explains("link", req[r], told[u], user[u])
        BY <1>1, SlotFacts
      <3> QED BY <3>1 DEF Explains
    <2> QED BY <1>1, <1>4, <2>1, <2>2, <2>3, <2>4, ReadSound
  <1>7. QED
    BY <1>5, <1>6 DEF Link

LEMMA AuditCreatedIInv ==
  ASSUME AccountIInv, NEW r \in Slots, AuditCreated(r)
  PROVE  AccountIInv'
  <1> DEFINE u == req[r].user
             w == [email |-> req[r].email, role |-> req[r].role,
                   status |-> FirstStatus(req[r].kind)]
  <1>1. /\ UNCHANGED <<requireRegistrationApproval, user, links, muddled>>
        /\ pc[r] = "auditCreated" /\ Return(r)
        /\ told' = [told EXCEPT ![u] = w]
        /\ gap' = IF told[u] = NoUser THEN gap ELSE gap \cup {u}
    BY DEF AuditCreated
  <1>2. Fits("auditCreated", req[r]) /\ req[r] \in Asked
    BY <1>1, SlotFacts
  <1>3. /\ u \in Users /\ \A v \in Users : Handles(r, v) <=> v = u
    BY <1>1, <1>2, Mine DEF Fits, Subjectless, ProfileLabels, Creating
  <1>4. w \in ToldRow
    BY <1>2, FirstStatusType DEF Fits, ToldRow, Creating
  <1>5. /\ told' \in [Users -> ToldRow] /\ told'[u] = w
        /\ \A v \in Users : v # u => told'[v] = told[v]
    <2> HIDE DEF w
    <2> QED BY <1>1, <1>3, <1>4 DEF AccountIInv, AccountsTypeOK
  <1>6. Rows' = Rows
    BY <1>1 DEF Rows
  <1>7. Ended(r, Rows' \cap links')
    BY <1>1, <1>6, ReturnEnds
  <1>8. ASSUME NEW v \in Users \ muddled'
        PROVE  /\ v \notin gap'
               /\ told'[v] = told[v] \/ Handles(r, v)
               /\ told'[v] = user'[v] \/ ~Handles(r, v)
    <2>1. v \notin gap /\ (Handles(r, v) =>
             Explains("auditCreated", req[r], told[v], user[v]))
      BY <1>1, SlotFacts
    <2> HIDE DEF w
    <2>2. v # u => v \notin gap'
      BY <1>1, <2>1
    <2>3. v = u => told[v] = NoUser /\ user[v] = w
      BY <1>3, <2>1 DEF Explains, w
    <2> QED BY <1>1, <1>3, <1>5, <2>1, <2>2, <2>3
  <1>9. QED
    BY <1>1, <1>5, <1>6, <1>7, <1>8, EndedSound DEF AccountIInv, AccountsTypeOK

LEMMA ReadBeforeIInv ==
  ASSUME AccountIInv, NEW r \in Slots, ReadBefore(r)
  PROVE  AccountIInv'
  <1> DEFINE u == req[r].user
  <1>1. UNCHANGED <<accounts, muddled>> /\ pc[r] = "read"
    BY DEF ReadBefore
  <1>2. Fits("read", req[r]) /\ req[r] \in Asked /\ Imported("read", req[r], Rows \cap links)
    BY <1>1, SlotFacts
  <1>3. /\ u \in Users /\ user[u] \in UserRow
        /\ \A v \in Users : Handles(r, v) <=> v = u
    BY <1>1, <1>2, Mine DEF Fits, Subjectless, ProfileLabels
  <1>4. u \notin muddled => told[u] = user[u]
    <2>1. u \notin muddled => Explains("read", req[r], told[u], user[u])
      BY <1>1, <1>3, SlotFacts
    <2>2. QED
      BY <2>1 DEF Explains
  <1>5. Rows' = Rows
    BY <1>1 DEF Rows, accounts
  <1>6. CASE Throw(r, {})
    <2>1. Ended(r, Rows' \cap links')
      BY <1>1, <1>2, <1>5, <1>6, ThrowEnds DEF accounts, Fits
    <2>3. \A v \in Users \ muddled' :
             /\ v \notin gap'
             /\ told'[v] = told[v] /\ user'[v] = user[v]
             /\ told'[v] = user'[v] \/ ~Handles(r, v)
      BY <1>1, <1>3, <1>4, SlotFacts DEF accounts
    <2> QED
      BY <1>1, <1>5, <2>1, <2>3, EndedSound DEF accounts, AccountIInv, AccountsTypeOK
  <1>7. CASE /\ req[r].kind # "update" => user[u].status = "PENDING"
             /\ req' = [req EXCEPT ![r].seen = user[u]]
             /\ GoTo(r, IF req[r].kind # "update" THEN req[r].kind
                        ELSE IF req[r].email \in {None, user[u].email} THEN "write"
                        ELSE "findOther")
    <2> DEFINE x == [req[r] EXCEPT !.seen = user[u]]
    <2>1. PICK l : /\ GoTo(r, l) /\ l \in {"approve", "reject", "write", "findOther"}
                   /\ l \in {"approve", "reject"} => req[r].kind = l
                   /\ l \in {"write", "findOther"} => req[r].kind = "update"
      BY <1>2, <1>7 DEF Fits
    <2>2. /\ x \in Asked /\ x.user = u /\ x.kind = req[r].kind /\ x.email = req[r].email
          /\ x.role = req[r].role /\ x.seen = user[u]
      BY <1>2, <1>3 DEF Asked
    <2>3. Moves(r, l, x)
      <3>1. req' = [req EXCEPT ![r] = x]
        BY <1>2, <1>7 DEF AccountIInv, AccountsTypeOK, Asked
      <3> QED BY <2>1, <3>1 DEF Moves, GoTo
    <2> HIDE DEF x
    <2>4. Fits(l, x) /\ l \in Labels
      BY <1>2, <2>1, <2>2 DEF Fits, Subjectless, ProfileLabels, Creating, Labels, AccountLabels
    <2>5. Imported(l, x, Rows \cap links')
      BY <1>2, <2>2 DEF Imported, Fits
    <2>6. u \notin muddled => Explains(l, x, told[u], user[u])
      BY <1>4, <1>7, <2>1, <2>2 DEF Explains
    <2> QED BY <1>1, <1>3, <2>1, <2>2, <2>3, <2>4, <2>5, <2>6, ReadSound DEF accounts, AccountIInv, AccountsTypeOK
  <1>8. QED
    BY <1>6, <1>7 DEF ReadBefore

LEMMA FindOtherIInv ==
  ASSUME AccountIInv, NEW r \in Slots, FindOther(r)
  PROVE  AccountIInv'
  <1> DEFINE u == req[r].user
  <1>1. UNCHANGED <<accounts, muddled>> /\ pc[r] = "findOther"
    BY DEF FindOther
  <1>2. Fits("findOther", req[r]) /\ req[r] \in Asked
    BY <1>1, SlotFacts
  <1>3. /\ u \in Users /\ \A v \in Users : Handles(r, v) <=> v = u
    BY <1>1, <1>2, Mine DEF Fits, Subjectless, ProfileLabels
  <1>4. u \notin muddled => Explains("findOther", req[r], told[u], user[u])
    BY <1>1, <1>3, SlotFacts
  <1>5. Rows' = Rows
    BY <1>1 DEF Rows, accounts
  <1>6. CASE Throw(r, {})
    <2>1. Ended(r, Rows' \cap links')
      BY <1>1, <1>2, <1>5, <1>6, ThrowEnds DEF accounts, Fits
    <2>2. u \notin muddled => told[u] = user[u]
      BY <1>4 DEF Explains
    <2>3. \A v \in Users \ muddled' :
             /\ v \notin gap'
             /\ told'[v] = told[v] /\ user'[v] = user[v]
             /\ told'[v] = user'[v] \/ ~Handles(r, v)
      BY <1>1, <1>3, <2>2, SlotFacts DEF accounts
    <2> QED
      BY <1>1, <1>5, <2>1, <2>3, EndedSound DEF accounts, AccountIInv, AccountsTypeOK
  <1>7. CASE GoTo(r, "write") /\ UNCHANGED req
    <2>1. Moves(r, "write", req[r]) /\ "write" \in Labels
      BY <1>7 DEF Moves, GoTo, AccountIInv, AccountsTypeOK, Labels, AccountLabels
    <2>2. Fits("write", req[r]) /\ Imported("write", req[r], Rows \cap links')
      BY <1>2 DEF Fits, Subjectless, ProfileLabels, Imported
    <2>3. u \notin muddled => Explains("write", req[r], told[u], user[u])
      BY <1>4 DEF Explains
    <2> QED BY <1>1, <1>2, <1>3, <2>1, <2>2, <2>3, ReadSound DEF accounts, AccountIInv, AccountsTypeOK
  <1>8. QED
    BY <1>6, <1>7 DEF FindOther

LEMMA WriteIInv ==
  ASSUME AccountIInv, NEW r \in Slots, Write(r)
  PROVE  AccountIInv'
  <1> DEFINE u == req[r].user
             w == [email |-> Given(req[r].email, user[u].email),
                   role |-> Given(req[r].role, user[u].role),
                   status |-> Given(req[r].status, user[u].status)]
  <1>1. /\ UNCHANGED <<requireRegistrationApproval, links, told, gap, muddled>>
        /\ pc[r] = "write"
    BY DEF Write
  <1>2. Fits("write", req[r]) /\ req[r] \in Asked
    BY <1>1, SlotFacts
  <1>3. /\ u \in Users /\ u \in Rows /\ user[u] \in UserRow
        /\ \A v \in Users : Handles(r, v) <=> v = u
    BY <1>1, <1>2, Mine DEF Fits, Subjectless, ProfileLabels
  <1>4. u \notin muddled => told[u] = user[u] /\ req[r].seen = user[u]
    <2>1. u \notin muddled => Explains("write", req[r], told[u], user[u])
      BY <1>1, <1>3, SlotFacts
    <2>2. QED
      BY <2>1 DEF Explains
  <1>5. CASE Throw(r, {}) /\ UNCHANGED user
    <2>1. Rows' = Rows
      BY <1>5 DEF Rows
    <2>2. Ended(r, Rows' \cap links')
      BY <1>1, <1>2, <1>5, <2>1, ThrowEnds DEF Fits
    <2>3. \A v \in Users \ muddled' :
             /\ v \notin gap'
             /\ told'[v] = told[v] /\ user'[v] = user[v]
             /\ told'[v] = user'[v] \/ ~Handles(r, v)
      BY <1>1, <1>3, <1>4, <1>5, SlotFacts
    <2> QED
      BY <1>1, <1>5, <2>1, <2>2, <2>3, EndedSound DEF AccountIInv, AccountsTypeOK
  <1>6. CASE user' = [user EXCEPT ![u] = w] /\ GoTo(r, "auditRole") /\ UNCHANGED req
    <2>1. w \in UserRow
      BY <1>2, <1>3 DEF Given, UserRow, Asked, Fits
    <2>2. w # NoUser
      BY <2>1, AccountAssumption DEF UserRow, NoUser
    <2>3. /\ user' \in [Users -> UserRow \cup {NoUser}] /\ user'[u] = w
          /\ \A v \in Users : v # u => user'[v] = user[v]
      <3> HIDE DEF w
      <3> QED BY <1>3, <1>6, <2>1 DEF AccountIInv, AccountsTypeOK
    <2>4. Rows' = Rows
      <3> HIDE DEF w
      <3> QED BY <1>3, <2>2, <2>3 DEF Rows
    <2>5. Moves(r, "auditRole", req[r]) /\ "auditRole" \in Labels
      BY <1>6 DEF Moves, GoTo, AccountIInv, AccountsTypeOK, Labels, AccountLabels
    <2>6. /\ Fits("auditRole", req[r]) /\ req[r].kind = "update"
          /\ Imported("auditRole", req[r], Rows' \cap links')
      BY <1>2 DEF Fits, Subjectless, ProfileLabels, Imported
    <2>7. u \notin muddled => Explains("auditRole", req[r], told[u], w)
      BY <1>4 DEF Explains
    <2>8. \A v \in Users \ muddled' : Accounted(r, "auditRole", req[r], v)
      <3> HIDE DEF w
      <3> QED BY <1>1, <1>3, <2>3, <2>6, <2>7, SlotFacts DEF Accounted
    <2>9. Sound(r, "auditRole", req[r])
      BY <1>1, <1>3, <2>3, <2>4, <2>6, <2>8 DEF Sound, AccountIInv, AccountsTypeOK
    <2> QED BY <1>2, <2>5, <2>9, SoundIInv
  <1>7. QED
    BY <1>5, <1>6 DEF Write

\* An audit row that names one field, of an account only this request changes.
Recorded(r, l, x) ==
    LET u == req[r].user
    IN  /\ \A v \in Users : v # u => told'[v] = told[v]
        /\ \A v \in Users : v # u => (v \in gap' <=> v \in gap)
        /\ u \notin muddled => /\ u \notin gap'
                               /\ Explains(l, x, told'[u], user[u])

LEMMA AuditSound ==
  ASSUME AccountIInv, NEW r \in Slots, pc[r] \notin Subjectless,
         req[r].kind = "update",
         UNCHANGED <<requireRegistrationApproval, user, links, muddled>>,
         told' \in [Users -> ToldRow],
         NEW l \in {"auditRole", "auditStatus", "auditUpdated"},
         Moves(r, l, req[r]), Recorded(r, l, req[r])
  PROVE  AccountIInv'
  <1>1. Fits(pc[r], req[r]) /\ req[r] \in Asked
    BY SlotFacts
  <1>2. /\ req[r].user \in Users /\ req[r].user \in Rows
        /\ \A v \in Users : Handles(r, v) <=> v = req[r].user
    BY Mine
  <1>3. Rows' = Rows
    BY DEF Rows
  <1>4. /\ Fits(l, req[r]) /\ l \in Labels
        /\ Imported(l, req[r], Rows' \cap links')
    BY <1>1 DEF Fits, Subjectless, ProfileLabels, Imported, Labels, AccountLabels, Creating
  <1>5. \A v \in Users \ muddled' : Accounted(r, l, req[r], v)
    BY <1>2, SlotFacts DEF Accounted, Recorded
  <1>6. Sound(r, l, req[r])
    BY <1>2, <1>3, <1>4, <1>5 DEF Sound, AccountIInv, AccountsTypeOK
  <1>7. QED
    BY <1>1, <1>4, <1>6, SoundIInv

LEMMA AuditRoleIInv ==
  ASSUME AccountIInv, NEW r \in Slots, AuditRole(r)
  PROVE  AccountIInv'
  <1> DEFINE u == req[r].user
  <1>1. /\ UNCHANGED <<requireRegistrationApproval, user, links, muddled, req>>
        /\ pc[r] = "auditRole" /\ GoTo(r, "auditStatus")
    BY DEF AuditRole
  <1>2. Fits("auditRole", req[r]) /\ req[r] \in Asked
    BY <1>1, SlotFacts
  <1>3. /\ u \in Users /\ \A v \in Users : Handles(r, v) <=> v = u
    BY <1>1, <1>2, Mine DEF Fits, Subjectless, ProfileLabels
  <1>4. u \notin muddled => /\ Explains("auditRole", req[r], told[u], user[u])
                            /\ u \notin gap
    BY <1>1, <1>3, SlotFacts
  <1>5. CASE req[r]["role"] \in {None, req[r].seen["role"]} /\ UNCHANGED <<told, gap>>
    <2>1. u \notin muddled => Explains("auditStatus", req[r], told[u], user[u])
      BY <1>2, <1>4, <1>5 DEF Explains, Given, Asked, UserRow, NoUser
    <2>2. Recorded(r, "auditStatus", req[r])
      BY <1>4, <1>5, <2>1 DEF Recorded
    <2> QED BY <1>1, <1>2, <1>5, <2>2, AuditSound DEF Moves, GoTo, Fits, Subjectless,
               ProfileLabels, AccountIInv, AccountsTypeOK
  <1>6. CASE /\ req[r]["role"] \notin {None, req[r].seen["role"]}
             /\ Record(u, "role", req[r].seen["role"], req[r]["role"])
    <2>1. told' = [told EXCEPT ![u]["role"] = req[r].role] /\ told[u] \in ToldRow
      BY <1>2, <1>3, <1>6 DEF Record, Asked, AccountIInv, AccountsTypeOK
    <2>2. /\ told' \in [Users -> ToldRow] /\ told'[u] = [told[u] EXCEPT !.role = req[r].role]
          /\ \A v \in Users : v # u => told'[v] = told[v]
      BY <1>2, <1>3, <2>1 DEF AccountIInv, AccountsTypeOK, ToldRow, Asked
    <2>3. u \notin muddled => Explains("auditStatus", req[r], told'[u], user[u])
      BY <1>2, <1>4, <1>6, <2>2 DEF Explains, Given, Asked, UserRow, NoUser
    <2>4. u \notin muddled => u \notin gap'
      BY <1>2, <1>4, <1>6, <2>1 DEF Explains, Record, ToldRow, Asked
    <2>5. Recorded(r, "auditStatus", req[r])
      BY <1>6, <2>2, <2>3, <2>4 DEF Recorded, Record
    <2> QED BY <1>1, <1>2, <2>2, <2>5, AuditSound DEF Moves, GoTo, Fits, Subjectless,
               ProfileLabels, AccountIInv, AccountsTypeOK
  <1>7. QED
    BY <1>1, <1>5, <1>6 DEF AuditRole, AuditField

LEMMA AuditStatusIInv ==
  ASSUME AccountIInv, NEW r \in Slots, AuditStatus(r)
  PROVE  AccountIInv'
  <1> DEFINE u == req[r].user
  <1>1. /\ UNCHANGED <<requireRegistrationApproval, user, links, muddled, req>>
        /\ pc[r] = "auditStatus" /\ GoTo(r, "auditUpdated")
    BY DEF AuditStatus
  <1>2. Fits("auditStatus", req[r]) /\ req[r] \in Asked
    BY <1>1, SlotFacts
  <1>3. /\ u \in Users /\ \A v \in Users : Handles(r, v) <=> v = u
    BY <1>1, <1>2, Mine DEF Fits, Subjectless, ProfileLabels
  <1>4. u \notin muddled => /\ Explains("auditStatus", req[r], told[u], user[u])
                            /\ u \notin gap
    BY <1>1, <1>3, SlotFacts
  <1>5. CASE req[r]["status"] \in {None, req[r].seen["status"]} /\ UNCHANGED <<told, gap>>
    <2>1. u \notin muddled => Explains("auditUpdated", req[r], told[u], user[u])
      BY <1>2, <1>4, <1>5 DEF Explains, Given, Asked, UserRow, NoUser
    <2>2. Recorded(r, "auditUpdated", req[r])
      BY <1>4, <1>5, <2>1 DEF Recorded
    <2> QED BY <1>1, <1>2, <1>5, <2>2, AuditSound DEF Moves, GoTo, Fits, Subjectless,
               ProfileLabels, AccountIInv, AccountsTypeOK
  <1>6. CASE /\ req[r]["status"] \notin {None, req[r].seen["status"]}
             /\ Record(u, "status", req[r].seen["status"], req[r]["status"])
    <2>1. told' = [told EXCEPT ![u]["status"] = req[r].status] /\ told[u] \in ToldRow
      BY <1>2, <1>3, <1>6 DEF Record, Asked, AccountIInv, AccountsTypeOK
    <2>2. req[r].status \in Status
      BY <1>2, <1>6 DEF Asked
    <2>3. /\ told' \in [Users -> ToldRow]
          /\ told'[u] = [told[u] EXCEPT !.status = req[r].status]
          /\ \A v \in Users : v # u => told'[v] = told[v]
      BY <1>2, <1>3, <2>1, <2>2 DEF AccountIInv, AccountsTypeOK, ToldRow, Asked
    <2>4. u \notin muddled => Explains("auditUpdated", req[r], told'[u], user[u])
      BY <1>2, <1>4, <1>6, <2>3 DEF Explains, Given, Asked, UserRow, NoUser
    <2>5. u \notin muddled => u \notin gap'
      BY <1>2, <1>4, <1>6, <2>1 DEF Explains, Record, ToldRow, Asked, UserRow, NoUser
    <2>6. Recorded(r, "auditUpdated", req[r])
      BY <1>6, <2>3, <2>4, <2>5 DEF Recorded, Record
    <2> QED BY <1>1, <1>2, <2>3, <2>6, AuditSound DEF Moves, GoTo, Fits, Subjectless,
               ProfileLabels, AccountIInv, AccountsTypeOK
  <1>7. QED
    BY <1>1, <1>5, <1>6 DEF AuditStatus, AuditField

LEMMA AuditUpdatedIInv ==
  ASSUME AccountIInv, NEW r \in Slots, AuditUpdated(r)
  PROVE  AccountIInv'
  <1> DEFINE u == req[r].user
  <1>1. /\ UNCHANGED <<requireRegistrationApproval, user, links, muddled>>
        /\ pc[r] = "auditUpdated" /\ Return(r)
    BY DEF AuditUpdated
  <1>2. Fits("auditUpdated", req[r]) /\ req[r] \in Asked
    BY <1>1, SlotFacts
  <1>3. /\ u \in Users /\ user[u] \in UserRow
        /\ \A v \in Users : Handles(r, v) <=> v = u
    BY <1>1, <1>2, Mine DEF Fits, Subjectless, ProfileLabels
  <1>4. u \notin muddled => /\ Explains("auditUpdated", req[r], told[u], user[u])
                            /\ u \notin gap
    BY <1>1, <1>3, SlotFacts
  <1>5. Rows' = Rows
    BY <1>1 DEF Rows
  <1>6. Ended(r, Rows' \cap links')
    BY <1>1, <1>2, <1>5, ReturnEnds DEF Fits
  <1>7. /\ told' \in [Users -> ToldRow]
        /\ \A v \in Users : v # u => told'[v] = told[v] /\ (v \in gap' <=> v \in gap)
        /\ u \notin muddled => told'[u] = user[u] /\ u \notin gap'
    <2>1. CASE req[r].email = None /\ UNCHANGED <<told, gap>>
      <3>1. u \notin muddled => told'[u] = user[u] /\ u \notin gap'
        BY <1>2, <1>3, <1>4, <2>1 DEF Explains, Given, UserRow
      <3> QED BY <2>1, <3>1 DEF AccountIInv, AccountsTypeOK
    <2>2. CASE /\ req[r].email # None
               /\ Record(u, "email", req[r].seen.email, req[r].email)
      <3>1. told' = [told EXCEPT ![u]["email"] = req[r].email] /\ told[u] \in ToldRow
        BY <1>3, <2>2 DEF Record, AccountIInv, AccountsTypeOK
      <3>2. req[r].email \in Emails
        BY <1>2, <2>2 DEF Fits
      <3>3. /\ told' \in [Users -> ToldRow]
            /\ told'[u] = [told[u] EXCEPT !.email = req[r].email]
            /\ \A v \in Users : v # u => told'[v] = told[v]
        BY <1>3, <3>1, <3>2 DEF AccountIInv, AccountsTypeOK, ToldRow
      <3>4. u \notin muddled => told'[u] = user[u]
        BY <1>3, <1>4, <2>2, <3>3 DEF Explains, Given, UserRow
      <3>5. u \notin muddled => u \notin gap'
        BY <1>3, <1>4, <2>2, <3>1 DEF Explains, Record, ToldRow, UserRow
      <3> QED BY <2>2, <3>3, <3>4, <3>5 DEF Record
    <2> QED BY <2>1, <2>2 DEF AuditUpdated
  <1>8. \A v \in Users \ muddled' :
           /\ v \notin gap'
           /\ told'[v] = told[v] \/ Handles(r, v)
           /\ told'[v] = user'[v] \/ ~Handles(r, v)
    BY <1>1, <1>3, <1>7, SlotFacts
  <1>9. QED
    BY <1>1, <1>5, <1>6, <1>7, <1>8, EndedSound DEF AccountIInv, AccountsTypeOK

LEMMA ApproveIInv ==
  ASSUME AccountIInv, NEW r \in Slots, Approve(r)
  PROVE  AccountIInv'
  <1> DEFINE u == req[r].user
             w == [user[u] EXCEPT !.status = Decided(req[r].kind)]
  <1>1. /\ UNCHANGED <<requireRegistrationApproval, links, told, gap, muddled, req>>
        /\ pc[r] \in {"approve", "reject"} /\ GoTo(r, "auditDecided")
        /\ user' = [user EXCEPT ![u].status = Decided(req[r].kind)]
    BY DEF Approve
  <1>2. Fits(pc[r], req[r]) /\ req[r] \in Asked
    BY <1>1, SlotFacts
  <1>3. /\ u \in Users /\ u \in Rows /\ user[u] \in UserRow
        /\ \A v \in Users : Handles(r, v) <=> v = u
    BY <1>1, <1>2, Mine DEF Fits, Subjectless, ProfileLabels
  <1>4. u \notin muddled => told[u] = user[u] /\ user[u].status = "PENDING"
    <2>1. u \notin muddled => Explains(pc[r], req[r], told[u], user[u])
      BY <1>3, SlotFacts
    <2> QED BY <1>1, <2>1 DEF Explains
  <1>5. w \in UserRow /\ w.status = Decided(req[r].kind)
    BY <1>3 DEF Decided, UserRow, Status
  <1>6. /\ user' \in [Users -> UserRow \cup {NoUser}] /\ user'[u] = w
        /\ \A v \in Users : v # u => user'[v] = user[v]
    <2>1. user' = [user EXCEPT ![u] = w]
      BY <1>1, <1>3 DEF AccountIInv, AccountsTypeOK
    <2> HIDE DEF w
    <2> QED BY <1>3, <1>5, <2>1 DEF AccountIInv, AccountsTypeOK
  <1>7. w # NoUser
    BY <1>5, AccountAssumption DEF UserRow, NoUser
  <1>8. Rows' = Rows
    <2> HIDE DEF w
    <2> QED BY <1>3, <1>6, <1>7 DEF Rows
  <1>9. Moves(r, "auditDecided", req[r]) /\ "auditDecided" \in Labels
    BY <1>1 DEF Moves, GoTo, AccountIInv, AccountsTypeOK, Labels, AccountLabels
  <1>10. /\ Fits("auditDecided", req[r]) /\ req[r].kind \in {"approve", "reject"}
         /\ Imported("auditDecided", req[r], Rows' \cap links')
    BY <1>1, <1>2 DEF Fits, Subjectless, ProfileLabels, Imported
  <1>11. u \notin muddled => Explains("auditDecided", req[r], told[u], w)
    <2>1. u \notin muddled => told[u] = [w EXCEPT !.status = "PENDING"]
      BY <1>3, <1>4 DEF UserRow
    <2> HIDE DEF w
    <2> QED BY <1>5, <2>1 DEF Explains
  <1>12. \A v \in Users \ muddled' : Accounted(r, "auditDecided", req[r], v)
    <2> HIDE DEF w
    <2> QED BY <1>1, <1>3, <1>6, <1>10, <1>11, SlotFacts DEF Accounted
  <1>13. Sound(r, "auditDecided", req[r])
    BY <1>1, <1>3, <1>6, <1>8, <1>10, <1>12 DEF Sound, AccountIInv, AccountsTypeOK
  <1>14. QED
    BY <1>2, <1>9, <1>13, SoundIInv

LEMMA AuditDecidedIInv ==
  ASSUME AccountIInv, NEW r \in Slots, AuditDecided(r)
  PROVE  AccountIInv'
  <1> DEFINE u == req[r].user
  <1>1. /\ UNCHANGED <<requireRegistrationApproval, user, links, muddled>>
        /\ pc[r] = "auditDecided" /\ Return(r)
        /\ Record(u, "status", "PENDING", Decided(req[r].kind))
    BY DEF AuditDecided
  <1>2. Fits("auditDecided", req[r]) /\ req[r] \in Asked
    BY <1>1, SlotFacts
  <1>3. /\ u \in Users /\ user[u] \in UserRow
        /\ \A v \in Users : Handles(r, v) <=> v = u
    BY <1>1, <1>2, Mine DEF Fits, Subjectless, ProfileLabels
  <1>4. u \notin muddled => /\ Explains("auditDecided", req[r], told[u], user[u])
                            /\ u \notin gap
    BY <1>1, <1>3, SlotFacts
  <1>5. Rows' = Rows
    BY <1>1 DEF Rows
  <1>6. Ended(r, Rows' \cap links')
    BY <1>1, <1>2, <1>5, ReturnEnds DEF Fits
  <1>7. told' = [told EXCEPT ![u]["status"] = Decided(req[r].kind)] /\ told[u] \in ToldRow
    BY <1>1, <1>3 DEF Record, AccountIInv, AccountsTypeOK
  <1>8. Decided(req[r].kind) \in Status
    BY DEF Decided, Status
  <1>9. /\ told' \in [Users -> ToldRow]
        /\ told'[u] = [told[u] EXCEPT !.status = Decided(req[r].kind)]
        /\ \A v \in Users : v # u => told'[v] = told[v]
    BY <1>3, <1>7, <1>8 DEF AccountIInv, AccountsTypeOK, ToldRow
  <1>10. u \notin muddled => told'[u] = user[u]
    BY <1>3, <1>4, <1>9 DEF Explains, UserRow
  <1>11. u \notin muddled => u \notin gap'
    BY <1>1, <1>3, <1>4, <1>7 DEF Explains, Record, UserRow, ToldRow
  <1>12. \A v \in Users \ muddled' :
           /\ v \notin gap'
           /\ told'[v] = told[v] \/ Handles(r, v)
           /\ told'[v] = user'[v] \/ ~Handles(r, v)
    BY <1>1, <1>3, <1>9, <1>10, <1>11, SlotFacts DEF Record
  <1>13. QED
    BY <1>1, <1>5, <1>6, <1>9, <1>12, EndedSound DEF AccountIInv, AccountsTypeOK

\* A request that breaks off muddles its account, and an import its row.
LEMMA FailIInv ==
  ASSUME AccountIInv, NEW r \in Slots, Fail(r)
  PROVE  AccountIInv'
  <1> DEFINE u == req[r].user
  <1>1. /\ UNCHANGED accounts /\ pc[r] # "idle" /\ Throw(r, {req[r].row})
        /\ muddled' = IF u = None THEN muddled ELSE muddled \cup {u}
    BY DEF Fail, Busy
  <1>2. req[r] \in Asked /\ u \in Rows \cup {None}
    BY SlotFacts
  <1>3. Rows' = Rows
    BY <1>1 DEF Rows, accounts
  <1>4. Ended(r, Rows' \cap links')
    <2>1. {req[r].row} \in SUBSET Nat
      BY <1>2 DEF Asked
    <2> QED BY <1>1, <1>3, <2>1, ThrowEnds DEF accounts
  <1>5. /\ muddled \subseteq muddled' /\ muddled' \subseteq Rows
        /\ \A v \in Users \ muddled' : ~Handles(r, v)
    BY <1>1, <1>2, AccountAssumption DEF Handles, AccountIInv, AccountsTypeOK
  <1>6. QED
    BY <1>1, <1>3, <1>4, <1>5, SlotFacts, EndedSound DEF AccountIInv, AccountsTypeOK, accounts

LEMMA AccountsStepIInv ==
  ASSUME AccountIInv, NEW r \in Slots, AccountsStep(r)
  PROVE  AccountIInv'
  BY AskCreateIInv, AskImportIInv, AskChangeIInv, AskForgotIInv, FindEmailIInv,
     InsertIInv, LinkIInv, AuditCreatedIInv, ReadBeforeIInv, FindOtherIInv, WriteIInv,
     AuditRoleIInv, AuditStatusIInv, AuditUpdatedIInv, ApproveIInv, AuditDecidedIInv,
     FailIInv DEF AccountsStep

----------------------------------------------------------------------------
(* A step about a section, which leaves the accounts alone.                *)

PMoves(r, l, a) ==
    pc' = [pc EXCEPT ![r] = l] /\ ask' = [ask EXCEPT ![r] = a]

LEMMA PMovesOnly ==
  ASSUME AccountIInv, ProfileIInv, NEW r \in Slots, NEW l \in Labels, NEW a \in AskRow,
         PMoves(r, l, a)
  PROVE  /\ pc' \in [Slots -> Labels] /\ pc'[r] = l
         /\ ask' \in [Slots -> AskRow] /\ ask'[r] = a
         /\ \A q \in Slots : q # r => pc'[q] = pc[q] /\ ask'[q] = ask[q]
  BY DEF AccountIInv, AccountsTypeOK, ProfileIInv, ProfileTypeOK, PMoves

LEMMA NoAskType ==
  /\ NoAsk \in AskRow /\ NoAsk.section = None /\ NoAsk.kind = "none" /\ NoAsk.id = None
  /\ None \notin Sections /\ None \notin ChangeIds
  BY ProfileAssumption DEF NoAsk, AskRow, AskKinds, Sections

\* A form that is merged into the row of a section, and a row that is masked.
LEMMA UpsertRow ==
  ASSUME NEW h \in Holding, NEW s \in Sections, NEW form \in Forms
  PROVE  /\ Upserted(h[s], s[2], form) \in RowsOf(s[2])
         /\ Upserted(h[s], s[2], form) \in AnyRow
         /\ \A f \in Columns[s[2]] : FieldOf(Upserted(h[s], s[2], form), f) =
               IF f \in DOMAIN form THEN FieldOf(form, f) ELSE FieldOf(h[s], f)
  <1> PICK t \in Targets : t = s[2]
    BY DEF Sections
  <1> DEFINE row == Upserted(h[s], t, form)
  <1>1. \A f \in Columns[t] : FieldOf(h[s], f) \in Values \cup {None}
    BY DEF Holding, RowsOf, FieldOf
  <1>2. \A f \in DOMAIN form : form[f] \in Values \cup {None}
    BY ColumnsAssumption
  <1>3. row \in [Columns[t] -> Values \cup {None}]
    BY <1>1, <1>2 DEF Upserted
  <1>4. row # None /\ row \in RowsOf(t) /\ row \in AnyRow
    BY <1>3, ColumnsAssumption DEF RowsOf, AnyRow
  <1>5. \A f \in Columns[t] :
           row[f] = IF f \in DOMAIN form THEN FieldOf(form, f) ELSE FieldOf(h[s], f)
    <2>1. form # None
      BY ProfileAssumption
    <2> QED BY <2>1 DEF Upserted, FieldOf
  <1> HIDE DEF row
  <1>6. \A f \in Columns[t] : FieldOf(row, f) = row[f]
    BY <1>4 DEF FieldOf
  <1>7. QED
    BY <1>4, <1>5, <1>6 DEF row

LEMMA UpsertHolds ==
  ASSUME NEW h \in Holding, NEW s \in Sections, NEW form \in Forms,
         NEW g, g = [h EXCEPT ![s] = Upserted(h[s], s[2], form)]
  PROVE  g \in Holding
  <1> PICK row : row = Upserted(h[s], s[2], form)
    OBVIOUS
  <1>1. row \in RowsOf(s[2]) /\ row \in AnyRow
    BY UpsertRow
  <1>2. g = [h EXCEPT ![s] = row]
    OBVIOUS
  <1>3. /\ g \in [Sections -> AnyRow] /\ g[s] = row
        /\ \A x \in Sections : x # s => g[x] = h[x]
    BY <1>1, <1>2 DEF Holding
  <1>4. QED
    BY <1>1, <1>3 DEF Holding

LEMMA MaskedType ==
  ASSUME NEW row \in AnyRow
  PROVE  Masked(row) \in AnyRow
  <1>1. PICK t \in Targets : row \in RowsOf(t)
    BY DEF AnyRow
  <1>2. CASE row = None
    BY <1>2 DEF Masked
  <1>3. CASE row # None
    <2>1. row \in [Columns[t] -> Values \cup {None}]
      BY <1>1, <1>3 DEF RowsOf
    <2>2. Masked(row) \in [Columns[t] -> Values \cup {None}]
      BY <1>3, <2>1, ColumnsAssumption DEF Masked
    <2> QED BY <2>2 DEF RowsOf, AnyRow
  <1>4. QED
    BY <1>2, <1>3

LEMMA SectionStepAccounts ==
  ASSUME AccountIInv, NEW r \in Slots, UNCHANGED <<accounts, muddled>>,
         pc[r] = "idle" \/ pc[r] \in ProfileLabels,
         NEW l \in ProfileLabels \cup {"idle"}, Moves(r, l, NotAsked)
  PROVE  AccountIInv'
  <1>1. Fits(l, NotAsked) /\ l \in Labels
    BY NotAskedType DEF Fits, Subjectless, ProfileLabels, Creating, Labels, AccountLabels
  <1>2. \A u \in Users : u # None
    BY AccountAssumption
  <1>3. QED
    BY <1>1, <1>2, NotAskedType, AskSound DEF Subjectless, AccountIInv, AccountsTypeOK

\* What every step about a section has to show.
Framed(r, l, a) ==
    /\ l \in Labels /\ a \in AskRow /\ PMoves(r, l, a) /\ Suits(l, a)
    /\ overlap \subseteq overlap'
    /\ change' \in [ChangeIds -> ChangeRow]
    /\ profile' \in Holding
    /\ latest' \in Holding
    /\ said' \in [Sections -> AnyRow]
    /\ \A i \in ChangeIds :
          /\ change[i].status # "ABSENT" => /\ change'[i].status # "ABSENT"
                                            /\ change'[i].section = change[i].section
          /\ IF change'[i].status = "ABSENT" THEN change'[i] = NoChange
             ELSE change'[i].section \in Sections /\ change'[i].proposed \in Forms
    /\ \A i \in applied' : i \in ChangeIds /\ change'[i].status # "ABSENT"
    /\ IF a.kind = "decide"
       THEN /\ a.id \in ChangeIds
            /\ change[a.id].status # "ABSENT"
            /\ change[a.id].section = a.section
       ELSE a.id = None
    /\ \/ a.section = None
       \/ a.section = ask[r].section /\ a.kind = ask[r].kind
       \/ \A q \in Slots : q # r /\ ask[q].section = a.section =>
             \A tag \in Clash(a.kind, ask[q].kind) \cup Writes(a.kind, ask[q].kind) :
                <<a.section, tag>> \in overlap'

LEMMA FramedFacts ==
  ASSUME AccountIInv, ProfileIInv, NEW r \in Slots, NEW l, NEW a, Framed(r, l, a)
  PROVE  ProfileTypeOK' /\ (\A q \in Slots : Suits(pc[q], ask[q])') /\ ChangesAgree' /\ Tagged'
  <1>1. /\ pc' \in [Slots -> Labels] /\ pc'[r] = l
        /\ ask' \in [Slots -> AskRow] /\ ask'[r] = a
        /\ \A q \in Slots : q # r => pc'[q] = pc[q] /\ ask'[q] = ask[q]
    BY PMovesOnly DEF Framed
  <1>2. ProfileTypeOK'
    BY <1>1 DEF Framed, ProfileTypeOK
  <1>3. \A q \in Slots : Suits(pc'[q], ask'[q])
    BY <1>1 DEF Framed, ProfileIInv
  <1>4. ChangesAgree'
    <2>1. ASSUME NEW q \in Slots
          PROVE  IF ask'[q].kind = "decide"
                 THEN /\ ask'[q].id \in ChangeIds
                      /\ change'[ask'[q].id].status # "ABSENT"
                      /\ change'[ask'[q].id].section = ask'[q].section
                 ELSE ask'[q].id = None
      BY <1>1 DEF Framed, ProfileIInv, ChangesAgree
    <2> QED BY <2>1 DEF Framed, ChangesAgree
  <1>5. ASSUME NEW q \in Slots, q # r, a.section = ask[q].section, a.section \in Sections,
               NEW tag \in Clash(a.kind, ask[q].kind) \cup Writes(a.kind, ask[q].kind)
        PROVE  <<a.section, tag>> \in overlap'
    <2>1. a.section # None
      BY <1>5, NoAskType
    <2>2. CASE a.section = ask[r].section /\ a.kind = ask[r].kind
      BY <1>5, <2>2 DEF Framed, ProfileIInv, Tagged
    <2> QED BY <1>5, <2>1, <2>2 DEF Framed
  <1>6. ASSUME NEW q \in Slots, NEW p \in Slots, p # q, ask'[p].section = ask'[q].section,
               ask'[p].section \in Sections,
               NEW tag \in Clash(ask'[p].kind, ask'[q].kind) \cup
                           Writes(ask'[p].kind, ask'[q].kind)
        PROVE  <<ask'[p].section, tag>> \in overlap'
    <2>1. CASE p = r
      BY <1>1, <1>5, <1>6, <2>1
    <2>2. CASE q = r
      <3>1. tag \in Clash(a.kind, ask[p].kind) \cup Writes(a.kind, ask[p].kind)
        BY <1>1, <1>6, <2>2 DEF Clash, Writes
      <3> QED BY <1>1, <1>5, <1>6, <2>2, <3>1
    <2>3. CASE p # r /\ q # r
      BY <1>1, <1>6, <2>3 DEF Framed, ProfileIInv, Tagged
    <2> QED BY <2>1, <2>2, <2>3
  <1>7. Tagged'
    BY <1>6 DEF Tagged, Clash, Writes
  <1>8. QED
    BY <1>2, <1>3, <1>4, <1>7

\* Where nothing overlapped, one request asks, one decides, one writes.
LEMMA OnlyOne ==
  ASSUME Tagged, NEW s \in Sections, NEW r \in Slots, NEW q \in Slots,
         ask[r].section = s, ask[q].section = s
  PROVE  /\ Clean(s, {"request"}) /\ ask[r].kind = "request" /\ ask[q].kind = "request" => r = q
         /\ Clean(s, {"decide"}) /\ ask[r].kind = "decide" /\ ask[q].kind = "decide" => r = q
         /\ Clean(s, {"apply"}) /\ ask[r].kind \in {"decide", "direct"}
               /\ ask[q].kind \in {"decide", "direct"} => r = q
  BY DEF Tagged, Clean, Clash, Writes

LEMMA PendingKeeps ==
  ASSUME AccountIInv, ProfileIInv, NEW r \in Slots, NEW l, NEW a, Framed(r, l, a),
         NEW s \in Sections, Pending(s)' \subseteq Pending(s),
         l = "createChange" /\ a.section = s => Pending(s) = {}
  PROVE  PendingAlone(s)'
  <1>1. /\ pc'[r] = l /\ ask'[r] = a
        /\ \A q \in Slots : q # r => pc'[q] = pc[q] /\ ask'[q] = ask[q]
    BY PMovesOnly DEF Framed
  <1>2. Clean(s, {"request"})' => Clean(s, {"request"})
    BY DEF Clean, Framed
  <1>3. PendingAlone(s)
    BY DEF ProfileIInv
  <1>4. ASSUME Clean(s, {"request"})', NEW q \in Slots, pc'[q] = "createChange", ask'[q].section = s
        PROVE  Pending(s)' = {}
    <2>1. CASE q = r
      BY <1>1, <1>4, <2>1
    <2>2. CASE q # r
      BY <1>1, <1>2, <1>3, <1>4, <2>2 DEF PendingAlone
    <2> QED BY <2>1, <2>2
  <1>5. ASSUME Clean(s, {"request"})', NEW i \in Pending(s)', NEW j \in Pending(s)'
        PROVE  i = j
    BY <1>2, <1>3, <1>5 DEF PendingAlone
  <1> DEFINE P == Pending(s)'
  <1>6. QED
    BY <1>4, <1>5 DEF PendingAlone

LEMMA ExplainedKeeps ==
  ASSUME AccountIInv, ProfileIInv, NEW r \in Slots, NEW l, NEW a, Framed(r, l, a),
         NEW s \in Sections, profile'[s] = profile[s], said'[s] = said[s], s \in saidGap' <=> s \in saidGap,
         ask[r].section = s => ask[r].kind = "request",
         a.section = s => a.kind = "request"
  PROVE  Explained(s)'
  <1>1. /\ pc'[r] = l /\ ask'[r] = a
        /\ \A q \in Slots : q # r => pc'[q] = pc[q] /\ ask'[q] = ask[q]
    BY PMovesOnly DEF Framed
  <1>2. Clean(s, {"apply", "failed"})' => Clean(s, {"apply", "failed"})
    BY DEF Clean, Framed
  <1>3. ~Writing(r, s) /\ ~Writing(r, s)'
    BY <1>1 DEF Writing
  <1>4. \A q \in Slots : q # r => /\ Writing(q, s)' <=> Writing(q, s)
                                  /\ Midway(q, s)' <=> Midway(q, s)
    BY <1>1 DEF Writing, Midway, Told
  <1>5. QED
    BY <1>2, <1>3, <1>4 DEF ProfileIInv, Explained, Told

\* A section whose one writer has moved.
LEMMA ExplainedOwn ==
  ASSUME AccountIInv, ProfileIInv, NEW r \in Slots, NEW l, NEW a, Framed(r, l, a),
         NEW s \in Sections, Writing(r, s) \/ Writing(r, s)',
         Clean(s, {"apply", "failed"})' /\ Writing(r, s)' => Midway(r, s)',
         Clean(s, {"apply", "failed"})' /\ ~Writing(r, s)' => Told(s, Masked(profile[s]))'
  PROVE  Explained(s)'
  <1>1. /\ pc'[r] = l /\ ask'[r] = a
        /\ \A q \in Slots : q # r => pc'[q] = pc[q] /\ ask'[q] = ask[q]
    BY PMovesOnly DEF Framed
  <1>2. Clean(s, {"apply", "failed"})' => Clean(s, {"apply"}) /\ Clean(s, {"apply"})'
    BY DEF Clean, Framed
  <1>3. Tagged /\ Tagged'
    BY FramedFacts DEF ProfileIInv
  <1>4. ASSUME Clean(s, {"apply", "failed"})', NEW q \in Slots, q # r, Writing(q, s)'
        PROVE  FALSE
    <2>1. CASE Writing(r, s)
      BY <1>1, <1>2, <1>3, <1>4, <2>1, OnlyOne DEF Writing
    <2>2. CASE Writing(r, s)'
      <3>1. <<s, "apply">> \in overlap'
        BY <1>3, <1>4, <2>2 DEF Tagged, Writing, Writes
      <3> QED BY <1>2, <1>4, <3>1 DEF Clean
    <2> QED BY <2>1, <2>2
  <1>5. QED
    BY <1>4 DEF Explained

\* A column this step does not write, of a form that is not approved by it.
LEMMA MergedKeeps ==
  ASSUME AccountIInv, ProfileIInv, NEW r \in Slots, NEW l, NEW a, Framed(r, l, a),
         NEW s \in Sections, NEW f \in Columns[s[2]],
         FieldOf(profile'[s], f) = FieldOf(profile[s], f),
         FieldOf(latest'[s], f) = FieldOf(latest[s], f),
         \/ <<s, f>> \in overlap'
         \/ Holds(r, s, f)' <=> Holds(r, s, f),
         Holds(r, s, f)' => a.value = ask[r].value
  PROVE  Merged(s, f)'
  <1>1. /\ pc'[r] = l /\ ask'[r] = a
        /\ \A q \in Slots : q # r => pc'[q] = pc[q] /\ ask'[q] = ask[q]
    BY PMovesOnly DEF Framed
  <1>2. Merged(s, f)
    BY DEF ProfileIInv
  <1>3. \A q \in Slots : q # r => (Holds(q, s, f)' <=> Holds(q, s, f))
    BY <1>1 DEF Holds, Unapproved
  <1>4. CASE <<s, f>> \in overlap'
    BY <1>4 DEF Merged, Clean
  <1>5. CASE <<s, f>> \notin overlap'
    <2>1. Clean(s, {f})
      BY <1>5 DEF Clean, Framed
    <2>2. \A q \in Slots : Holds(q, s, f)' <=> Holds(q, s, f)
      BY <1>3, <1>5
    <2>3. \A q \in Slots : Holds(q, s, f)' => ask'[q].value = ask[q].value
      BY <1>1
    <2> QED BY <1>2, <2>1, <2>2, <2>3 DEF Merged
  <1>6. QED
    BY <1>4, <1>5

LEMMA DecidedKeeps ==
  ASSUME AccountIInv, ProfileIInv, NEW r \in Slots, NEW l, NEW a, Framed(r, l, a),
         NEW i \in ChangeIds, change'[i] = change[i], i \in applied' <=> i \in applied,
         ask[r].id = i /\ pc[r] \in {"after", "markApproved"} =>
            \/ a.id = i /\ l \in {"after", "markApproved"}
            \/ <<change[i].section, "failed">> \in overlap',
         a.id = i /\ a.kind = "decide" /\ l \notin {"findChange", "auditApplied"} =>
            \/ ask[r] .id = i /\ Deciding(r) /\ pc[r] # "auditApplied"
            \/ change[i].status = "PENDING"
  PROVE  DecidedAlone(i)'
  <1>1. /\ pc'[r] = l /\ ask'[r] = a
        /\ \A q \in Slots : q # r => pc'[q] = pc[q] /\ ask'[q] = ask[q]
    BY PMovesOnly DEF Framed
  <1> PICK s : s = change[i].section
    OBVIOUS
  <1>2. Clean(s, {"decide", "failed"})' =>
           /\ Clean(s, {"decide", "failed"})
           /\ <<s, "failed">> \notin overlap'
    BY DEF Clean, Framed
  <1>3. DecidedAlone(i)
    BY DEF ProfileIInv
  <1>4. ASSUME Clean(s, {"decide", "failed"})', i \in applied'
        PROVE  \/ change'[i].status = "APPROVED"
               \/ \E q \in Slots : ask'[q].id = i /\ pc'[q] \in {"after", "markApproved"}
    <2>1. CASE change[i].status = "APPROVED"
      BY <2>1
    <2>2. ASSUME NEW q \in Slots, ask[q].id = i, pc[q] \in {"after", "markApproved"}
          PROVE  ask'[q].id = i /\ pc'[q] \in {"after", "markApproved"}
      <3>1. CASE q = r
        BY <1>1, <1>2, <1>4, <2>2, <3>1
      <3>2. CASE q # r
        BY <1>1, <2>2, <3>2
      <3> QED BY <3>1, <3>2
    <2> QED BY <1>2, <1>3, <1>4, <2>1, <2>2 DEF DecidedAlone
  <1>5. ASSUME Clean(s, {"decide", "failed"})', NEW q \in Slots, ask'[q].id = i,
               Deciding(q)', pc'[q] # "auditApplied"
        PROVE  change'[i].status = "PENDING"
    <2>1. CASE q # r
      BY <1>1, <1>2, <1>3, <1>5, <2>1 DEF DecidedAlone, Deciding
    <2>2. CASE q = r
      BY <1>1, <1>2, <1>3, <1>5, <2>2 DEF DecidedAlone, Deciding
    <2> QED BY <2>1, <2>2
  <1>6. change'[i].section = s
    OBVIOUS
  <1>7. QED
    BY <1>4, <1>5, <1>6 DEF DecidedAlone, Clean

\* One slot decides a change, where nothing overlapped.
LEMMA OneDecides ==
  ASSUME ProfileIInv, NEW i \in ChangeIds, Clean(change[i].section, {"decide", "failed"}),
         NEW r \in Slots, NEW q \in Slots, ask[r].id = i, ask[q].id = i
  PROVE  r = q
  <1>1. i # None
    BY NoAskType
  <1>2. /\ ask[r].kind = "decide" /\ ask[q].kind = "decide"
        /\ ask[r].section = change[i].section /\ ask[q].section = change[i].section
        /\ change[i].section \in Sections
    BY <1>1 DEF ProfileIInv, ChangesAgree
  <1>3. Clean(change[i].section, {"decide"}) /\ Tagged
    BY DEF Clean, ProfileIInv
  <1>4. QED
    BY <1>2, <1>3, OnlyOne

\* What carries the invariant over a step about a section.
LEMMA SectionStep ==
  ASSUME AccountIInv, ProfileIInv, NEW r \in Slots, NEW l, NEW a, Framed(r, l, a),
         \A s \in Sections : PendingAlone(s)' /\ Explained(s)',
         \A s \in Sections : \A f \in Columns[s[2]] : Merged(s, f)',
         \A i \in ChangeIds : DecidedAlone(i)'
  PROVE  ProfileIInv'
  BY FramedFacts DEF ProfileIInv

LEMMA FramedSame ==
  ASSUME AccountIInv, ProfileIInv, NEW r \in Slots, NEW l \in Labels, NEW a \in AskRow,
         PMoves(r, l, a), Suits(l, a), UNCHANGED profiles, overlap \subseteq overlap',
         IF a.kind = "decide"
         THEN /\ a.id \in ChangeIds
              /\ change[a.id].status # "ABSENT"
              /\ change[a.id].section = a.section
         ELSE a.id = None,
         \/ a.section = None
         \/ a.section = ask[r].section /\ a.kind = ask[r].kind
         \/ \A q \in Slots : q # r /\ ask[q].section = a.section =>
               \A tag \in Clash(a.kind, ask[q].kind) \cup Writes(a.kind, ask[q].kind) :
                  <<a.section, tag>> \in overlap'
  PROVE  Framed(r, l, a)
  BY DEF Framed, profiles, ProfileIInv, ProfileTypeOK, ChangesAgree

LEMMA PendingSame ==
  ASSUME UNCHANGED profiles, NEW s
  PROVE  Pending(s)' = Pending(s)
  BY DEF Pending, profiles

\* What the invariant says of one slot and the section it is about.
LEMMA AskFacts ==
  ASSUME AccountIInv, ProfileIInv, NEW r \in Slots
  PROVE  /\ pc[r] \in Labels /\ ask[r] \in AskRow /\ Suits(pc[r], ask[r])
         /\ pc[r] \in ProfileLabels => /\ req[r] = NotAsked
                                       /\ ask[r].section \in Sections
                                       /\ ask[r].kind # "none"
         /\ pc[r] = "idle" => ask[r] = NoAsk
         /\ ask[r].kind = "decide" => /\ ask[r].id \in ChangeIds
                                      /\ change[ask[r].id].status # "ABSENT"
                                      /\ change[ask[r].id].section = ask[r].section
         /\ ask[r].kind # "decide" => ask[r].id = None
         /\ ask[r].section \in Sections => PendingAlone(ask[r].section) /\ Explained(ask[r].section)
         /\ \A i \in ChangeIds : DecidedAlone(i)
  <1>1. Fits(pc[r], req[r])
    BY SlotFacts
  <1>2. pc[r] \in Labels /\ ask[r] \in AskRow /\ Suits(pc[r], ask[r])
    BY DEF AccountIInv, AccountsTypeOK, ProfileIInv, ProfileTypeOK
  <1>3. QED
    BY <1>1, <1>2 DEF Fits, Suits, AccountLabels, ProfileIInv, ChangesAgree

LEMMA AcceptStep ==
  ASSUME AccountIInv, ProfileIInv, NEW r \in Slots, NEW a \in AskRow,
         NEW l \in {"findPending", "findChange", "before"}, Accept(r, a, l),
         a.section \in Sections,
         l = "findPending" => a.kind = "request", l = "findChange" => a.kind = "decide",
         l = "before" => a.kind = "direct", l # "findChange" => a.value \in Forms,
         IF a.kind = "decide"
         THEN /\ a.id \in ChangeIds
              /\ change[a.id].status # "ABSENT"
              /\ change[a.id].section = a.section
         ELSE a.id = None
  PROVE  AccountIInv' /\ ProfileIInv'
  <1>1. /\ pc[r] = "idle" /\ UNCHANGED <<accounts, muddled, profiles>>
        /\ Moves(r, l, NotAsked) /\ PMoves(r, l, a) /\ overlap \subseteq overlap'
    BY DEF Accept, Take, GoTo, Moves, PMoves
  <1>2. AccountIInv'
    BY <1>1, SectionStepAccounts DEF ProfileLabels
  <1>3. \A q \in Slots : ask[q].section = a.section =>
             \A tag \in Clash(a.kind, ask[q].kind) \cup Writes(a.kind, ask[q].kind) :
                <<a.section, tag>> \in overlap'
    BY DEF Accept
  <1>4. Suits(l, a) /\ l \in Labels
    BY DEF Suits, ProfileLabels, AccountLabels, Labels
  <1>5. Framed(r, l, a)
    BY <1>1, <1>3, <1>4, FramedSame
  <1>6. ask[r].section = None /\ ask[r].id = None /\ ask[r].kind = "none"
    BY <1>1, AskFacts, NoAskType
  <1>7. /\ pc'[r] = l /\ ask'[r] = a
        /\ \A q \in Slots : q # r => pc'[q] = pc[q] /\ ask'[q] = ask[q]
    BY <1>1, <1>4, PMovesOnly
  <1>8. \A s \in Sections : PendingAlone(s)'
    BY <1>1, <1>5, PendingSame, PendingKeeps
  <1>9. ASSUME NEW s \in Sections
        PROVE  Explained(s)'
    <2>1. CASE a.section = s /\ a.kind \in {"decide", "direct"}
      <3>1. Writing(r, s)'
        BY <1>7, <2>1 DEF Writing
      <3>2. ASSUME Clean(s, {"apply", "failed"})'
            PROVE  Told(s, Masked(profile[s]))
        <4>1. Clean(s, {"apply", "failed"}) /\ <<s, "apply">> \notin overlap'
          BY <1>1, <3>2 DEF Clean
        <4>2. \A q \in Slots : ~Writing(q, s)
          BY <1>3, <2>1, <4>1 DEF Writing, Writes
        <4> QED BY <4>1, <4>2 DEF ProfileIInv, Explained
      <3>3. Clean(s, {"apply", "failed"})' => Midway(r, s)'
        BY <1>1, <1>7, <2>1, <3>2 DEF Midway, Told, profiles
      <3> QED BY <1>5, <3>1, <3>3, ExplainedOwn
    <2>2. CASE ~(a.section = s /\ a.kind \in {"decide", "direct"})
      <3>1. a.section = s => a.kind = "request"
        BY <2>2
      <3> QED BY <1>1, <1>5, <1>6, <3>1, NoAskType, ExplainedKeeps DEF profiles
    <2> QED BY <2>1, <2>2
  <1>10. ASSUME NEW i \in ChangeIds
         PROVE  DecidedAlone(i)'
    BY <1>1, <1>5, <1>6, NoAskType, DecidedKeeps DEF profiles
  <1>11. ASSUME NEW s \in Sections, NEW f \in Columns[s[2]]
         PROVE  Merged(s, f)'
    <2>1. ~Holds(r, s, f) /\ ~Holds(r, s, f)'
      BY <1>1, <1>7 DEF Holds, Unapproved
    <2> QED BY <1>1, <1>5, <2>1, MergedKeeps DEF profiles
  <1>12. QED
    BY <1>2, <1>5, <1>8, <1>9, <1>10, <1>11, SectionStep

LEMMA AskRequestIInv ==
  ASSUME AccountIInv, ProfileIInv, NEW r \in Slots, AskRequest(r)
  PROVE  AccountIInv' /\ ProfileIInv'
  <1>1. PICK u \in Rows, t \in Targets, v \in Forms :
          Accept(r, [NoAsk EXCEPT !.kind = "request", !.section = <<u, t>>,
                                  !.value = v], "findPending")
    BY DEF AskRequest
  <1> DEFINE a == [NoAsk EXCEPT !.kind = "request", !.section = <<u, t>>, !.value = v]
  <1>2. <<u, t>> \in Sections
    BY DEF Sections, Rows
  <1>3. /\ a \in AskRow /\ a.kind = "request" /\ a.section \in Sections /\ a.id = None
        /\ a.value \in Forms
    BY <1>2 DEF AskRow, AskKinds, NoAsk
  <1>4. Accept(r, a, "findPending")
    BY <1>1
  <1> HIDE DEF a
  <1>5. QED
    BY <1>3, <1>4, AcceptStep

LEMMA AskDirectIInv ==
  ASSUME AccountIInv, ProfileIInv, NEW r \in Slots, AskDirect(r)
  PROVE  AccountIInv' /\ ProfileIInv'
  <1>1. PICK u \in Rows, t \in Targets, v \in Forms :
          Accept(r, [NoAsk EXCEPT !.kind = "direct", !.section = <<u, t>>,
                                  !.value = v], "before")
    BY DEF AskDirect
  <1> DEFINE a == [NoAsk EXCEPT !.kind = "direct", !.section = <<u, t>>, !.value = v]
  <1>2. <<u, t>> \in Sections
    BY DEF Sections, Rows
  <1>3. /\ a \in AskRow /\ a.kind = "direct" /\ a.section \in Sections /\ a.id = None
        /\ a.value \in Forms
    BY <1>2 DEF AskRow, AskKinds, NoAsk
  <1>4. Accept(r, a, "before")
    BY <1>1
  <1> HIDE DEF a
  <1>5. QED
    BY <1>3, <1>4, AcceptStep

LEMMA AskDecideIInv ==
  ASSUME AccountIInv, ProfileIInv, NEW r \in Slots, AskDecide(r)
  PROVE  AccountIInv' /\ ProfileIInv'
  <1>1. PICK i \in ChangeIds \ FreshIds, approve \in BOOLEAN :
          Accept(r, [NoAsk EXCEPT !.kind = "decide", !.section = change[i].section,
                                  !.id = i, !.approve = approve], "findChange")
    BY DEF AskDecide
  <1> DEFINE a == [NoAsk EXCEPT !.kind = "decide", !.section = change[i].section,
                                !.id = i, !.approve = approve]
  <1>2. change[i].status # "ABSENT" /\ change[i].section \in Sections
    BY <1>1 DEF FreshIds, ProfileIInv, ChangesAgree
  <1>3. /\ a \in AskRow /\ a.kind = "decide" /\ a.section = change[i].section /\ a.id = i
    BY <1>2 DEF AskRow, AskKinds, NoAsk
  <1>4. Accept(r, a, "findChange")
    BY <1>1
  <1> HIDE DEF a
  <1>5. QED
    BY <1>2, <1>3, <1>4, AcceptStep

LEMMA SectionAccounts ==
  ASSUME AccountIInv, ProfileIInv, NEW r \in Slots, pc[r] \in ProfileLabels,
         UNCHANGED accountsVars, NEW l \in ProfileLabels \cup {"idle"}, GoTo(r, l)
  PROVE  AccountIInv'
  <1>1. req[r] = NotAsked /\ req' = [req EXCEPT ![r] = NotAsked]
    BY AskFacts DEF accountsVars, AccountIInv, AccountsTypeOK
  <1>2. Moves(r, l, NotAsked)
    BY <1>1 DEF Moves, GoTo
  <1>3. QED
    BY <1>2, SectionStepAccounts DEF accountsVars

\* A step that only reads, or a slot that leaves.
Stays(r, l, a) ==
    \/ l = "idle" /\ a = NoAsk
    \/ /\ l \in ProfileLabels
       /\ a.section = ask[r].section /\ a.kind = ask[r].kind /\ a.id = ask[r].id
\* What it has written and not had approved is still in its hands, or marked.
Written == {"after", "markApproved", "record"}
Carries(r, l, a) ==
    \/ pc[r] \notin Written /\ l \notin Written
    \/ pc[r] \in Written /\ l \in Written /\ a.value = ask[r].value
    \/ /\ l = "idle"
       /\ \A f \in DOMAIN ask[r].value :
             pc[r] \in Written => <<ask[r].section, f>> \in overlap'

LEMMA QuietStep ==
  ASSUME AccountIInv, ProfileIInv, NEW r \in Slots, pc[r] \in ProfileLabels,
         UNCHANGED <<accountsVars, profiles>>, overlap \subseteq overlap',
         NEW l \in Labels, NEW a \in AskRow, PMoves(r, l, a), Suits(l, a), Stays(r, l, a),
         NEW s \in Sections, s = ask[r].section,
         l = "createChange" => Pending(s) = {},
         ask[r].kind # "request" /\ Clean(s, {"apply", "failed"})' =>
            IF l = "idle" THEN Told(s, Masked(profile[s])) ELSE Midway(r, s)',
         Carries(r, l, a),
         ask[r].kind = "decide" /\ pc[r] \in {"after", "markApproved"} =>
            l \in {"after", "markApproved"} \/ <<s, "failed">> \in overlap',
         ask[r].kind = "decide" /\ l \notin {"idle", "findChange", "auditApplied"} =>
            \/ pc[r] \notin {"findChange", "auditApplied"}
            \/ change[ask[r].id].status = "PENDING"
  PROVE  AccountIInv' /\ ProfileIInv'
  <1>1. AccountIInv'
    BY SectionAccounts DEF Stays, PMoves, GoTo
  <1>2. /\ ask[r].kind = "decide" =>
              /\ ask[r].id \in ChangeIds
              /\ change[ask[r].id].status # "ABSENT"
              /\ change[ask[r].id].section = ask[r].section
        /\ ask[r].kind # "decide" => ask[r].id = None
        /\ ask[r].kind \in {"request", "decide", "direct"}
    BY AskFacts DEF AskRow, AskKinds
  <1>3. Framed(r, l, a)
    BY <1>2, FramedSame, NoAskType DEF Stays
  <1>4. /\ pc'[r] = l /\ ask'[r] = a
        /\ \A q \in Slots : q # r => pc'[q] = pc[q] /\ ask'[q] = ask[q]
    BY PMovesOnly
  <1>5. ASSUME NEW x \in Sections
        PROVE  PendingAlone(x)'
    <2>1. l = "createChange" /\ a.section = x => x = s
      BY DEF Stays
    <2> QED BY <1>3, <2>1, PendingSame, PendingKeeps
  <1>6. ASSUME NEW x \in Sections
        PROVE  Explained(x)'
    <2>1. CASE x = s /\ ask[r].kind # "request"
      <3>1. Writing(r, x)
        BY <1>2, <2>1 DEF Writing
      <3>2. Writing(r, x)' <=> l # "idle"
        BY <1>2, <1>4, <2>1, NoAskType DEF Writing, Stays, ProfileLabels
      <3>3. Told(x, Masked(profile[x]))' <=> Told(x, Masked(profile[x]))
        BY DEF profiles, Told
      <3> QED BY <1>3, <2>1, <3>1, <3>2, <3>3, ExplainedOwn
    <2>2. CASE ~(x = s /\ ask[r].kind # "request")
      <3>1. ask[r].section = x => ask[r].kind = "request"
        BY <2>2
      <3>2. a.section = x => a.kind = "request"
        BY <3>1, NoAskType DEF Stays
      <3> QED BY <1>3, <3>1, <3>2, ExplainedKeeps DEF profiles
    <2> QED BY <2>1, <2>2
  <1>7. ASSUME NEW i \in ChangeIds
        PROVE  DecidedAlone(i)'
    <2>1. CASE ask[r].id = i
      <3>1. ask[r].kind = "decide" /\ change[i].section = s
        BY <1>2, <2>1, NoAskType
      <3>2. pc[r] \in {"after", "markApproved"} =>
            \/ a.id = i /\ l \in {"after", "markApproved"}
            \/ <<change[i].section, "failed">> \in overlap'
        BY <2>1, <3>1 DEF Stays
      <3>3. a.kind = "decide" => l # "idle"
        BY NoAskType DEF Stays, ProfileLabels
      <3>4. a.id = i /\ a.kind = "decide" /\ l \notin {"findChange", "auditApplied"} =>
              \/ ask[r].id = i /\ Deciding(r) /\ pc[r] # "auditApplied"
              \/ change[i].status = "PENDING"
        BY <2>1, <3>1, <3>3 DEF Deciding
      <3> QED BY <1>3, <3>2, <3>4, DecidedKeeps DEF profiles
    <2>2. CASE ask[r].id # i
      <3>1. a.id # i
        BY <2>2, NoAskType DEF Stays
      <3> QED BY <1>3, <2>2, <3>1, DecidedKeeps DEF profiles
    <2> QED BY <2>1, <2>2
  <1>8. ASSUME NEW x \in Sections, NEW f \in Columns[x[2]]
        PROVE  Merged(x, f)'
    <2>1. Holds(r, x, f)' <=> /\ l \in Written /\ a.section = x
                              /\ f \in DOMAIN a.value
      BY <1>4 DEF Holds, Unapproved, Written
    <2>2. Holds(r, x, f) <=> /\ pc[r] \in Written /\ ask[r].section = x
                             /\ f \in DOMAIN ask[r].value
      BY DEF Holds, Unapproved, Written
    <2>3. l \in Written => a.section = ask[r].section
      BY DEF Stays, Written
    <2>4. Holds(r, x, f)' => Holds(r, x, f) /\ a.value = ask[r].value
      BY <2>1, <2>2, <2>3 DEF Carries, Written
    <2>5. Holds(r, x, f) => Holds(r, x, f)' \/ <<x, f>> \in overlap'
      BY <2>1, <2>2, <2>3 DEF Carries
    <2> QED BY <1>3, <2>4, <2>5, MergedKeeps DEF profiles
  <1>9. QED
    BY <1>1, <1>3, <1>5, <1>6, <1>7, <1>8, SectionStep

LEMMA LeaveMoves ==
  ASSUME NEW r \in Slots, Leave(r)
  PROVE  PMoves(r, "idle", NoAsk) /\ GoTo(r, "idle")
  BY DEF Leave, PMoves, GoTo

LEMMA GoMoves ==
  ASSUME ProfileIInv, NEW r \in Slots, NEW l, Go(r, l)
  PROVE  PMoves(r, l, ask[r]) /\ GoTo(r, l)
  BY DEF Go, PMoves, GoTo, ProfileIInv, ProfileTypeOK

LEMMA IdleSuits == Suits("idle", NoAsk) /\ "idle" \in Labels /\ NoAsk \in AskRow
  BY NoAskType DEF Suits, ProfileLabels, AccountLabels, Labels

\* A slot leaves that had written nothing, or nothing that is not approved.
LEMMA IdleMerged ==
  ASSUME AccountIInv, ProfileIInv, NEW r \in Slots, Framed(r, "idle", NoAsk),
         pc[r] \notin {"after", "markApproved", "record"}, UNCHANGED <<profile, latest>>,
         NEW s \in Sections, NEW f \in Columns[s[2]]
  PROVE  Merged(s, f)'
  <1>1. pc'[r] = "idle"
    BY IdleSuits, PMovesOnly DEF Framed
  <1>2. ~Holds(r, s, f) /\ ~Holds(r, s, f)'
    BY <1>1 DEF Holds, Unapproved
  <1>3. QED
    BY <1>2, MergedKeeps

LEMMA FindPendingIInv ==
  ASSUME AccountIInv, ProfileIInv, NEW r \in Slots, FindPending(r)
  PROVE  AccountIInv' /\ ProfileIInv'
  <1>1. /\ pc[r] = "findPending" /\ UNCHANGED <<accountsVars, profiles, overlap>>
        /\ pc[r] \in ProfileLabels
    BY DEF FindPending, ProfileLabels
  <1>2. /\ Suits("findPending", ask[r]) /\ ask[r] \in AskRow
        /\ ask[r].section \in Sections /\ ask[r].kind = "request"
    BY <1>1, AskFacts DEF Suits
  <1>3. CASE Leave(r)
    BY <1>1, <1>2, <1>3, LeaveMoves, IdleSuits, QuietStep DEF Stays, Carries, Written
  <1>4. CASE Pending(ask[r].section) = {} /\ Go(r, "createChange")
    <2>1. Suits("createChange", ask[r]) /\ "createChange" \in Labels
      BY <1>2 DEF Suits, ProfileLabels, AccountLabels, Labels
    <2> QED BY <1>1, <1>2, <1>4, <2>1, GoMoves, QuietStep DEF Stays, ProfileLabels, Carries, Written
  <1>5. QED
    BY <1>3, <1>4 DEF FindPending

LEMMA FindChangeIInv ==
  ASSUME AccountIInv, ProfileIInv, NEW r \in Slots, FindChange(r)
  PROVE  AccountIInv' /\ ProfileIInv'
  <1> PICK s : s = ask[r].section
    OBVIOUS
  <1>1. /\ pc[r] = "findChange" /\ UNCHANGED <<accountsVars, profiles, overlap>>
        /\ pc[r] \in ProfileLabels
    BY DEF FindChange, ProfileLabels
  <1>2. /\ Suits("findChange", ask[r]) /\ ask[r] \in AskRow
        /\ s \in Sections /\ ask[r].kind = "decide" /\ ask[r].id \in ChangeIds
    BY <1>1, AskFacts DEF Suits
  <1>3. Clean(s, {"apply", "failed"})' => Told(s, Masked(profile[s]))
    <2>1. Clean(s, {"apply", "failed"})' => Clean(s, {"apply", "failed"})
      BY <1>1 DEF Clean
    <2>2. Explained(s) /\ Writing(r, s)
      BY <1>2 DEF ProfileIInv, Writing
    <2> QED BY <1>1, <2>1, <2>2 DEF Explained, Midway
  <1>4. CASE Leave(r)
    <2>1. PMoves(r, "idle", NoAsk)
      BY <1>4, LeaveMoves
    <2>2. Suits("idle", NoAsk) /\ "idle" \in Labels /\ NoAsk \in AskRow
      BY IdleSuits
    <2>3. Stays(r, "idle", NoAsk)
      BY DEF Stays
    <2>4. Carries(r, "idle", NoAsk)
      BY <1>1 DEF Carries, Written
    <2> QED BY <1>1, <1>2, <1>3, <2>1, <2>2, <2>3, <2>4, QuietStep
  <1>5. CASE /\ change[ask[r].id].status = "PENDING"
             /\ ask' = [ask EXCEPT ![r].value = change[ask[r].id].proposed]
             /\ GoTo(r, IF ask[r].approve THEN "before" ELSE "rejectChange")
    <2> DEFINE a == [ask[r] EXCEPT !.value = change[ask[r].id].proposed]
    <2>1. PICK l \in {"before", "rejectChange"} : GoTo(r, l)
      BY <1>5
    <2>2. change[ask[r].id].proposed \in Forms
      BY <1>1, <1>2, AskFacts DEF ProfileIInv, ChangesAgree
    <2>3. /\ a \in AskRow /\ a.section = s /\ a.kind = "decide" /\ a.id = ask[r].id
          /\ a.value \in Forms
      BY <1>2, <2>2 DEF AskRow
    <2>4. PMoves(r, l, a)
      <3>1. ask' = [ask EXCEPT ![r] = a]
        BY <1>2, <1>5 DEF ProfileIInv, ProfileTypeOK, AskRow
      <3> QED BY <2>1, <3>1 DEF PMoves, GoTo
    <2> HIDE DEF a
    <2>5. Suits(l, a) /\ l \in Labels /\ Stays(r, l, a)
      BY <1>2, <2>3 DEF Suits, ProfileLabels, AccountLabels, Labels, Stays
    <2>6. pc'[r] = l /\ ask'[r] = a
      BY <2>3, <2>4, <2>5, PMovesOnly
    <2>7. Clean(s, {"apply", "failed"})' => Midway(r, s)'
      BY <1>1, <1>3, <2>6 DEF Midway, Told, profiles
    <2>8. Carries(r, l, a)
      BY <1>1 DEF Carries, Written
    <2> QED BY <1>1, <1>2, <1>5, <2>3, <2>4, <2>5, <2>7, <2>8, QuietStep
  <1>6. QED
    BY <1>4, <1>5 DEF FindChange

LEMMA BeforeIInv ==
  ASSUME AccountIInv, ProfileIInv, NEW r \in Slots, Before(r)
  PROVE  AccountIInv' /\ ProfileIInv'
  <1> PICK s : s = ask[r].section
    OBVIOUS
  <1> DEFINE a == [ask[r] EXCEPT !.before = profile[s]]
  <1>1. /\ pc[r] = "before" /\ UNCHANGED <<accountsVars, profiles, overlap>>
        /\ pc[r] \in ProfileLabels /\ GoTo(r, "apply")
        /\ ask' = [ask EXCEPT ![r].before = profile[s]]
    BY DEF Before, ProfileLabels
  <1>2. /\ Suits("before", ask[r]) /\ ask[r] \in AskRow
        /\ s \in Sections /\ ask[r].kind \in {"decide", "direct"}
    BY <1>1, AskFacts DEF Suits, AskRow, AskKinds, ProfileLabels
  <1>3. Clean(s, {"apply", "failed"})' => Told(s, Masked(profile[s]))
    <2>1. Clean(s, {"apply", "failed"})' => Clean(s, {"apply", "failed"})
      BY <1>1 DEF Clean
    <2>2. Explained(s) /\ Writing(r, s)
      BY <1>2 DEF ProfileIInv, Writing
    <2> QED BY <1>1, <2>1, <2>2 DEF Explained, Midway
  <1>4. profile[s] \in AnyRow
    BY <1>2 DEF ProfileIInv, ProfileTypeOK, Holding
  <1>5. /\ a \in AskRow /\ a.section = s /\ a.kind = ask[r].kind /\ a.id = ask[r].id
        /\ a.before = profile[s] /\ a.value = ask[r].value
    BY <1>2, <1>4 DEF AskRow
  <1>6. PMoves(r, "apply", a)
    <2>1. ask' = [ask EXCEPT ![r] = a]
      BY <1>1, <1>2 DEF ProfileIInv, ProfileTypeOK, AskRow
    <2> QED BY <1>1, <2>1 DEF PMoves, GoTo
  <1> HIDE DEF a
  <1>7. Suits("apply", a) /\ "apply" \in Labels /\ Stays(r, "apply", a)
    BY <1>2, <1>5 DEF Suits, ProfileLabels, AccountLabels, Labels, Stays
  <1>8. pc'[r] = "apply" /\ ask'[r] = a
    BY <1>5, <1>6, <1>7, PMovesOnly
  <1>9. Clean(s, {"apply", "failed"})' => Midway(r, s)'
    BY <1>1, <1>3, <1>5, <1>8 DEF Midway, Told, profiles
  <1>10. Carries(r, "apply", a)
    BY <1>1, <1>5 DEF Carries, Written
  <1>11. QED
    BY <1>1, <1>2, <1>5, <1>6, <1>7, <1>9, <1>10, QuietStep

LEMMA AfterIInv ==
  ASSUME AccountIInv, ProfileIInv, NEW r \in Slots, After(r)
  PROVE  AccountIInv' /\ ProfileIInv'
  <1> PICK s : s = ask[r].section
    OBVIOUS
  <1> PICK l : l = IF ask[r].kind = "decide" THEN "markApproved" ELSE "record"
    OBVIOUS
  <1> DEFINE a == [ask[r] EXCEPT !.after = profile[s]]
  <1>1. /\ pc[r] = "after" /\ UNCHANGED <<accountsVars, profiles, overlap>>
        /\ pc[r] \in ProfileLabels /\ GoTo(r, l)
        /\ ask' = [ask EXCEPT ![r].after = profile[s]]
    BY DEF After, ProfileLabels
  <1>2. /\ Suits("after", ask[r]) /\ ask[r] \in AskRow
        /\ s \in Sections /\ ask[r].kind \in {"decide", "direct"}
    BY <1>1, AskFacts DEF Suits, AskRow, AskKinds, ProfileLabels
  <1>3. Clean(s, {"apply", "failed"})' => Told(s, Masked(ask[r].before))
    <2>1. Clean(s, {"apply", "failed"})' => Clean(s, {"apply", "failed"})
      BY <1>1 DEF Clean
    <2>2. Explained(s) /\ Writing(r, s)
      BY <1>2 DEF ProfileIInv, Writing
    <2> QED BY <1>1, <2>1, <2>2 DEF Explained, Midway
  <1>4. profile[s] \in AnyRow
    BY <1>2 DEF ProfileIInv, ProfileTypeOK, Holding
  <1>5. /\ a \in AskRow /\ a.section = s /\ a.kind = ask[r].kind /\ a.id = ask[r].id
        /\ a.after = profile[s] /\ a.before = ask[r].before /\ a.value = ask[r].value
    BY <1>2, <1>4 DEF AskRow
  <1>6. PMoves(r, l, a)
    <2>1. ask' = [ask EXCEPT ![r] = a]
      BY <1>1, <1>2 DEF ProfileIInv, ProfileTypeOK, AskRow
    <2> QED BY <1>1, <2>1 DEF PMoves, GoTo
  <1> HIDE DEF a
  <1>7. Suits(l, a) /\ l \in Labels /\ Stays(r, l, a)
    BY <1>2, <1>5 DEF Suits, ProfileLabels, AccountLabels, Labels, Stays
  <1>8. pc'[r] = l /\ ask'[r] = a
    BY <1>5, <1>6, <1>7, PMovesOnly
  <1>9. Clean(s, {"apply", "failed"})' => Midway(r, s)'
    BY <1>1, <1>3, <1>5, <1>8 DEF Midway, Told, profiles
  <1>10. Carries(r, l, a)
    BY <1>1, <1>5 DEF Carries, Written
  <1>11. QED
    BY <1>1, <1>2, <1>5, <1>6, <1>7, <1>9, <1>10, QuietStep

LEMMA ProfileFailIInv ==
  ASSUME AccountIInv, ProfileIInv, NEW r \in Slots, ProfileFail(r)
  PROVE  AccountIInv' /\ ProfileIInv'
  <1> PICK s : s = ask[r].section
    OBVIOUS
  <1>1. /\ UNCHANGED <<accountsVars, profiles>> /\ Leave(r)
        /\ overlap' = overlap \cup {<<s, tag>> : tag \in {"failed"} \cup Unapproved(r)}
        /\ ask[r] # NoAsk
    BY DEF ProfileFail
  <1>2. pc[r] \in ProfileLabels
    BY <1>1, AskFacts DEF Suits, Labels
  <1>3. s \in Sections
    BY <1>2, AskFacts
  <1>4. ~Clean(s, {"apply", "failed"})' /\ <<s, "failed">> \in overlap'
    BY <1>1 DEF Clean
  <1>5. overlap \subseteq overlap'
    BY <1>1
  <1>6. Carries(r, "idle", NoAsk)
    BY <1>1 DEF Carries, Written, Unapproved
  <1>7. QED
    BY <1>1, <1>2, <1>3, <1>4, <1>5, <1>6, LeaveMoves, IdleSuits, QuietStep DEF Stays

LEMMA CreateChangeIInv ==
  ASSUME AccountIInv, ProfileIInv, NEW r \in Slots, CreateChange(r)
  PROVE  AccountIInv' /\ ProfileIInv'
  <1> PICK s : s = ask[r].section
    OBVIOUS
  <1>1. PICK j \in FreshIds :
          change' = [change EXCEPT ![j] = [section |-> s, proposed |-> ask[r].value,
                                           status |-> "PENDING"]]
    BY DEF CreateChange
  <1>2. /\ pc[r] = "createChange" /\ Leave(r) /\ pc[r] \in ProfileLabels
        /\ UNCHANGED <<accountsVars, profile, latest, said, saidGap, applied, overlap>>
    BY DEF CreateChange, ProfileLabels
  <1>3. /\ Suits("createChange", ask[r]) /\ ask[r] \in AskRow /\ ask[r].value \in Forms
        /\ s \in Sections /\ ask[r].kind = "request" /\ ask[r].id = None
    BY <1>2, AskFacts DEF Suits, ProfileLabels
  <1>4. AccountIInv'
    BY <1>2, LeaveMoves, SectionAccounts
  <1>5. /\ j \in ChangeIds /\ change[j] = NoChange /\ change[j].status = "ABSENT"
        /\ change' \in [ChangeIds -> ChangeRow]
        /\ change'[j].status = "PENDING" /\ change'[j].section = s
        /\ change'[j].proposed = ask[r].value
        /\ \A i \in ChangeIds : i # j => change'[i] = change[i]
    BY <1>1, <1>3 DEF FreshIds, NoChange, ProfileIInv, ProfileTypeOK, ChangeRow, AskRow
  <1>6. Framed(r, "idle", NoAsk)
    <2>1. PMoves(r, "idle", NoAsk)
      BY <1>2, LeaveMoves
    <2>2. \A i \in ChangeIds :
            /\ change[i].status # "ABSENT" => /\ change'[i].status # "ABSENT"
                                              /\ change'[i].section = change[i].section
            /\ IF change'[i].status = "ABSENT" THEN change'[i] = NoChange
               ELSE change'[i].section \in Sections /\ change'[i].proposed \in Forms
      BY <1>3, <1>5 DEF ProfileIInv, ChangesAgree
    <2>3. \A i \in applied' : i \in ChangeIds /\ change'[i].status # "ABSENT"
      BY <1>2, <2>2 DEF ProfileIInv, ChangesAgree
    <2> QED BY <1>2, <1>5, <2>1, <2>2, <2>3, IdleSuits, NoAskType DEF Framed, ProfileIInv, ProfileTypeOK
  <1>7. ASSUME NEW x \in Sections
        PROVE  PendingAlone(x)'
    <2>1. CASE x # s
      <3>1. Pending(x)' = Pending(x)
        BY <1>3, <1>5, <2>1, NoAskType DEF Pending, NoChange
      <3> QED BY <1>6, <3>1, PendingKeeps
    <2>2. ASSUME x = s, Clean(s, {"request"})'
          PROVE  /\ \A i, k \in Pending(s)' : i = k
                 /\ \A q \in Slots : ~(pc'[q] = "createChange" /\ ask'[q].section = s)
      <3>1. Clean(s, {"request"})
        BY <1>2, <2>2 DEF Clean
      <3>2. Pending(s) = {}
        BY <1>2, <1>3, <3>1 DEF ProfileIInv, PendingAlone
      <3>3. Pending(s)' \subseteq {j}
        BY <1>5, <3>2 DEF Pending
      <3>4. ASSUME NEW q \in Slots, pc'[q] = "createChange", ask'[q].section = s
            PROVE  FALSE
        <4>1. q # r /\ pc[q] = "createChange" /\ ask[q].section = s
          BY <1>6, <3>4, PMovesOnly DEF Framed
        <4>2. ask[q].kind = "request"
          BY <4>1, AskFacts DEF Suits
        <4> QED BY <1>3, <3>1, <4>1, <4>2, OnlyOne DEF ProfileIInv
      <3> QED BY <3>3, <3>4
    <2> QED BY <2>1, <2>2 DEF PendingAlone
  <1>8. ASSUME NEW x \in Sections
        PROVE  Explained(x)'
    BY <1>2, <1>3, <1>6, NoAskType, ExplainedKeeps
  <1>9. ASSUME NEW i \in ChangeIds
        PROVE  DecidedAlone(i)'
    <2>1. CASE i # j
      BY <1>2, <1>3, <1>5, <1>6, <2>1, NoAskType, DecidedKeeps
    <2>2. CASE i = j
      <3>1. i \notin applied'
        BY <1>2, <1>5, <2>2 DEF ProfileIInv, ChangesAgree
      <3>2. ASSUME NEW q \in Slots PROVE ask'[q].id # i
        <4>1. ask[q].id # i
          BY <1>5, <2>2, NoAskType, AskFacts
        <4> QED BY <1>6, <4>1, PMovesOnly, NoAskType DEF Framed
      <3> QED BY <3>1, <3>2 DEF DecidedAlone
    <2> QED BY <2>1, <2>2
  <1>10. ASSUME NEW x \in Sections, NEW f \in Columns[x[2]]
         PROVE  Merged(x, f)'
    BY <1>2, <1>6, IdleMerged
  <1>11. QED
    BY <1>4, <1>6, <1>7, <1>8, <1>9, <1>10, SectionStep

LEMMA RejectIInv ==
  ASSUME AccountIInv, ProfileIInv, NEW r \in Slots, Reject(r)
  PROVE  AccountIInv' /\ ProfileIInv'
  <1> PICK s : s = ask[r].section
    OBVIOUS
  <1> PICK j : j = ask[r].id
    OBVIOUS
  <1>1. /\ change' = [change EXCEPT ![j].status = "REJECTED"]
        /\ pc[r] = "rejectChange" /\ Leave(r) /\ pc[r] \in ProfileLabels
        /\ UNCHANGED <<accountsVars, profile, latest, said, saidGap, applied, overlap>>
    BY DEF Reject, ProfileLabels
  <1>2. /\ s \in Sections /\ ask[r].kind = "decide" /\ j \in ChangeIds
        /\ change[j].status # "ABSENT" /\ change[j].section = s
    BY <1>1, AskFacts DEF Suits
  <1>3. AccountIInv'
    BY <1>1, LeaveMoves, SectionAccounts
  <1>4. /\ change' \in [ChangeIds -> ChangeRow]
        /\ change'[j].status = "REJECTED" /\ change'[j].section = s
        /\ change'[j].proposed = change[j].proposed
        /\ \A i \in ChangeIds : i # j => change'[i] = change[i]
    BY <1>1, <1>2 DEF ProfileIInv, ProfileTypeOK, ChangeRow
  <1>5. Framed(r, "idle", NoAsk)
    <2>1. PMoves(r, "idle", NoAsk)
      BY <1>1, LeaveMoves
    <2>2. \A i \in ChangeIds :
            /\ change[i].status # "ABSENT" => /\ change'[i].status # "ABSENT"
                                              /\ change'[i].section = change[i].section
            /\ IF change'[i].status = "ABSENT" THEN change'[i] = NoChange
               ELSE change'[i].section \in Sections /\ change'[i].proposed \in Forms
      BY <1>2, <1>4 DEF ProfileIInv, ChangesAgree
    <2>3. \A i \in applied' : i \in ChangeIds /\ change'[i].status # "ABSENT"
      BY <1>1, <2>2 DEF ProfileIInv, ChangesAgree
    <2> QED BY <1>1, <1>4, <2>1, <2>2, <2>3, IdleSuits, NoAskType DEF Framed, ProfileIInv, ProfileTypeOK
  <1>6. ASSUME NEW x \in Sections
        PROVE  PendingAlone(x)'
    <2>1. Pending(x)' \subseteq Pending(x)
      BY <1>4 DEF Pending
    <2> QED BY <1>5, <2>1, PendingKeeps
  <1>7. ASSUME NEW x \in Sections
        PROVE  Explained(x)'
    <2>1. CASE x = s
      <3>1. Writing(r, x) /\ pc'[r] = "idle" /\ ask'[r] = NoAsk
        BY <1>2, <1>5, <2>1, PMovesOnly DEF Writing, Framed
      <3>2. Clean(s, {"apply", "failed"})' => Told(s, Masked(profile[s]))
        <4>1. Clean(s, {"apply", "failed"})' => Clean(s, {"apply", "failed"})
          BY <1>1 DEF Clean
        <4> QED BY <1>1, <2>1, <3>1, <4>1 DEF ProfileIInv, Explained, Midway
      <3>3. ~Writing(r, x)'
        BY <3>1, NoAskType DEF Writing
      <3>4. Told(x, Masked(profile[x]))' <=> Told(x, Masked(profile[x]))
        BY <1>1 DEF Told
      <3> QED BY <1>1, <1>5, <2>1, <3>1, <3>2, <3>3, <3>4, ExplainedOwn
    <2>2. CASE x # s
      BY <1>1, <1>5, <2>2, NoAskType, ExplainedKeeps
    <2> QED BY <2>1, <2>2
  <1>8. ASSUME NEW i \in ChangeIds
        PROVE  DecidedAlone(i)'
    <2>1. CASE i # j
      BY <1>1, <1>4, <1>5, <2>1, NoAskType, DecidedKeeps
    <2>2. ASSUME i = j, Clean(s, {"decide", "failed"})'
          PROVE  /\ i \notin applied'
                 /\ \A q \in Slots : ask'[q].id # i
      <3>1. Clean(s, {"decide", "failed"})
        BY <1>1, <2>2 DEF Clean
      <3>2. \A q \in Slots : ask[q].id = i => q = r
        BY <1>2, <2>2, <3>1, OneDecides
      <3>3. change[i].status = "PENDING"
        BY <1>1, <1>2, <2>2, <3>1 DEF ProfileIInv, DecidedAlone, Deciding
      <3>4. i \notin applied
        BY <1>1, <1>2, <2>2, <3>1, <3>2, <3>3 DEF ProfileIInv, DecidedAlone
      <3>5. \A q \in Slots : ask'[q].id # i
        BY <1>5, <3>2, NoAskType, PMovesOnly DEF Framed
      <3> QED BY <1>1, <3>4, <3>5
    <2>3. CASE i = j
      <3>1. change'[i].section = s
        BY <1>4, <2>3
      <3> QED BY <2>2, <2>3, <3>1 DEF DecidedAlone, Clean
    <2> QED BY <2>1, <2>3
  <1>9. ASSUME NEW x \in Sections, NEW f \in Columns[x[2]]
        PROVE  Merged(x, f)'
    BY <1>1, <1>5, IdleMerged
  <1>10. QED
    BY <1>3, <1>5, <1>6, <1>7, <1>8, <1>9, SectionStep

LEMMA UpsertIInv ==
  ASSUME AccountIInv, ProfileIInv, NEW r \in Slots, ApplyChange(r),
         Accepts(ask[r].section[2], ask[r].value)
  PROVE  AccountIInv' /\ ProfileIInv'
  <1> PICK s : s = ask[r].section
    OBVIOUS
  <1>1. /\ profile' = [profile EXCEPT ![s] = Upserted(profile[s], s[2], ask[r].value)]
        /\ applied' = applied \cup ({ask[r].id} \ {None})
        /\ pc[r] = "apply" /\ Go(r, "after") /\ pc[r] \in ProfileLabels
        /\ UNCHANGED <<accountsVars, change, latest, said, saidGap>>
        /\ overlap \subseteq overlap'
        /\ \A q \in Slots, f \in DOMAIN ask[r].value : Holds(q, s, f) => <<s, f>> \in overlap'
    BY DEF ApplyChange, ProfileLabels, Holds
  <1>2. /\ s \in Sections /\ ask[r].kind \in {"decide", "direct"} /\ ask[r] \in AskRow
        /\ Suits("apply", ask[r]) /\ ask[r].value \in Forms
        /\ IF ask[r].kind = "decide"
           THEN /\ ask[r].id \in ChangeIds
                /\ change[ask[r].id].status # "ABSENT"
                /\ change[ask[r].id].section = s
           ELSE ask[r].id = None
    BY <1>1, AskFacts DEF Suits, ProfileLabels, AskRow, AskKinds
  <1>3. AccountIInv'
    BY <1>1, GoMoves, SectionAccounts DEF ProfileLabels
  <1>4. /\ profile' \in Holding
        /\ \A x \in Sections : x # s => profile'[x] = profile[x]
        /\ \A f \in Columns[s[2]] :
              f \in DOMAIN ask[r].value => FieldOf(profile'[s], f) = FieldOf(ask[r].value, f)
        /\ \A f \in Columns[s[2]] :
              f \notin DOMAIN ask[r].value => FieldOf(profile'[s], f) = FieldOf(profile[s], f)
    <2>1. profile \in Holding
      BY DEF ProfileIInv, ProfileTypeOK
    <2>2. PICK row : row = Upserted(profile[s], s[2], ask[r].value)
      OBVIOUS
    <2>3. row \in RowsOf(s[2]) /\ row \in AnyRow
      BY <1>2, <2>1, <2>2, UpsertRow
    <2>4. profile' = [profile EXCEPT ![s] = row]
      BY <1>1, <2>2
    <2>5. /\ profile' \in [Sections -> AnyRow] /\ profile'[s] = row
          /\ \A x \in Sections : x # s => profile'[x] = profile[x]
      BY <1>2, <2>1, <2>3, <2>4 DEF Holding
    <2>6. profile' \in Holding
      BY <2>1, <2>3, <2>5 DEF Holding
    <2>7. \A f \in Columns[s[2]] : FieldOf(profile'[s], f) =
             IF f \in DOMAIN ask[r].value THEN FieldOf(ask[r].value, f)
             ELSE FieldOf(profile[s], f)
      BY <1>2, <2>1, <2>2, <2>5, UpsertRow
    <2> QED BY <2>5, <2>6, <2>7
  <1>5. Framed(r, "after", ask[r])
    <2>1. PMoves(r, "after", ask[r])
      BY <1>1, GoMoves
    <2>2. Suits("after", ask[r]) /\ "after" \in Labels
      BY <1>2 DEF Suits, ProfileLabels, AccountLabels, Labels
    <2>3. \A i \in applied' : i \in ChangeIds /\ change'[i].status # "ABSENT"
      BY <1>1, <1>2 DEF ProfileIInv, ChangesAgree
    <2> QED BY <1>1, <1>2, <1>4, <2>1, <2>2, <2>3 DEF Framed, ProfileIInv, ProfileTypeOK, ChangesAgree
  <1>6. pc'[r] = "after" /\ ask'[r] = ask[r]
    BY <1>5, PMovesOnly DEF Framed
  <1>7. ASSUME NEW x \in Sections
        PROVE  PendingAlone(x)'
    <2>1. Pending(x)' = Pending(x)
      BY <1>1 DEF Pending
    <2> QED BY <1>5, <2>1, PendingKeeps
  <1>8. ASSUME NEW x \in Sections
        PROVE  Explained(x)'
    <2>1. CASE x = s
      <3>1. Writing(r, x) /\ Writing(r, x)'
        BY <1>2, <1>6, <2>1 DEF Writing
      <3>2. ASSUME Clean(s, {"apply", "failed"})'
            PROVE  Midway(r, x)'
        <4>1. Clean(s, {"apply", "failed"})
          BY <1>1, <3>2 DEF Clean
        <4>2. ask[r].before = profile[s] /\ Told(s, Masked(profile[s]))
          BY <1>1, <2>1, <3>1, <4>1 DEF ProfileIInv, Explained, Midway
        <4> QED BY <1>1, <1>4, <1>6, <2>1, <4>2 DEF Midway, Told
      <3> QED BY <1>5, <2>1, <3>1, <3>2, ExplainedOwn
    <2>2. CASE x # s
      BY <1>1, <1>4, <1>5, <2>2, ExplainedKeeps
    <2> QED BY <2>1, <2>2
  <1>9. ASSUME NEW i \in ChangeIds
        PROVE  DecidedAlone(i)'
    <2>1. CASE ask[r].id # i
      BY <1>1, <1>5, <2>1, DecidedKeeps
    <2>2. CASE ask[r].id = i
      <3>1. DecidedAlone(i) /\ change'[i].section = change[i].section /\ i # None
        BY <1>1, NoAskType DEF ProfileIInv
      <3>2. change[i].section = s /\ ask[r].kind = "decide"
        BY <1>2, <2>2, <3>1
      <3>3. Clean(s, {"decide", "failed"})' => Clean(s, {"decide", "failed"})
        BY <1>1 DEF Clean
      <3>4. \A q \in Slots : q # r => pc'[q] = pc[q] /\ ask'[q] = ask[q]
        BY <1>5, PMovesOnly DEF Framed
      <3>5. ASSUME Clean(s, {"decide", "failed"})', NEW q \in Slots, ask'[q].id = i,
                   Deciding(q)', pc'[q] # "auditApplied"
            PROVE  change'[i].status = "PENDING"
        <4>1. CASE q = r
          BY <1>1, <1>6, <2>2, <3>1, <3>2, <3>3, <3>5, <4>1 DEF DecidedAlone, Deciding
        <4>2. CASE q # r
          BY <1>1, <3>1, <3>2, <3>3, <3>4, <3>5, <4>2 DEF DecidedAlone, Deciding
        <4> QED BY <4>1, <4>2
      <3>6. ask'[r].id = i /\ pc'[r] \in {"after", "markApproved"}
        BY <1>6, <2>2
      <3> QED BY <3>1, <3>2, <3>5, <3>6 DEF DecidedAlone, Clean
    <2> QED BY <2>1, <2>2
  <1>10. ASSUME NEW x \in Sections, NEW f \in Columns[x[2]]
         PROVE  Merged(x, f)'
    <2>1. ~Holds(r, x, f) /\ (Holds(r, x, f)' <=> x = s /\ f \in DOMAIN ask[r].value)
      BY <1>1, <1>6 DEF Holds, Unapproved
    <2>2. CASE ~(x = s /\ f \in DOMAIN ask[r].value)
      BY <1>1, <1>4, <1>5, <2>1, <2>2, MergedKeeps
    <2>3. ASSUME x = s, f \in DOMAIN ask[r].value, Clean(s, {f})'
          PROVE  /\ \A q \in Slots : Holds(q, s, f)' => q = r
                 /\ FieldOf(profile'[s], f) = FieldOf(ask[r].value, f)
      <3>1. <<s, f>> \notin overlap'
        BY <2>3 DEF Clean
      <3>2. \A q \in Slots : ~Holds(q, s, f)
        BY <1>1, <2>3, <3>1
      <3>3. \A q \in Slots : q # r => ~Holds(q, s, f)'
        <4>1. \A q \in Slots : q # r => pc'[q] = pc[q] /\ ask'[q] = ask[q]
          BY <1>5, PMovesOnly DEF Framed
        <4> QED BY <3>2, <4>1 DEF Holds, Unapproved
      <3> QED BY <1>4, <2>3, <3>3
    <2>4. CASE x = s /\ f \in DOMAIN ask[r].value
      <3>1. Holds(r, s, f)'
        BY <2>1, <2>4
      <3> QED BY <1>6, <2>3, <2>4, <3>1 DEF Merged
    <2> QED BY <2>2, <2>4
  <1>11. QED
    BY <1>3, <1>5, <1>7, <1>8, <1>9, <1>10, SectionStep

\* A form the database does not take leaves everything as it was.
LEMMA RefusedIInv ==
  ASSUME AccountIInv, ProfileIInv, NEW r \in Slots, ApplyChange(r),
         ~Accepts(ask[r].section[2], ask[r].value)
  PROVE  AccountIInv' /\ ProfileIInv'
  <1> PICK s : s = ask[r].section
    OBVIOUS
  <1>1. /\ pc[r] = "apply" /\ pc[r] \in ProfileLabels /\ Leave(r)
        /\ UNCHANGED <<accountsVars, profiles, overlap>>
    BY DEF ApplyChange, ProfileLabels, profiles
  <1>2. s \in Sections /\ ask[r].kind \in {"decide", "direct"}
    BY <1>1, AskFacts DEF Suits, ProfileLabels, AskRow, AskKinds
  <1>3. Clean(s, {"apply", "failed"})' => Told(s, Masked(profile[s]))
    <2>1. Clean(s, {"apply", "failed"})' => Clean(s, {"apply", "failed"})
      BY <1>1 DEF Clean
    <2>2. Explained(s) /\ Writing(r, s)
      BY <1>2 DEF ProfileIInv, Writing
    <2> QED BY <1>1, <2>1, <2>2 DEF Explained, Midway
  <1>4. PMoves(r, "idle", NoAsk) /\ Carries(r, "idle", NoAsk) /\ Stays(r, "idle", NoAsk)
    BY <1>1, LeaveMoves DEF Carries, Written, Stays
  <1>5. QED
    BY <1>1, <1>2, <1>3, <1>4, IdleSuits, QuietStep

LEMMA ApplyChangeIInv ==
  ASSUME AccountIInv, ProfileIInv, NEW r \in Slots, ApplyChange(r)
  PROVE  AccountIInv' /\ ProfileIInv'
  BY UpsertIInv, RefusedIInv

\* A form is approved: what it was written for is what was approved now.
LEMMA ApprovedMerged ==
  ASSUME AccountIInv, ProfileIInv, NEW r \in Slots, Framed(r, "auditApplied", ask[r]),
         pc[r] \in {"markApproved", "record"}, ask[r].value \in Forms,
         NEW s \in Sections, s = ask[r].section,
         latest' = [latest EXCEPT ![s] = Upserted(latest[s], s[2], ask[r].value)],
         UNCHANGED <<profile, overlap>>, NEW x \in Sections, NEW f \in Columns[x[2]]
  PROVE  Merged(x, f)'
  <1>1. /\ pc'[r] = "auditApplied" /\ ask'[r] = ask[r]
        /\ \A q \in Slots : q # r => pc'[q] = pc[q] /\ ask'[q] = ask[q]
    BY PMovesOnly DEF Framed
  <1>2. /\ \A y \in Sections : y # s => latest'[y] = latest[y]
        /\ \A g \in Columns[s[2]] :
              g \in DOMAIN ask[r].value => FieldOf(latest'[s], g) = FieldOf(ask[r].value, g)
        /\ \A g \in Columns[s[2]] :
              g \notin DOMAIN ask[r].value => FieldOf(latest'[s], g) = FieldOf(latest[s], g)
    <2>1. latest \in Holding
      BY DEF ProfileIInv, ProfileTypeOK
    <2>2. PICK row : row = Upserted(latest[s], s[2], ask[r].value)
      OBVIOUS
    <2>3. row \in RowsOf(s[2]) /\ row \in AnyRow
      BY <2>1, <2>2, UpsertRow
    <2>4. latest' = [latest EXCEPT ![s] = row]
      BY <2>2
    <2>5. /\ latest' \in [Sections -> AnyRow] /\ latest'[s] = row
          /\ \A y \in Sections : y # s => latest'[y] = latest[y]
      BY <2>1, <2>3, <2>4 DEF Holding
    <2>6. \A g \in Columns[s[2]] : FieldOf(latest'[s], g) =
             IF g \in DOMAIN ask[r].value THEN FieldOf(ask[r].value, g)
             ELSE FieldOf(latest[s], g)
      BY <2>1, <2>2, <2>5, UpsertRow
    <2> QED BY <2>5, <2>6
  <1>3. ~Holds(r, x, f)' /\ (Holds(r, x, f) <=> x = s /\ f \in DOMAIN ask[r].value)
    BY <1>1 DEF Holds, Unapproved
  <1>4. CASE ~(x = s /\ f \in DOMAIN ask[r].value)
    BY <1>2, <1>3, <1>4, MergedKeeps
  <1>5. CASE x = s /\ f \in DOMAIN ask[r].value
    <2>1. Clean(s, {f})' => Clean(s, {f})
      BY DEF Clean
    <2>2. ASSUME Clean(s, {f})
          PROVE  /\ \A q \in Slots : ~Holds(q, s, f)'
                 /\ FieldOf(profile[s], f) = FieldOf(latest'[s], f)
      <3>1. Merged(s, f) /\ Holds(r, s, f)
        BY <1>3, <1>5 DEF ProfileIInv
      <3>2. \A q \in Slots : q # r => ~Holds(q, s, f)
        BY <2>2, <3>1 DEF Merged
      <3>3. \A q \in Slots : q # r => ~Holds(q, s, f)'
        BY <1>1, <3>2 DEF Holds, Unapproved
      <3> QED BY <1>2, <1>3, <1>5, <2>2, <3>1, <3>3 DEF Merged
    <2> QED BY <1>5, <2>1, <2>2 DEF Merged
  <1>6. QED
    BY <1>4, <1>5

LEMMA MarkApprovedIInv ==
  ASSUME AccountIInv, ProfileIInv, NEW r \in Slots, MarkApproved(r)
  PROVE  AccountIInv' /\ ProfileIInv'
  <1> PICK s : s = ask[r].section
    OBVIOUS
  <1> PICK j : j = ask[r].id
    OBVIOUS
  <1>1. /\ change' = [change EXCEPT ![j].status = "APPROVED"]
        /\ latest' = [latest EXCEPT ![s] = Upserted(latest[s], s[2], ask[r].value)]
        /\ pc[r] = "markApproved" /\ Go(r, "auditApplied") /\ pc[r] \in ProfileLabels
        /\ UNCHANGED <<accountsVars, profile, said, saidGap, applied, overlap>>
    BY DEF MarkApproved, ApprovedLast, ProfileLabels
  <1>2. /\ s \in Sections /\ ask[r].kind = "decide" /\ j \in ChangeIds
        /\ change[j].status # "ABSENT" /\ change[j].section = s
        /\ ask[r] \in AskRow /\ Suits("markApproved", ask[r])
        /\ ask[r].value \in Forms
    BY <1>1, AskFacts DEF Suits, ProfileLabels
  <1>3. AccountIInv'
    BY <1>1, GoMoves, SectionAccounts DEF ProfileLabels
  <1>4. /\ change' \in [ChangeIds -> ChangeRow]
        /\ change'[j].status = "APPROVED" /\ change'[j].section = s
        /\ change'[j].proposed = change[j].proposed
        /\ \A i \in ChangeIds : i # j => change'[i] = change[i]
    BY <1>1, <1>2 DEF ProfileIInv, ProfileTypeOK, ChangeRow
  <1>5. Framed(r, "auditApplied", ask[r])
    <2>1. PMoves(r, "auditApplied", ask[r])
      BY <1>1, GoMoves
    <2>2. \A i \in ChangeIds :
            /\ change[i].status # "ABSENT" => /\ change'[i].status # "ABSENT"
                                              /\ change'[i].section = change[i].section
            /\ IF change'[i].status = "ABSENT" THEN change'[i] = NoChange
               ELSE change'[i].section \in Sections /\ change'[i].proposed \in Forms
      BY <1>2, <1>4 DEF ProfileIInv, ChangesAgree
    <2>3. \A i \in applied' : i \in ChangeIds /\ change'[i].status # "ABSENT"
      BY <1>1, <2>2 DEF ProfileIInv, ChangesAgree
    <2>4. Suits("auditApplied", ask[r]) /\ "auditApplied" \in Labels
      BY <1>2 DEF Suits, ProfileLabels, AccountLabels, Labels
    <2>5. latest' \in Holding
      BY <1>1, <1>2, UpsertHolds DEF ProfileIInv, ProfileTypeOK
    <2> QED BY <1>1, <1>2, <1>4, <2>1, <2>2, <2>3, <2>4, <2>5 DEF Framed, ProfileIInv, ProfileTypeOK
  <1>6. pc'[r] = "auditApplied" /\ ask'[r] = ask[r]
    BY <1>5, PMovesOnly DEF Framed
  <1>7. ASSUME NEW x \in Sections
        PROVE  PendingAlone(x)'
    <2>1. Pending(x)' \subseteq Pending(x)
      BY <1>4 DEF Pending
    <2> QED BY <1>5, <2>1, PendingKeeps
  <1>8. ASSUME NEW x \in Sections
        PROVE  Explained(x)'
    <2>1. CASE x = s
      <3>1. Writing(r, x) /\ Writing(r, x)'
        BY <1>2, <1>6, <2>1 DEF Writing
      <3>2. ASSUME Clean(s, {"apply", "failed"})'
            PROVE  Midway(r, x)'
        <4>1. Clean(s, {"apply", "failed"})
          BY <1>1, <3>2 DEF Clean
        <4>2. ask[r].after = profile[s] /\ Told(s, Masked(ask[r].before))
          BY <1>1, <2>1, <3>1, <4>1 DEF ProfileIInv, Explained, Midway
        <4> QED BY <1>1, <1>4, <1>6, <2>1, <4>2 DEF Midway, Told
      <3> QED BY <1>5, <2>1, <3>1, <3>2, ExplainedOwn
    <2>2. CASE x # s
      BY <1>1, <1>5, <2>2, ExplainedKeeps
    <2> QED BY <2>1, <2>2
  <1>9. ASSUME NEW i \in ChangeIds
        PROVE  DecidedAlone(i)'
    <2>1. CASE i # j
      BY <1>1, <1>4, <1>5, <2>1, DecidedKeeps
    <2>2. ASSUME i = j, Clean(s, {"decide", "failed"})', NEW q \in Slots, ask'[q].id = i,
                 pc'[q] # "auditApplied"
          PROVE  FALSE
      <3>1. Clean(s, {"decide", "failed"})
        BY <1>1, <2>2 DEF Clean
      <3>2. q # r /\ ask[q].id = i
        BY <1>5, <1>6, <2>2, PMovesOnly DEF Framed
      <3> QED BY <1>2, <2>2, <3>1, <3>2, OneDecides
    <2>3. CASE i = j
      <3>1. change'[i].section = s /\ change'[i].status = "APPROVED"
        BY <1>4, <2>3
      <3> QED BY <2>2, <2>3, <3>1 DEF DecidedAlone, Clean
    <2> QED BY <2>1, <2>3
  <1>10. ASSUME NEW x \in Sections, NEW f \in Columns[x[2]]
         PROVE  Merged(x, f)'
    BY <1>1, <1>2, <1>5, <1>6, ApprovedMerged
  <1>11. QED
    BY <1>3, <1>5, <1>7, <1>8, <1>9, <1>10, SectionStep

LEMMA RecordDirectIInv ==
  ASSUME AccountIInv, ProfileIInv, NEW r \in Slots, RecordDirect(r)
  PROVE  AccountIInv' /\ ProfileIInv'
  <1> PICK s : s = ask[r].section
    OBVIOUS
  <1>1. PICK j \in FreshIds :
          /\ change' = [change EXCEPT ![j] = [section |-> s, proposed |-> ask[r].value,
                                              status |-> "APPROVED"]]
          /\ applied' = applied \cup {j}
    BY DEF RecordDirect, ApprovedLast
  <1>2. /\ latest' = [latest EXCEPT ![s] = Upserted(latest[s], s[2], ask[r].value)]
        /\ pc[r] = "record" /\ Go(r, "auditApplied") /\ pc[r] \in ProfileLabels
        /\ UNCHANGED <<accountsVars, profile, said, saidGap, overlap>>
    BY DEF RecordDirect, ApprovedLast, ProfileLabels
  <1>3. /\ s \in Sections /\ ask[r].kind = "direct" /\ ask[r].id = None
        /\ ask[r] \in AskRow /\ Suits("record", ask[r])
        /\ ask[r].value \in Forms
    BY <1>2, AskFacts DEF Suits, ProfileLabels
  <1>4. AccountIInv'
    BY <1>2, GoMoves, SectionAccounts DEF ProfileLabels
  <1>5. /\ j \in ChangeIds /\ change[j] = NoChange /\ change[j].status = "ABSENT"
        /\ change' \in [ChangeIds -> ChangeRow]
        /\ change'[j].status = "APPROVED" /\ change'[j].section = s
        /\ change'[j].proposed = ask[r].value
        /\ \A i \in ChangeIds : i # j => change'[i] = change[i]
    BY <1>1, <1>3 DEF FreshIds, NoChange, ProfileIInv, ProfileTypeOK, ChangeRow, AskRow
  <1>6. latest' \in Holding
    BY <1>2, <1>3, UpsertHolds DEF ProfileIInv, ProfileTypeOK
  <1>7. Framed(r, "auditApplied", ask[r])
    <2>1. PMoves(r, "auditApplied", ask[r])
      BY <1>2, GoMoves
    <2>2. \A i \in ChangeIds :
            /\ change[i].status # "ABSENT" => /\ change'[i].status # "ABSENT"
                                              /\ change'[i].section = change[i].section
            /\ IF change'[i].status = "ABSENT" THEN change'[i] = NoChange
               ELSE change'[i].section \in Sections /\ change'[i].proposed \in Forms
      BY <1>3, <1>5 DEF ProfileIInv, ChangesAgree
    <2>3. \A i \in applied' : i \in ChangeIds /\ change'[i].status # "ABSENT"
      BY <1>1, <1>5, <2>2 DEF ProfileIInv, ChangesAgree
    <2>4. Suits("auditApplied", ask[r]) /\ "auditApplied" \in Labels
      BY <1>3 DEF Suits, ProfileLabels, AccountLabels, Labels
    <2> QED BY <1>2, <1>3, <1>5, <1>6, <2>1, <2>2, <2>3, <2>4 DEF Framed, ProfileIInv, ProfileTypeOK
  <1>8. pc'[r] = "auditApplied" /\ ask'[r] = ask[r]
    BY <1>7, PMovesOnly DEF Framed
  <1>9. ASSUME NEW x \in Sections
        PROVE  PendingAlone(x)'
    <2>1. Pending(x)' \subseteq Pending(x)
      BY <1>5 DEF Pending
    <2> QED BY <1>7, <2>1, PendingKeeps
  <1>10. ASSUME NEW x \in Sections
         PROVE  Explained(x)'
    <2>1. CASE x = s
      <3>1. Writing(r, x) /\ Writing(r, x)'
        BY <1>3, <1>8, <2>1 DEF Writing
      <3>2. ASSUME Clean(s, {"apply", "failed"})'
            PROVE  Midway(r, x)'
        <4>1. Clean(s, {"apply", "failed"})
          BY <1>2, <3>2 DEF Clean
        <4>2. ask[r].after = profile[s] /\ Told(s, Masked(ask[r].before))
          BY <1>2, <2>1, <3>1, <4>1 DEF ProfileIInv, Explained, Midway
        <4> QED BY <1>2, <1>6, <1>8, <2>1, <4>2 DEF Midway, Told
      <3> QED BY <1>7, <2>1, <3>1, <3>2, ExplainedOwn
    <2>2. CASE x # s
      BY <1>2, <1>6, <1>7, <2>2, ExplainedKeeps
    <2> QED BY <2>1, <2>2
  <1>11. ASSUME NEW i \in ChangeIds
         PROVE  DecidedAlone(i)'
    <2>1. CASE i # j
      BY <1>1, <1>2, <1>3, <1>5, <1>7, <2>1, NoAskType, DecidedKeeps
    <2>2. CASE i = j
      <3>1. ASSUME NEW q \in Slots PROVE ask'[q].id # i
        <4>1. ask[q].id # i
          BY <1>5, <2>2, NoAskType, AskFacts
        <4> QED BY <1>7, <1>8, <4>1, PMovesOnly DEF Framed
      <3> QED BY <1>5, <2>2, <3>1 DEF DecidedAlone
    <2> QED BY <2>1, <2>2
  <1>12. ASSUME NEW x \in Sections, NEW f \in Columns[x[2]]
         PROVE  Merged(x, f)'
    BY <1>2, <1>3, <1>7, <1>8, ApprovedMerged
  <1>13. QED
    BY <1>4, <1>7, <1>9, <1>10, <1>11, <1>12, SectionStep

LEMMA AuditAppliedIInv ==
  ASSUME AccountIInv, ProfileIInv, NEW r \in Slots, AuditApplied(r)
  PROVE  AccountIInv' /\ ProfileIInv'
  <1> PICK s : s = ask[r].section
    OBVIOUS
  <1>1. /\ said' = [said EXCEPT ![s] = Masked(ask[r].after)]
        /\ saidGap' = IF said[s] = Masked(ask[r].before) THEN saidGap ELSE saidGap \cup {s}
        /\ pc[r] = "auditApplied" /\ Leave(r) /\ pc[r] \in ProfileLabels
        /\ UNCHANGED <<accountsVars, profile, change, latest, applied, overlap>>
    BY DEF AuditApplied, ProfileLabels
  <1>2. /\ s \in Sections /\ ask[r].kind \in {"decide", "direct"} /\ ask[r] \in AskRow
    BY <1>1, AskFacts DEF Suits, AskRow, AskKinds
  <1>3. AccountIInv'
    BY <1>1, LeaveMoves, SectionAccounts
  <1>4. /\ said' \in [Sections -> AnyRow] /\ said'[s] = Masked(ask[r].after)
        /\ \A x \in Sections : x # s => said'[x] = said[x]
    <2>1. None \in AnyRow
      BY <1>2 DEF AnyRow, RowsOf, Sections
    <2>2. Masked(ask[r].after) \in AnyRow
      BY <1>2, <2>1, MaskedType DEF AskRow
    <2> QED BY <1>1, <1>2, <2>2 DEF ProfileIInv, ProfileTypeOK
  <1>5. Framed(r, "idle", NoAsk)
    <2>1. PMoves(r, "idle", NoAsk)
      BY <1>1, LeaveMoves
    <2> QED BY <1>1, <1>4, <2>1, IdleSuits, NoAskType DEF Framed, ProfileIInv, ProfileTypeOK, ChangesAgree
  <1>6. pc'[r] = "idle" /\ ask'[r] = NoAsk
    BY <1>5, PMovesOnly DEF Framed
  <1>7. ASSUME NEW x \in Sections
        PROVE  PendingAlone(x)'
    <2>1. Pending(x)' = Pending(x)
      BY <1>1 DEF Pending
    <2> QED BY <1>5, <2>1, PendingKeeps
  <1>8. ASSUME NEW x \in Sections
        PROVE  Explained(x)'
    <2>1. CASE x = s
      <3>1. Writing(r, x) /\ ~Writing(r, x)'
        BY <1>2, <1>6, <2>1, NoAskType DEF Writing
      <3>2. ASSUME Clean(s, {"apply", "failed"})'
            PROVE  Told(x, Masked(profile[x]))'
        <4>1. Clean(s, {"apply", "failed"})
          BY <1>1, <3>2 DEF Clean
        <4>2. ask[r].after = profile[s] /\ Told(s, Masked(ask[r].before))
          BY <1>1, <2>1, <3>1, <4>1 DEF ProfileIInv, Explained, Midway
        <4> QED BY <1>1, <1>4, <2>1, <4>2 DEF Told
      <3> QED BY <1>5, <2>1, <3>1, <3>2, ExplainedOwn
    <2>2. CASE x # s
      BY <1>1, <1>4, <1>5, <2>2, NoAskType, ExplainedKeeps
    <2> QED BY <2>1, <2>2
  <1>9. ASSUME NEW i \in ChangeIds
        PROVE  DecidedAlone(i)'
    BY <1>1, <1>5, NoAskType, DecidedKeeps
  <1>10. ASSUME NEW x \in Sections, NEW f \in Columns[x[2]]
         PROVE  Merged(x, f)'
    BY <1>1, <1>5, IdleMerged
  <1>11. QED
    BY <1>3, <1>5, <1>7, <1>8, <1>9, <1>10, SectionStep

\* The requests about accounts leave every section as it is.
LEMMA AccountsStepProfile ==
  ASSUME AccountIInv, ProfileIInv, NEW r \in Slots, AccountsStep(r),
         UNCHANGED <<profiles, overlap, ask>>
  PROVE  AccountIInv' /\ ProfileIInv'
  <1>1. AccountIInv'
    BY AccountsStepIInv
  <1>2. /\ \A q \in Slots : q # r => pc'[q] = pc[q]
        /\ pc[r] \in AccountLabels /\ pc'[r] \in AccountLabels
    <2>1. pc[r] \in AccountLabels
      <3>1. pc[r] \in ProfileLabels => req[r].kind = "none"
        BY AskFacts, NotAskedType
      <3> QED BY <3>1, SlotFacts DEF AccountsStep, AskCreate, AskImport, AskChange,
             AskForgot, FindEmail, Insert, Link, AuditCreated, ReadBefore, FindOther,
             Write, AuditRole, AuditStatus, AuditUpdated, Approve, AuditDecided, Fail,
             Take, Busy, Labels, AccountLabels
    <2>2. \E l \in AccountLabels : pc' = [pc EXCEPT ![r] = l]
      <3>1. Fits(pc[r], req[r]) /\ pc = [pc EXCEPT ![r] = pc[r]]
        BY SlotFacts DEF AccountIInv, AccountsTypeOK
      <3>2. ASSUME NEW l \in AccountLabels, GoTo(r, l)
            PROVE  \E k \in AccountLabels : pc' = [pc EXCEPT ![r] = k]
        BY <3>2 DEF GoTo
      <3>3. ASSUME NEW x, NextRow(r, x)
            PROVE  \E l \in AccountLabels : pc' = [pc EXCEPT ![r] = l]
        BY <3>2, <3>3 DEF NextRow, AccountLabels
      <3>4. ASSUME NEW b, Throw(r, b)
            PROVE  \E l \in AccountLabels : pc' = [pc EXCEPT ![r] = l]
        BY <3>2, <3>3, <3>4 DEF Throw, AccountLabels
      <3>5. ASSUME Return(r)
            PROVE  \E l \in AccountLabels : pc' = [pc EXCEPT ![r] = l]
        BY <3>2, <3>3, <3>5 DEF Return, AccountLabels
      <3>6. CASE AskCreate(r) \/ AskImport(r) \/ AskChange(r) \/ AskForgot(r)
        BY <2>1, <3>1, <3>2, <3>3, <3>6 DEF AskCreate, AskImport, AskChange, AskForgot,
           AccountLabels
      <3>7. CASE FindEmail(r) \/ Insert(r)
        BY <3>2, <3>4, <3>7 DEF FindEmail, Insert, AccountLabels
      <3>8. CASE Link(r) \/ AuditCreated(r) \/ AuditUpdated(r) \/ AuditDecided(r)
        BY <3>2, <3>5, <3>8 DEF Link, AuditCreated, AuditUpdated, AuditDecided, AccountLabels
      <3>9. CASE ReadBefore(r)
        <4>1. req[r].kind \in {"update", "approve", "reject"}
          BY <3>1, <3>9 DEF ReadBefore, Fits
        <4>2. CASE Throw(r, {})
          BY <3>4, <4>2
        <4>3. CASE GoTo(r, IF req[r].kind # "update" THEN req[r].kind
                           ELSE IF req[r].email \in {None, user[req[r].user].email} THEN "write"
                           ELSE "findOther")
          BY <3>2, <4>1, <4>3 DEF AccountLabels
        <4> QED BY <3>9, <4>2, <4>3 DEF ReadBefore
      <3>10. CASE FindOther(r) \/ Write(r) \/ AuditRole(r) \/ AuditStatus(r) \/ Approve(r)
        BY <3>2, <3>4, <3>10 DEF FindOther, Write, AuditRole, AuditStatus, Approve, AccountLabels
      <3>11. CASE Fail(r)
        BY <3>4, <3>11 DEF Fail
      <3> QED BY <3>6, <3>7, <3>8, <3>9, <3>10, <3>11 DEF AccountsStep
    <2> QED BY <2>1, <2>2 DEF AccountIInv, AccountsTypeOK
  <1>3. /\ ask[r] = NoAsk /\ NoAsk.section = None /\ NoAsk.id = None
        /\ NoAsk.kind = "none" /\ None \notin Sections /\ None \notin ChangeIds
    BY <1>2, AskFacts, NoAskType DEF Suits
  <1>4. \A q \in Slots : Suits(pc'[q], ask'[q])
    <2>1. Suits(pc'[r], NoAsk)
      BY <1>2, <1>3 DEF Suits, AccountLabels, ProfileLabels
    <2> QED BY <1>2, <1>3, <2>1 DEF ProfileIInv
  <1>5. /\ ProfileTypeOK' /\ ChangesAgree' /\ Tagged'
    BY DEF ProfileIInv, ProfileTypeOK, ChangesAgree, Tagged, profiles
  <1>6. ASSUME NEW s \in Sections
        PROVE  PendingAlone(s)' /\ Explained(s)'
    <2>1. /\ Clean(s, {"request"})' <=> Clean(s, {"request"})
          /\ Clean(s, {"apply", "failed"})' <=> Clean(s, {"apply", "failed"})
          /\ Pending(s)' = Pending(s)
      BY DEF Clean, Pending, profiles
    <2>2. \A q \in Slots : ask[q].section = s =>
             /\ pc'[q] = pc[q]
             /\ Midway(q, s)' <=> Midway(q, s)
      BY <1>2, <1>3 DEF Midway, Told, profiles
    <2>3. PendingAlone(s)'
      BY <2>1, <2>2 DEF ProfileIInv, PendingAlone
    <2>4. Explained(s)'
      BY <2>1, <2>2 DEF ProfileIInv, Explained, Writing, Told, profiles
    <2> QED BY <2>3, <2>4
  <1>7. ASSUME NEW i \in ChangeIds
        PROVE  DecidedAlone(i)'
    <2>1. \A q \in Slots : ask[q].id = i => pc'[q] = pc[q] /\ (Deciding(q)' <=> Deciding(q))
      BY <1>2, <1>3 DEF Deciding
    <2>2. change' = change /\ applied' = applied /\ overlap' = overlap /\ ask' = ask
      BY DEF profiles
    <2> QED BY <2>1, <2>2 DEF ProfileIInv, DecidedAlone, Clean
  <1>8. ASSUME NEW s \in Sections, NEW f \in Columns[s[2]]
        PROVE  Merged(s, f)'
    <2>1. \A q \in Slots : Holds(q, s, f)' <=> Holds(q, s, f)
      BY <1>2, <1>3 DEF Holds, Unapproved
    <2>2. /\ profile' = profile /\ latest' = latest /\ ask' = ask
          /\ Clean(s, {f})' <=> Clean(s, {f})
      BY DEF profiles, Clean
    <2> QED BY <2>1, <2>2 DEF ProfileIInv, Merged
  <1>9. QED
    BY <1>1, <1>4, <1>5, <1>6, <1>7, <1>8 DEF ProfileIInv

LEMMA ProfileStepIInv ==
  ASSUME AccountIInv, ProfileIInv, NEW r \in Slots, ProfileStep(r)
  PROVE  AccountIInv' /\ ProfileIInv'
  BY AskRequestIInv, FindPendingIInv, CreateChangeIInv, AskDecideIInv, FindChangeIInv,
     RejectIInv, MarkApprovedIInv, AskDirectIInv, RecordDirectIInv, BeforeIInv,
     ApplyChangeIInv, AfterIInv, AuditAppliedIInv, ProfileFailIInv DEF ProfileStep

LEMMA InitIInv ==
  ASSUME Init
  PROVE  AccountIInv /\ ProfileIInv
  <1>1. /\ requireRegistrationApproval \in BOOLEAN /\ user = Seeded /\ links = {}
        /\ told = Seeded /\ gap = {} /\ muddled = {}
        /\ pc = [r \in Slots |-> "idle"] /\ req = [r \in Slots |-> NotAsked]
    BY DEF Init, AccountsInit
  <1>2. UserRow \cup {NoUser} \subseteq ToldRow
    BY DEF UserRow, NoUser, ToldRow
  <1>3. AccountsTypeOK
    BY <1>1, <1>2, SeedAssumption, NotAskedType DEF AccountsTypeOK, Labels, AccountLabels
  <1>4. Fits("idle", NotAsked) /\ Imported("idle", NotAsked, Rows \cap links)
    BY NotAskedType DEF Fits, Subjectless, ProfileLabels, Creating, Imported
  <1>5. \A u \in Users : \A r \in Slots : ~Handles(r, u)
    BY <1>1, NotAskedType, AccountAssumption DEF Handles
  <1>6. AccountIInv
    BY <1>1, <1>3, <1>4, <1>5 DEF AccountIInv, Apart, Trail
  <1>7. /\ profile = [s \in Sections |-> None] /\ latest = [s \in Sections |-> None]
        /\ said = [s \in Sections |-> None] /\ saidGap = {} /\ applied = {}
        /\ change = [i \in ChangeIds |-> NoChange] /\ ask = [r \in Slots |-> NoAsk]
    BY DEF Init
  <1>8. NoChange \in ChangeRow /\ NoChange.status = "ABSENT" /\ NoChange.section = None
    BY DEF NoChange, ChangeRow
  <1>9. ProfileTypeOK
    <2>1. \A s \in Sections : None \in RowsOf(s[2]) /\ None \in AnyRow
      BY DEF RowsOf, AnyRow, Sections
    <2> QED BY <1>7, <1>8, <2>1, NoAskType DEF ProfileTypeOK, Holding
  <1>10. (\A r \in Slots : Suits(pc[r], ask[r])) /\ ChangesAgree /\ Tagged
    BY <1>1, <1>7, <1>8, NoAskType, IdleSuits DEF ChangesAgree, Tagged
  <1>11. \A s \in Sections : PendingAlone(s) /\ Explained(s)
    BY <1>1, <1>7, <1>8, NoAskType DEF PendingAlone, Pending, Explained, Writing, Told, Masked
  <1>12. \A i \in ChangeIds : DecidedAlone(i)
    BY <1>1, <1>7, NoAskType DEF DecidedAlone, Deciding
  <1>13. \A s \in Sections : \A f \in Columns[s[2]] : Merged(s, f)
    BY <1>1, <1>7 DEF Merged, Holds, Unapproved
  <1>14. QED
    BY <1>6, <1>9, <1>10, <1>11, <1>12, <1>13 DEF ProfileIInv

\* Every reachable state: each request knows what the tables hold of the account
\* or the section it is about, wherever nobody else has been about it.
THEOREM RecordsConsistent == Spec => [](AccountIInv /\ ProfileIInv)
  <1>1. AccountIInv /\ ProfileIInv /\ [Next]_vars => (AccountIInv /\ ProfileIInv)'
    <2> SUFFICES ASSUME AccountIInv, ProfileIInv, [Next]_vars
                 PROVE  (AccountIInv /\ ProfileIInv)'
      OBVIOUS
    <2>1. ASSUME NEW r \in Slots, AccountsStep(r), UNCHANGED <<profiles, overlap, ask>>
          PROVE  AccountIInv' /\ ProfileIInv'
      BY <2>1, AccountsStepProfile
    <2>2. ASSUME NEW r \in Slots, ProfileStep(r)
          PROVE  AccountIInv' /\ ProfileIInv'
      BY <2>2, ProfileStepIInv
    <2>3. CASE UNCHANGED vars
      <3>1. UNCHANGED <<requireRegistrationApproval, user, links, told, gap, muddled,
                        pc, req, profile, change, latest, said, saidGap, applied,
                        overlap, ask>>
        BY <2>3 DEF vars, accounts, profiles
      <3>2. AccountIInv'
        BY <3>1 DEF AccountIInv, AccountsTypeOK, Rows, Apart, Trail, Handles, Explains,
           FirstStatus
      <3>3. ProfileIInv'
        BY <3>1 DEF ProfileIInv, ProfileTypeOK, ChangesAgree, Tagged, PendingAlone,
           Pending, Clean, Explained, Writing, Midway, Told, DecidedAlone, Deciding,
           Merged, Holds, Unapproved
      <3> QED BY <3>2, <3>3
    <2>4. QED
      BY <2>1, <2>2, <2>3 DEF Next
  <1>2. Init => AccountIInv /\ ProfileIInv
    BY InitIInv
  <1>3. QED
    BY <1>1, <1>2, PTL DEF Spec

\* users.service.ts, bulkImport: the report has each row of the sheet once, a row
\* it calls created has an account that was sent its link, and a row it calls an
\* error left no account unless a call broke off after the insert.
THEOREM ImportsReport == Spec => []ImportReports
  <1>1. AccountIInv /\ ProfileIInv => ImportReports
    <2> SUFFICES ASSUME AccountIInv, NEW r \in Slots, req[r].kind = "import"
                 PROVE  /\ req[r].created \cup req[r].errors = RowsDone(r)
                        /\ req[r].created \cap req[r].errors = {}
                        /\ \A i \in req[r].created :
                              \E u \in Rows \cap links : <<i, u>> \in req[r].inserted
                        /\ \A row \in req[r].inserted :
                              row[1] \in req[r].errors => row[1] \in req[r].broke
      BY DEF ImportReports
    <2>1. Imported(pc[r], req[r], Rows \cap links)
      BY DEF AccountIInv
    <2>2. RowsDone(r) = Through(pc[r], req[r])
      BY DEF RowsDone, Through, Busy
    <2>3. QED
      BY <2>1, <2>2 DEF Imported
  <1>2. QED
    BY <1>1, RecordsConsistent, PTL

\* users.service.ts, auth.service.ts: the rows of the audit log about an account
\* end at what the account is, each starting where the one before ended, unless
\* requests about the account overlapped or broke off.
THEOREM TrailsExplain == Spec => []TrailExplains
  <1>1. AccountIInv /\ ProfileIInv => TrailExplains
    <2> SUFFICES ASSUME AccountIInv, NEW u \in Rows \ muddled
                 PROVE  /\ u \notin gap
                        /\ About(u) = {} => told[u] = user[u]
      BY DEF TrailExplains
    <2>1. u \in Users /\ u # None
      BY AccountAssumption DEF Rows
    <2>2. ASSUME About(u) = {}, NEW r \in Slots
          PROVE  ~Handles(r, u)
      <3>1. pc[r] = "idle" => req[r].user = None
        BY SlotFacts DEF Fits, Subjectless
      <3> QED BY <2>1, <2>2, <3>1 DEF About, Busy, Handles
    <2>3. QED
      BY <2>1, <2>2 DEF AccountIInv, Trail
  <1>2. QED
    BY <1>1, RecordsConsistent, PTL

\* profile-changes.service.ts, request: a section never has two requests to
\* decide, unless two were made for it at once.
THEOREM OnePending == Spec => []OnePendingPerSection
  <1>1. AccountIInv /\ ProfileIInv => OnePendingPerSection
    <2> SUFFICES ASSUME ProfileIInv, NEW s \in Sections, Clean(s, {"request"})
                 PROVE  Cardinality(Pending(s)) <= 1
      BY DEF OnePendingPerSection
    <2>1. \A i, j \in Pending(s) : i = j
      BY DEF ProfileIInv, PendingAlone
    <2>2. CASE Pending(s) = {}
      BY <2>2, FS_EmptySet
    <2>3. ASSUME NEW i \in Pending(s)
          PROVE  Cardinality(Pending(s)) <= 1
      <3>1. Pending(s) = {i}
        BY <2>1
      <3>2. Cardinality(Pending(s)) = 1
        BY <3>1, FS_Singleton
      <3> QED BY <3>2
    <2>4. QED
      BY <2>2, <2>3
  <1>2. QED
    BY <1>1, RecordsConsistent, PTL

\* profile-changes.service.ts, decide: the form of a request that was rejected
\* has not been written, unless two administrators decided it at once or a
\* decision broke off.
THEOREM RejectedStaysOut == Spec => []RejectedNeverApplied
  <1>1. AccountIInv /\ ProfileIInv => RejectedNeverApplied
    <2> SUFFICES ASSUME ProfileIInv, NEW i \in applied, change[i].status = "REJECTED",
                        Clean(change[i].section, {"decide", "failed"})
                 PROVE  FALSE
      BY DEF RejectedNeverApplied
    <2>1. i \in ChangeIds /\ i # None
      BY NoAskType DEF ProfileIInv, ChangesAgree
    <2>2. DecidedAlone(i)
      BY <2>1 DEF ProfileIInv
    <2>3. PICK r \in Slots : ask[r].id = i /\ pc[r] \in {"after", "markApproved"}
      BY <2>2 DEF DecidedAlone
    <2>4. ask[r].kind = "decide"
      BY <2>1, <2>3 DEF ProfileIInv, ChangesAgree
    <2>5. QED
      BY <2>2, <2>3, <2>4 DEF DecidedAlone, Deciding
  <1>2. QED
    BY <1>1, RecordsConsistent, PTL

\* profile-changes.service.ts, applyChange: a column holds what the form approved
\* last of those that name it gave it, unless two forms naming it were written
\* before either was approved or one never was; and the audit rows of a section
\* nobody is writing lead, each from where the one before ended and with the
\* account number masked, to what it holds, unless two writes overlapped or one
\* broke off.
THEOREM HistoryTells == Spec => []HistoryExplains
  <1>1. ProfileIInv => ColumnsExplained
    <2> SUFFICES ASSUME ProfileIInv, NEW s \in Sections, NEW f \in Columns[s[2]], Clean(s, {f}),
                        \A r \in Slots : ask[r].section = s => f \notin Unapproved(r)
                 PROVE  FieldOf(profile[s], f) = FieldOf(latest[s], f)
      BY DEF ColumnsExplained
    <2>1. \A r \in Slots : ~Holds(r, s, f)
      BY DEF Holds
    <2>2. QED
      BY <2>1 DEF ProfileIInv, Merged
  <1>2. ProfileIInv => AuditExplained
    <2> SUFFICES ASSUME ProfileIInv, NEW s \in Sections, Clean(s, {"apply", "failed"}), Quiet(s)
                 PROVE  said[s] = Masked(profile[s]) /\ s \notin saidGap
      BY DEF AuditExplained
    <2>1. \A r \in Slots : ~Writing(r, s)
      BY DEF Quiet, Writing
    <2>2. QED
      BY <2>1 DEF ProfileIInv, Explained, Told
  <1>3. AccountIInv /\ ProfileIInv => HistoryExplains
    BY <1>1, <1>2 DEF HistoryExplains
  <1>4. QED
    BY <1>3, RecordsConsistent, PTL
=============================================================================
