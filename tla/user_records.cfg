CONSTANTS
    e1 = e1
    e2 = e2
    u1 = u1
    u2 = u2
    Users = {u1, u2}
    Emails = {e1, e2}
    Roles = {"EMPLOYEE", "ADMINISTRATOR"}
    Sheets <- MCSheets
    Changes <- MCChanges
    Seeded <- MCSeeded
    Slots = {r1, r2}
    MaxRequests = 3
    Targets = {"EMPLOYEE_PROFILE"}
    Columns <- MCColumns
    Required <- MCRequired
    Values = {"v1", "v2", "masked"}
    Forms <- MCForms
    lastFour <- MCLastFour
    ChangeIds = {i1, i2}
    None = None
SPECIFICATION Spec
INVARIANTS ImportReports TrailExplains OnePendingPerSection RejectedNeverApplied 
SYMMETRY Symmetry
CHECK_DEADLOCK FALSE
