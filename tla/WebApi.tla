------------------------------- MODULE WebApi -------------------------------
(***************************************************************************)
(* The API as the browser's pages use it: which role a route admits, what  *)
(* a GET shows, and what a request that changes something needs and does.  *)
(* The server's state is one record `s` about one person and the things    *)
(* the pages show of them:                                                 *)
(*   duty, timer    attendance; which task the running timer is on         *)
(*   task, worked   the status of one assigned task THIS, and whether the  *)
(*                  person has an entry on it (OTHER is a second task,     *)
(*                  always eligible and already worked on)                 *)
(*   correction, change, contactChange, document                           *)
(*                  where a request about a past record, the profile, the  *)
(*                  emergency contact or an uploaded file stands           *)
(*   account, accountRole                                                  *)
(*                  the row of the user management page                    *)
(*   creating       AppSettings.employeesCanCreateTasks                    *)
(*   title, history, profile, contact, me, name, department, inbox         *)
(*                  contents of which only OLD and NEW are told apart      *)
(* The handlers themselves are modelled step by step in the modules of the *)
(* services; here each is one step, the one that decides.                  *)
(***************************************************************************)

(* `f` with what only `g` has added to it.                                 *)
f ++ g == [x \in DOMAIN f \cup DOMAIN g |-> IF x \in DOMAIN f THEN f[x] ELSE g[x]]

(* What RolesGuard and AuditorScopeGuard read off a route: the roles of    *)
(* @Roles (none: any) and whether @AuditorAllowed() is there.              *)
Anyone           == [roles |-> {}, auditorAllowed |-> FALSE]
AnyoneOrAuditor  == [roles |-> {}, auditorAllowed |-> TRUE]
AdminOnly        == [roles |-> {"ADMINISTRATOR"}, auditorAllowed |-> FALSE]
AdminOrAuditor   == [roles |-> {"ADMINISTRATOR", "AUDITOR"}, auditorAllowed |-> TRUE]

RolesGuard(route, role) == route.roles # {} => role \in route.roles

AuditorScopeGuard(route, role) == role = "AUDITOR" => route.auditorAllowed

Admits(route, role) == RolesGuard(route, role) /\ AuditorScopeGuard(route, role)

-----------------------------------------------------------------------------
(* Query keys, as the hooks and the pages write them. The pages are taken  *)
(* with their default filters, which end a key where two pages differ in   *)
(* them and are left out otherwise.                                        *)
Me                 == <<"users", "me">>
State              == <<"attendance", "state">>
Today              == <<"reconciliation", "me", "today">>
MyTasks            == <<"tasks", "mine">>
AllTasks           == <<"tasks", "all">>
OneTask            == <<"tasks", "THIS">>
ReportTasks        == <<"tasks", "all", "for-report-filter">>
TimerLog           == <<"task-timers", "history">>
Inbox              == <<"notifications">>
Settings           == <<"settings">>
Departments        == <<"departments">>
UserList           == <<"users", "admin", "list">>
UserKpis           == <<"users", "admin", "kpis-unfiltered">>
Assignable         == <<"users", "admin", "active-for-assign">>
Correctable        == <<"users", "admin", "active-for-direct-correction">>
Loggable           == <<"users", "admin", "active-for-logs">>
Reportable         == <<"users", "admin", "active-for-reports">>
Actors             == <<"users", "admin", "all-for-audit">>
OneUser            == <<"users", "u">>
EmployeeProfile    == <<"users", "u", "employee-profile">>
EmergencyContact   == <<"users", "u", "emergency-contact">>
Files              == <<"users", "u", "documents">>
MyCorrections      == <<"corrections", "mine">>
PendingCorrections == <<"corrections", "pending">>
MyChanges          == <<"profile-changes", "mine">>
PendingChanges     == <<"profile-changes", "pending">>
PendingDeletions   == <<"document-deletion-requests", "pending">>
MySessions         == <<"attendance", "me", "history", "from", "to">>
MyPastSessions     == <<"attendance", "me", "history">>
OneSession         == <<"attendance", "session", "id">>
Live               == <<"attendance", "admin", "live">>
Sessions           == <<"attendance", "admin", "history", "u", "from", "to">>
PastSessions       == <<"attendance", "admin", "history", "u">>
Kpis               == <<"dashboard", "admin", "kpis">>
Report             == <<"reports">>
Trail              == <<"audit">>

(* Whom a GET admits, and which fields its answer shows.                   *)
Get(keys, route, fields) == [k \in keys |-> [route |-> route, shows |-> fields]]

AttendanceGets ==
  Get({State, Today}, Anyone, {"duty", "timer", "title"})
  ++ Get({MySessions, MyPastSessions}, Anyone, {"duty", "history"})
  ++ Get({OneSession}, AnyoneOrAuditor, {"duty", "history"})
  ++ Get({Live}, AdminOrAuditor, {"duty", "timer"})
  ++ Get({Sessions, PastSessions}, AdminOnly, {"duty", "history"})

TaskGets ==
  Get({MyTasks, OneTask, AllTasks, ReportTasks}, Anyone, {"task", "title"})
  ++ Get({TimerLog}, Anyone, {"timer", "title"})

UserGets ==
  Get({Me}, AnyoneOrAuditor, {"me"})
  ++ Get({UserList, UserKpis, Assignable, Correctable, Loggable, Reportable, Actors},
         AdminOrAuditor, {"account", "accountRole", "name"})
  ++ Get({OneUser}, AdminOnly, {"account", "accountRole", "name"})
  ++ Get({EmployeeProfile}, Anyone, {"profile"})
  ++ Get({EmergencyContact}, Anyone, {"contact"})
  ++ Get({Departments}, AnyoneOrAuditor, {"department"})

RequestGets ==
  Get({Files}, Anyone, {"document"})
  ++ Get({MyCorrections}, Anyone, {"correction"})
  ++ Get({PendingCorrections}, AdminOnly, {"correction"})
  ++ Get({MyChanges}, Anyone, {"change", "contactChange"})
  ++ Get({PendingChanges}, AdminOnly, {"change"})
  ++ Get({PendingDeletions}, AdminOnly, {"document"})

ListGets ==
  Get({Inbox}, Anyone, {"inbox"})
  ++ Get({Settings}, Anyone, {"creating"})
  ++ Get({Kpis}, AdminOnly, {"duty", "timer", "task", "account"})
  ++ Get({Report}, AdminOrAuditor, {"duty", "timer", "history", "title", "name"})
  ++ Get({Trail}, AdminOrAuditor, {"task", "title", "correction", "history", "change",
                                   "profile", "document", "account", "accountRole", "name"})

Gets == AttendanceGets ++ TaskGets ++ UserGets ++ RequestGets ++ ListGets

-----------------------------------------------------------------------------
(* Requests that change something: the route, whether the handler accepts, *)
(* and the fields it then sets.                                            *)
Op(route, accepted, sets) == [route |-> route, accepted |-> accepted, sets |-> sets]

Nothing == [f \in {} |-> "NONE"]

AttendanceOps(s) ==
  LET running == s.timer # "NONE" \/ s.duty = "ON_BREAK" IN
  [clockIn         |-> Op(Anyone, s.duty = "CLOCKED_OUT", [duty |-> "WORKING"]),
   \* without `confirm` a running timer or break is reported and kept
   clockOut        |-> Op(Anyone, s.duty # "CLOCKED_OUT",
                          IF running THEN Nothing ELSE [duty |-> "CLOCKED_OUT"]),
   confirmClockOut |-> Op(Anyone, s.duty # "CLOCKED_OUT",
                          [duty |-> "CLOCKED_OUT", timer |-> "NONE"]),
   startBreak      |-> Op(Anyone, s.duty = "WORKING", [duty |-> "ON_BREAK", timer |-> "NONE"]),
   endBreak        |-> Op(Anyone, s.duty = "ON_BREAK", [duty |-> "WORKING"])]

TimerOps(s) ==
  LET eligible == s.task \in {"TO_DO", "STARTED"}
      startable == s.duty = "WORKING" /\ s.timer = "NONE"
      \* start and switch move a task that is TO_DO on to IN_PROGRESS
      timed == [timer |-> "THIS", task |-> "STARTED", worked |-> TRUE]
  IN [start       |-> Op(Anyone, startable /\ eligible, timed),
      resume      |-> Op(Anyone, startable /\ eligible /\ s.worked, timed),
      resumeOther |-> Op(Anyone, startable, [timer |-> "OTHER"]),
      pause       |-> Op(Anyone, s.timer # "NONE", [timer |-> "NONE"]),
      stop        |-> Op(Anyone, s.timer # "NONE", [timer |-> "NONE"]),
      switch      |-> Op(Anyone, s.duty = "WORKING" /\ s.timer = "OTHER" /\ eligible, timed),
      switchOther |-> Op(Anyone, s.duty = "WORKING" /\ s.timer = "THIS", [timer |-> "OTHER"])]

(* PATCH /tasks/:id with a status: a task may not be completed under a     *)
(* running timer, and only an administrator reopens a closed one; with     *)
(* other fields (saveTask) it is for administrators.                       *)
TaskOps(s, role) ==
  LET exists == s.task # "ABSENT"
      reopening == s.task = "CLOSED" /\ role # "ADMINISTRATOR"
  IN [createTask  |-> Op(Anyone, role = "EMPLOYEE" => s.creating,
                         IF exists THEN Nothing ELSE [task |-> "TO_DO"]),
      complete    |-> Op(Anyone, exists /\ s.timer # "THIS", [task |-> "CLOSED"]),
      cancelTask  |-> Op(Anyone, exists, [task |-> "CLOSED"]),
      markStarted |-> Op(Anyone, exists /\ ~reopening, [task |-> "STARTED"]),
      saveTask    |-> Op(Anyone, exists /\ role = "ADMINISTRATOR", [title |-> "NEW"])]

RequestOps(s) ==
  [requestCorrection    |-> Op(Anyone, TRUE, [correction |-> "PENDING"]),
   approveCorrection    |-> Op(AdminOnly, s.correction = "PENDING",
                               [correction |-> "APPROVED", history |-> "NEW"]),
   rejectCorrection     |-> Op(AdminOnly, s.correction = "PENDING", [correction |-> "REJECTED"]),
   correctDirectly      |-> Op(AdminOnly, TRUE, [history |-> "NEW"]),
   requestChange        |-> Op(Anyone, s.change # "PENDING", [change |-> "PENDING"]),
   requestContactChange |-> Op(Anyone, s.contactChange # "PENDING", [contactChange |-> "PENDING"]),
   approveChange        |-> Op(AdminOnly, s.change = "PENDING",
                               [change |-> "APPROVED", profile |-> "NEW"]),
   rejectChange         |-> Op(AdminOnly, s.change = "PENDING", [change |-> "REJECTED"]),
   changeProfile        |-> Op(AdminOnly, TRUE, [profile |-> "NEW"]),
   changeContact        |-> Op(AdminOnly, TRUE, [contact |-> "NEW"])]

DocumentOps(s) ==
  LET live == s.document \in {"LIVE", "REQUESTED"} IN
  [upload          |-> Op(Anyone, TRUE, IF live THEN Nothing ELSE [document |-> "LIVE"]),
   removeDocument  |-> Op(AdminOnly, live, [document |-> "REMOVED"]),
   requestDeletion |-> Op(Anyone, s.document = "LIVE", [document |-> "REQUESTED"]),
   approveDeletion |-> Op(AdminOnly, s.document = "REQUESTED", [document |-> "REMOVED"]),
   rejectDeletion  |-> Op(AdminOnly, s.document = "REQUESTED", [document |-> "LIVE"])]

UserOps(s) ==
  LET exists == s.account # "ABSENT" IN
  [createUser  |-> Op(AdminOnly, TRUE, IF exists THEN Nothing ELSE [account |-> "ACTIVE"]),
   importUsers |-> Op(AdminOnly, TRUE, IF exists THEN Nothing ELSE [account |-> "ACTIVE"]),
   approveUser |-> Op(AdminOnly, s.account = "PENDING", [account |-> "ACTIVE"]),
   rejectUser  |-> Op(AdminOnly, s.account = "PENDING", [account |-> "REJECTED"]),
   setStatus   |-> Op(AdminOnly, exists, [account |-> "SUSPENDED"]),
   setRole     |-> Op(AdminOnly, exists, [accountRole |-> "AUDITOR"]),
   saveUser    |-> Op(AdminOnly, exists, [name |-> "NEW"]),
   updateMe    |-> Op(AnyoneOrAuditor, TRUE, [me |-> "NEW"])]

OrganisationOps(s) ==
  [saveSettings     |-> Op(AdminOnly, TRUE, [creating |-> ~s.creating]),
   createDepartment |-> Op(AdminOnly, TRUE, [department |-> "NEW"]),
   markRead         |-> Op(Anyone, TRUE, [inbox |-> "NEW"])]

Ops(s, role) ==
  AttendanceOps(s) ++ TimerOps(s) ++ TaskOps(s, role) ++ RequestOps(s)
  ++ DocumentOps(s) ++ UserOps(s) ++ OrganisationOps(s)

Serves(op, s, role) ==
  LET o == Ops(s, role)[op] IN Admits(o.route, role) /\ o.accepted

After(op, s, role) == Ops(s, role)[op].sets ++ s
=============================================================================
