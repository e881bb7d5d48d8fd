-------------------------------- MODULE Pages --------------------------------
(***************************************************************************)
(* The pages of the web application: for each component the queries it     *)
(* mounts (xQueries) and, for the data it has, the controls it offers      *)
(* (xOffers). An offer names the request the control sends and the query   *)
(* key prefixes its success handler marks invalid. Wording, layout,        *)
(* client-side filters and form validation are left out; `opened` says     *)
(* that the page's drawer, which covers everything else, is open - or, on  *)
(* reports and corrections, that the tab or employee that plays its part   *)
(* is chosen.                                                              *)
(* `d` maps the query keys the tab has entries for to their data.          *)
(***************************************************************************)
EXTENDS WebApi

NoData == [f \in {} |-> "NONE"]

Seen(d, k) == k \in DOMAIN d /\ d[k] # NoData

Shows(d, k, f, values) == Seen(d, k) /\ d[k][f] \in values

Offers(marks, ops) == {[op |-> o, marks |-> marks] : o \in ops}

When(condition, S) == IF condition THEN S ELSE {}

-----------------------------------------------------------------------------
(* The frame: every page inside AppShell.                                  *)
TimerBarQueries == {State, MyTasks}

DayMarksWithoutTasks == {<<"attendance">>, <<"reconciliation">>}   \* mutant

DayMarks == {<<"attendance">>, <<"reconciliation">>, <<"tasks">>}

TimerBarOffers(d) ==
  Offers(DayMarks, When(Shows(d, State, "timer", {"THIS", "OTHER"}),
    {"pause", "stop"}
    \cup When(d[State].timer = "THIS", {"switchOther"})
    \cup When(d[State].timer = "OTHER" /\ Shows(d, MyTasks, "task", {"TO_DO", "STARTED"}),
              {"switch"})))

NotificationBellOffers(d) == Offers({Inbox}, When(Shows(d, Inbox, "inbox", {"OLD"}), {"markRead"}))

showPersonalWidgets(role) == role # "AUDITOR"

FrameQueries(role) ==
  {Me} \cup When(showPersonalWidgets(role), TimerBarQueries \cup {Inbox})

FrameOffers(d, role) ==
  When(showPersonalWidgets(role), TimerBarOffers(d) \cup NotificationBellOffers(d))

-----------------------------------------------------------------------------
(* My Day *)
MyDayQueries == {State, Today, MyTasks}

AttendanceCard(d) ==
  LET duty(v) == Shows(d, State, "duty", {v}) IN
  When(~duty("WORKING") /\ ~duty("ON_BREAK"), {"clockIn"})
  \cup When(duty("WORKING"), {"clockOut"})

ActiveTaskCard(d) == When(Shows(d, State, "timer", {"THIS", "OTHER"}), {"pause", "stop"})

BreakCardWhenIn(d) ==   \* mutant: both buttons on the card that is hidden when clocked out
  When(Shows(d, State, "duty", {"WORKING", "ON_BREAK"}), {"startBreak", "endBreak"})

BreakCard(d) ==
  When(Shows(d, State, "duty", {"WORKING"}), {"startBreak"})
  \cup When(Shows(d, State, "duty", {"ON_BREAK"}), {"endBreak"})

(* One row per task that is not closed; the row of the task being timed is *)
(* only marked. The second task is one the person has worked on.           *)
MyTasksCard(d) ==
  When(Shows(d, State, "duty", {"WORKING"}) /\ Seen(d, MyTasks),
       LET task == d[MyTasks].task
           timer == d[State].timer
       IN When(timer = "OTHER" /\ task \in {"TO_DO", "STARTED"}, {"switch"})
          \cup When(timer = "THIS", {"switchOther"})
          \cup When(timer = "NONE", {"resumeOther"})
          \cup When(timer = "NONE" /\ task = "TO_DO", {"start"})
          \cup When(timer = "NONE" /\ task = "STARTED", {"resume"}))

(* The open gap at the end of the timeline can be assigned to a task.      *)
TimelineCard(d) ==
  When(/\ Shows(d, State, "duty", {"WORKING"})
       /\ Shows(d, State, "timer", {"NONE"})
       /\ Seen(d, Today),
       {"resumeOther"}
       \cup When(Shows(d, MyTasks, "task", {"TO_DO"}), {"start"})
       \cup When(Shows(d, MyTasks, "task", {"STARTED"}), {"resume"}))

MyDayOffers(d, confirming) ==
  Offers(DayMarks, When(confirming, {"confirmClockOut"})
                   \cup AttendanceCard(d) \cup ActiveTaskCard(d) \cup BreakCard(d)
                   \cup MyTasksCard(d) \cup TimelineCard(d))

-----------------------------------------------------------------------------
(* Task pages *)
isAdmin(role) == role = "ADMINISTRATOR"

TaskMarks == {<<"tasks">>}

(* The status select offers every status whatever the task's own is.       *)
StatusChoices == {"complete", "cancelTask", "markStarted"}

TaskDetailQueries(role) == {OneTask, Me} \cup When(isAdmin(role), {Assignable})

TaskDetailOffers(d, role) ==
  Offers(TaskMarks, When(Shows(d, OneTask, "task", {"TO_DO", "STARTED", "CLOSED"}),
                         StatusChoices \cup When(isAdmin(role), {"saveTask"})))

TasksQueries(role, opened) == {MyTasks, Settings} \cup When(opened, TaskDetailQueries(role))

TasksOffers(d, role, opened) ==
  IF opened THEN TaskDetailOffers(d, role)
  ELSE Offers(TaskMarks, When(Shows(d, Settings, "creating", {TRUE}), {"createTask"}))

TaskPageQueries(role) == {OneTask, Me} \cup When(isAdmin(role), {Assignable})

TaskPageOffers(d, role) ==
  Offers(TaskMarks, When(Shows(d, OneTask, "task", {"TO_DO", "STARTED", "CLOSED"}),
                         StatusChoices \cup When(isAdmin(role), {"saveTask"})))

TaskHistoryQueries(opened) == {TimerLog} \cup When(opened, {Today, MyCorrections})

AdminTaskDetailQueries == {OneTask, Assignable}

AdminTaskDetailOffers(d) ==
  Offers(TaskMarks, When(Shows(d, OneTask, "task", {"TO_DO", "STARTED", "CLOSED"}),
                         StatusChoices \cup {"saveTask"}))

AdminTasksQueries(opened) == {AllTasks, Assignable, Kpis} \cup When(opened, AdminTaskDetailQueries)

AdminTasksOffers(d, opened) ==
  IF opened THEN AdminTaskDetailOffers(d) ELSE Offers(TaskMarks, {"createTask"})

-----------------------------------------------------------------------------
(* Records and requests about them *)
AttendanceHistoryQueries(opened) == {MySessions} \cup When(opened, {OneSession})

AttendanceLogsQueries(opened) == {Loggable} \cup When(opened, {Sessions, OneSession})

MyCorrectionsQueries == {MyPastSessions, MyCorrections}

(* CorrectionForm *)
MyCorrectionsOffers(d) ==
  Offers({<<"corrections">>}, When(Seen(d, MyPastSessions), {"requestCorrection"}))

DirectCorrectionQueries(chosen) == {Correctable} \cup When(chosen, {PastSessions})

DirectCorrectionOffers(d) ==
  Offers({<<"attendance">>}, When(Seen(d, PastSessions), {"correctDirectly"}))

CorrectionReview(d) ==
  Offers({PendingCorrections}, When(Shows(d, PendingCorrections, "correction", {"PENDING"}),
                                    {"approveCorrection", "rejectCorrection"}))

AdminCorrectionsQueries(chosen) == {PendingCorrections} \cup DirectCorrectionQueries(chosen)

AdminCorrectionsOffers(d, chosen) ==
  CorrectionReview(d) \cup When(chosen, DirectCorrectionOffers(d))

PersonalDetailsCardQueries == {EmployeeProfile, MyChanges}

EmergencyContactCardQueries == {EmergencyContact, MyChanges}

(* A pending request for its section replaces a card's form.               *)
PersonalDetailsCard(d) ==
  Offers({MyChanges}, When(~Shows(d, MyChanges, "change", {"PENDING"}), {"requestChange"}))

EmergencyContactCard(d) ==
  Offers({MyChanges},
         When(~Shows(d, MyChanges, "contactChange", {"PENDING"}), {"requestContactChange"}))

(* A file whose deletion is requested offers neither control.              *)
DocumentsSection(d, canDelete) ==
  Offers({Files}, {"upload"}
    \cup When(Shows(d, Files, "document", {"LIVE"}),
              {IF canDelete THEN "removeDocument" ELSE "requestDeletion"}))

ProfileQueries == {Me, Files} \cup PersonalDetailsCardQueries \cup EmergencyContactCardQueries

ProfileOffers(d) ==
  Offers({Me}, {"updateMe"})
  \cup PersonalDetailsCard(d) \cup EmergencyContactCard(d) \cup DocumentsSection(d, FALSE)

ChangeReview(d) ==
  Offers({PendingChanges}, When(Shows(d, PendingChanges, "change", {"PENDING"}),
                                {"approveChange", "rejectChange"}))

DeletionReview(d) ==
  Offers({PendingDeletions, <<"users">>},
         When(Shows(d, PendingDeletions, "document", {"REQUESTED"}),
              {"approveDeletion", "rejectDeletion"}))

-----------------------------------------------------------------------------
(* User management *)
PersonalDetailsSection(d) ==
  Offers({EmployeeProfile}, When(Seen(d, EmployeeProfile), {"changeProfile"}))

EmergencyContactSection(d) ==
  Offers({EmergencyContact}, When(Seen(d, EmergencyContact), {"changeContact"}))

UserDetailQueries == {OneUser, Departments, EmployeeProfile, EmergencyContact, Files}

UserDetailOffers(d) ==
  Offers({OneUser, <<"users", "admin">>},
         When(Shows(d, OneUser, "account", {"PENDING", "ACTIVE", "SUSPENDED", "REJECTED"}),
              {"saveUser", "setRole", "setStatus"}))
  \cup PersonalDetailsSection(d) \cup EmergencyContactSection(d) \cup DocumentsSection(d, TRUE)

UsersQueries(opened) == {UserList, UserKpis, Departments, Me} \cup When(opened, UserDetailQueries)

UserMarks == {<<"users", "admin">>}

(* The create and import forms, shown to canEdit only.                     *)
UserFormsOffers(role) == Offers(UserMarks, When(isAdmin(role), {"createUser", "importUsers"}))

UserTableOffers(d, role) ==
  Offers(UserMarks, When(isAdmin(role) /\ Seen(d, UserList),
    When(d[UserList].account = "PENDING", {"approveUser", "rejectUser", "setRole"})
    \cup When(d[UserList].account \in {"ACTIVE", "SUSPENDED", "REJECTED"},
              {"setStatus", "setRole"})))

UsersOffers(d, role, opened) ==
  IF opened THEN UserDetailOffers(d)
  ELSE UserFormsOffers(role) \cup UserTableOffers(d, role)

-----------------------------------------------------------------------------
(* Listings and settings *)
DashboardQueries == {Kpis}

LiveQueries(role, opened) ==
  {Live, Departments, Me} \cup When(isAdmin(role), {Kpis}) \cup When(opened, {OneSession})

AuditQueries == {Actors, Trail}

ReportsQueries(taskTime) ==
  {Reportable, Departments, Report} \cup When(taskTime, {ReportTasks})

DepartmentsCard == Offers({Departments}, {"createDepartment"})

SettingsQueries == {Settings, Departments}

SettingsOffers(d) ==
  DepartmentsCard \cup Offers({Settings}, When(Seen(d, Settings), {"saveSettings"}))

-----------------------------------------------------------------------------
employeeLinks == {"my-day", "tasks", "tasks/history", "attendance", "corrections", "profile"}

adminLinks == {"admin/dashboard", "admin/live", "admin/attendance-logs", "admin/users",
               "admin/tasks", "admin/reports", "admin/corrections", "admin/profile-changes",
               "admin/document-deletions", "admin/audit", "admin/settings"}

auditorLinks == {"admin/live", "admin/reports", "admin/audit", "profile"}

(* The pages the navigation links for a role, and the task page that       *)
(* notifications link.                                                     *)
Links(role) ==
  CASE role = "ADMINISTRATOR" -> employeeLinks \cup adminLinks \cup {"tasks/id"}
    [] role = "AUDITOR"       -> auditorLinks
    [] OTHER                  -> employeeLinks \cup {"tasks/id"}

(* Drawers over the whole window; nothing under one can be used.           *)
Modal(page) == page \in {"tasks", "tasks/history", "attendance", "admin/live",
                         "admin/attendance-logs", "admin/users", "admin/tasks"}

(* What a page lists decides whether its drawer can be opened.             *)
CanOpen(page, d, role) ==
  CASE page = "tasks"       -> Shows(d, MyTasks, "task", {"TO_DO", "STARTED"})
    [] page = "admin/tasks" -> Shows(d, AllTasks, "task", {"TO_DO", "STARTED", "CLOSED"})
    [] page = "admin/users" -> isAdmin(role) /\ Seen(d, UserList) /\ d[UserList].account # "ABSENT"
    [] OTHER -> page \in {"tasks/history", "attendance", "admin/live", "admin/attendance-logs",
                         "admin/reports", "admin/corrections"}

PageQueries(page, role, opened) ==
  CASE page = "my-day"                   -> MyDayQueries
    [] page = "tasks"                    -> TasksQueries(role, opened)
    [] page = "tasks/id"                 -> TaskPageQueries(role)
    [] page = "tasks/history"            -> TaskHistoryQueries(opened)
    [] page = "attendance"               -> AttendanceHistoryQueries(opened)
    [] page = "corrections"              -> MyCorrectionsQueries
    [] page = "profile"                  -> ProfileQueries
    [] page = "admin/dashboard"          -> DashboardQueries
    [] page = "admin/live"               -> LiveQueries(role, opened)
    [] page = "admin/attendance-logs"    -> AttendanceLogsQueries(opened)
    [] page = "admin/users"              -> UsersQueries(opened)
    [] page = "admin/tasks"              -> AdminTasksQueries(opened)
    [] page = "admin/reports"            -> ReportsQueries(opened)
    [] page = "admin/corrections"        -> AdminCorrectionsQueries(opened)
    [] page = "admin/profile-changes"    -> {PendingChanges}
    [] page = "admin/document-deletions" -> {PendingDeletions}
    [] page = "admin/audit"              -> AuditQueries
    [] page = "admin/settings"           -> SettingsQueries

PageOffers(page, d, role, opened, confirming) ==
  CASE page = "my-day"                   -> MyDayOffers(d, confirming)
    [] page = "tasks"                    -> TasksOffers(d, role, opened)
    [] page = "tasks/id"                 -> TaskPageOffers(d, role)
    [] page = "corrections"              -> MyCorrectionsOffers(d)
    [] page = "profile"                  -> ProfileOffers(d)
    [] page = "admin/users"              -> UsersOffers(d, role, opened)
    [] page = "admin/tasks"              -> AdminTasksOffers(d, opened)
    [] page = "admin/corrections"        -> AdminCorrectionsOffers(d, opened)
    [] page = "admin/profile-changes"    -> ChangeReview(d)
    [] page = "admin/document-deletions" -> DeletionReview(d)
    [] page = "admin/settings"           -> SettingsOffers(d)
    [] OTHER                             -> {}
=============================================================================
