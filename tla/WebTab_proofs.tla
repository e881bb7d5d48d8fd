---------------------------- MODULE WebTab_proofs ----------------------------
(***************************************************************************)
(* Proofs about module WebTab, for any budget of visits, clicks and        *)
(* changes made elsewhere, entries past staleTime included.                *)
(*                                                                         *)
(* The tables of WebApi are worked out first: the key, the route and the   *)
(* fields of every GET, the route and the effect of every request, and     *)
(* that no prefix marks the entries of another family. Then, page by page: *)
(* the marks of every control cover what it sets (OfferedCovered), and     *)
(* what it offers on data that agree with the API is served (OffersTrue).  *)
(* The rest is React Query: an inductive invariant of its entries, an      *)
(* answer on its way, the click under way and what this page wrote last    *)
(* (TabInv).                                                               *)
(***************************************************************************)
EXTENDS WebTab, TLAPS

-----------------------------------------------------------------------------
(* The table of GETs. Its groups are keyed apart, so that an entry of a    *)
(* group is the table's.                                                   *)
AttendanceKeys == {State, Today, MySessions, MyPastSessions, OneSession, Live, Sessions,
                   PastSessions}

TaskKeys == {MyTasks, OneTask, AllTasks, ReportTasks, TimerLog}

DirectoryKeys == {UserList, UserKpis, Assignable, Correctable, Loggable, Reportable, Actors}

UserKeys == {Me, OneUser, EmployeeProfile, EmergencyContact, Departments} \cup DirectoryKeys

RequestKeys == {Files, MyCorrections, PendingCorrections, MyChanges, PendingChanges,
                PendingDeletions}

ListKeys == {Inbox, Settings, Kpis, Report, Trail}

AllKeys == AttendanceKeys \cup TaskKeys \cup UserKeys \cup RequestKeys \cup ListKeys

(* No key of one group is a key of another.                                *)
LEMMA KeysApart ==
  /\ AttendanceKeys \cap (TaskKeys \cup UserKeys \cup RequestKeys \cup ListKeys) = {}
  /\ TaskKeys \cap (UserKeys \cup RequestKeys \cup ListKeys) = {}
  /\ UserKeys \cap (RequestKeys \cup ListKeys) = {}
  /\ RequestKeys \cap ListKeys = {}
<1> USE DEF State, Today, MySessions, MyPastSessions, OneSession, Live, Sessions, PastSessions,
            MyTasks, OneTask, AllTasks, ReportTasks, TimerLog
<1>1. AttendanceKeys \cap (TaskKeys \cup UserKeys \cup RequestKeys \cup ListKeys) = {}
  BY DEF AttendanceKeys, TaskKeys, UserKeys, DirectoryKeys, RequestKeys, ListKeys, Me, OneUser,
         EmployeeProfile, EmergencyContact, Departments, UserList, UserKpis, Assignable,
         Correctable, Loggable, Reportable, Actors, Files, MyCorrections, PendingCorrections,
         MyChanges, PendingChanges, PendingDeletions, Inbox, Settings, Kpis, Report, Trail
<1>2. TaskKeys \cap (UserKeys \cup RequestKeys \cup ListKeys) = {}
  BY DEF TaskKeys, UserKeys, DirectoryKeys, RequestKeys, ListKeys, Me, OneUser,
         EmployeeProfile, EmergencyContact, Departments, UserList, UserKpis, Assignable,
         Correctable, Loggable, Reportable, Actors, Files, MyCorrections, PendingCorrections,
         MyChanges, PendingChanges, PendingDeletions, Inbox, Settings, Kpis, Report, Trail
<1>3. UserKeys \cap (RequestKeys \cup ListKeys) = {}
  BY DEF UserKeys, DirectoryKeys, RequestKeys, ListKeys, Me, OneUser,
         EmployeeProfile, EmergencyContact, Departments, UserList, UserKpis, Assignable,
         Correctable, Loggable, Reportable, Actors, Files, MyCorrections, PendingCorrections,
         MyChanges, PendingChanges, PendingDeletions, Inbox, Settings, Kpis, Report, Trail
<1>4. RequestKeys \cap ListKeys = {}
  BY DEF RequestKeys, ListKeys, Files, MyCorrections, PendingCorrections, MyChanges,
         PendingChanges, PendingDeletions, Inbox, Settings, Kpis, Report, Trail
<1> QED BY <1>1, <1>2, <1>3, <1>4

(* The groups' domains.                                                    *)
LEMMA GroupDomains ==
  /\ DOMAIN AttendanceGets = AttendanceKeys
  /\ DOMAIN TaskGets = TaskKeys
  /\ DOMAIN UserGets = UserKeys
  /\ DOMAIN RequestGets = RequestKeys
  /\ DOMAIN ListGets = ListKeys
<1>1. DOMAIN AttendanceGets = AttendanceKeys
  BY DEF AttendanceGets, AttendanceKeys, Get, ++
<1>2. DOMAIN TaskGets = TaskKeys
  BY DEF TaskGets, TaskKeys, Get, ++
<1>3. DOMAIN UserGets = UserKeys
  BY DEF UserGets, UserKeys, DirectoryKeys, Get, ++
<1>4. DOMAIN RequestGets = RequestKeys
  BY DEF RequestGets, RequestKeys, Get, ++
<1>5. DOMAIN ListGets = ListKeys
  BY DEF ListGets, ListKeys, Get, ++
<1> QED
  BY <1>1, <1>2, <1>3, <1>4, <1>5

(* The table's domain, and each entry in its group.                        *)
LEMMA GetsOfGroups ==
  /\ DOMAIN Gets = AllKeys
  /\ \A k \in AttendanceKeys : Gets[k] = AttendanceGets[k]
  /\ \A k \in TaskKeys : Gets[k] = TaskGets[k]
  /\ \A k \in UserKeys : Gets[k] = UserGets[k]
  /\ \A k \in RequestKeys : Gets[k] = RequestGets[k]
  /\ \A k \in ListKeys : Gets[k] = ListGets[k]
BY KeysApart, GroupDomains DEF Gets, AllKeys, ++

(* Who may read what, key by key.                                          *)
LEMMA AttendanceTable ==
  /\ \A k \in {State, Today} : Gets[k] = [route |-> Anyone, shows |-> {"duty", "timer", "title"}]
  /\ \A k \in {MySessions, MyPastSessions} :
       Gets[k] = [route |-> Anyone, shows |-> {"duty", "history"}]
  /\ Gets[OneSession] = [route |-> AnyoneOrAuditor, shows |-> {"duty", "history"}]
  /\ Gets[Live] = [route |-> AdminOrAuditor, shows |-> {"duty", "timer"}]
  /\ \A k \in {Sessions, PastSessions} :
       Gets[k] = [route |-> AdminOnly, shows |-> {"duty", "history"}]
<1>1. \A k \in AttendanceKeys : Gets[k] = AttendanceGets[k]
  BY GetsOfGroups
<1>2. /\ {State, Today} \cap {MySessions, MyPastSessions, OneSession, Live, Sessions,
                           PastSessions} = {}
      /\ {MySessions, MyPastSessions} \cap {OneSession, Live, Sessions, PastSessions} = {}
      /\ OneSession \notin {Live, Sessions, PastSessions}
      /\ Live \notin {Sessions, PastSessions}
  BY DEF State, Today, MySessions, MyPastSessions, OneSession, Live, Sessions, PastSessions
<1>3. ASSUME NEW k \in {State, Today}
      PROVE  AttendanceGets[k] = [route |-> Anyone, shows |-> {"duty", "timer", "title"}]
  BY DEF AttendanceGets, Get, ++
<1>4. ASSUME NEW k \in {MySessions, MyPastSessions}
      PROVE  AttendanceGets[k] = [route |-> Anyone, shows |-> {"duty", "history"}]
  BY <1>2 DEF AttendanceGets, Get, ++
<1>5. /\ AttendanceGets[OneSession] = [route |-> AnyoneOrAuditor, shows |-> {"duty", "history"}]
      /\ AttendanceGets[Live] = [route |-> AdminOrAuditor, shows |-> {"duty", "timer"}]
  BY <1>2 DEF AttendanceGets, Get, ++
<1>6. ASSUME NEW k \in {Sessions, PastSessions}
      PROVE  AttendanceGets[k] = [route |-> AdminOnly, shows |-> {"duty", "history"}]
  BY <1>2 DEF AttendanceGets, Get, ++
<1> QED
  BY <1>1, <1>3, <1>4, <1>5, <1>6 DEF AttendanceKeys

LEMMA TaskTable ==
  /\ \A k \in {MyTasks, OneTask, AllTasks, ReportTasks} :
       Gets[k] = [route |-> Anyone, shows |-> {"task", "title"}]
  /\ Gets[TimerLog] = [route |-> Anyone, shows |-> {"timer", "title"}]
<1>1. \A k \in TaskKeys : Gets[k] = TaskGets[k]
  BY GetsOfGroups
<1> QED
  BY <1>1 DEF TaskKeys, TaskGets, Get, ++, MyTasks, OneTask, AllTasks, ReportTasks, TimerLog

LEMMA UserTable ==
  /\ Gets[Me] = [route |-> AnyoneOrAuditor, shows |-> {"me"}]
  /\ \A k \in DirectoryKeys :
       Gets[k] = [route |-> AdminOrAuditor, shows |-> {"account", "accountRole", "name"}]
  /\ Gets[OneUser] = [route |-> AdminOnly, shows |-> {"account", "accountRole", "name"}]
  /\ Gets[EmployeeProfile] = [route |-> Anyone, shows |-> {"profile"}]
  /\ Gets[EmergencyContact] = [route |-> Anyone, shows |-> {"contact"}]
  /\ Gets[Departments] = [route |-> AnyoneOrAuditor, shows |-> {"department"}]
<1>1. \A k \in UserKeys : Gets[k] = UserGets[k]
  BY GetsOfGroups
<1> USE DEF UserGets, Get, ++
<1>2. UserGets[Me] = [route |-> AnyoneOrAuditor, shows |-> {"me"}]
  OBVIOUS
<1>3. /\ Me \notin DirectoryKeys
      /\ OneUser \notin DirectoryKeys \cup {Me}
      /\ EmployeeProfile \notin DirectoryKeys \cup {Me, OneUser}
      /\ EmergencyContact \notin DirectoryKeys \cup {Me, OneUser, EmployeeProfile}
      /\ Departments \notin DirectoryKeys \cup {Me, OneUser, EmployeeProfile, EmergencyContact}
  BY DEF Me, OneUser, EmployeeProfile, EmergencyContact, Departments, DirectoryKeys, UserList,
         UserKpis, Assignable, Correctable, Loggable, Reportable, Actors
<1>4. ASSUME NEW k \in DirectoryKeys
      PROVE  UserGets[k] = [route |-> AdminOrAuditor, shows |-> {"account", "accountRole", "name"}]
  <2>1. k # Me
    BY <1>3
  <2> QED
    BY <2>1 DEF DirectoryKeys
<1>5. /\ UserGets[OneUser] = [route |-> AdminOnly, shows |-> {"account", "accountRole", "name"}]
      /\ UserGets[EmployeeProfile] = [route |-> Anyone, shows |-> {"profile"}]
      /\ UserGets[EmergencyContact] = [route |-> Anyone, shows |-> {"contact"}]
      /\ UserGets[Departments] = [route |-> AnyoneOrAuditor, shows |-> {"department"}]
  BY <1>3 DEF DirectoryKeys
<1> HIDE DEF UserGets, Get, ++
<1> QED
  BY <1>1, <1>2, <1>4, <1>5 DEF UserKeys

LEMMA RequestTable ==
  /\ Gets[Files] = [route |-> Anyone, shows |-> {"document"}]
  /\ Gets[MyCorrections] = [route |-> Anyone, shows |-> {"correction"}]
  /\ Gets[PendingCorrections] = [route |-> AdminOnly, shows |-> {"correction"}]
  /\ Gets[MyChanges] = [route |-> Anyone, shows |-> {"change", "contactChange"}]
  /\ Gets[PendingChanges] = [route |-> AdminOnly, shows |-> {"change"}]
  /\ Gets[PendingDeletions] = [route |-> AdminOnly, shows |-> {"document"}]
<1>1. \A k \in RequestKeys : Gets[k] = RequestGets[k]
  BY GetsOfGroups
<1> QED
  BY <1>1 DEF RequestKeys, RequestGets, Get, ++, Files, MyCorrections, PendingCorrections,
              MyChanges, PendingChanges, PendingDeletions

LEMMA ListTable ==
  /\ Gets[Inbox] = [route |-> Anyone, shows |-> {"inbox"}]
  /\ Gets[Settings] = [route |-> Anyone, shows |-> {"creating"}]
  /\ Gets[Kpis].shows = {"duty", "timer", "task", "account"}
  /\ Gets[Report].shows = {"duty", "timer", "history", "title", "name"}
  /\ Gets[Trail].shows = {"task", "title", "correction", "history", "change", "profile",
                          "document", "account", "accountRole", "name"}
<1>1. \A k \in ListKeys : Gets[k] = ListGets[k]
  BY GetsOfGroups
<1>2. /\ Inbox \notin {Settings, Kpis, Report, Trail}
      /\ Settings \notin {Kpis, Report, Trail}
      /\ Kpis \notin {Report, Trail}
      /\ Report # Trail
  BY DEF Inbox, Settings, Kpis, Report, Trail
<1>3. /\ ListGets[Inbox] = [route |-> Anyone, shows |-> {"inbox"}]
      /\ ListGets[Settings] = [route |-> Anyone, shows |-> {"creating"}]
  BY <1>2 DEF ListGets, Get, ++
<1>4. /\ ListGets[Kpis].shows = {"duty", "timer", "task", "account"}
      /\ ListGets[Report].shows = {"duty", "timer", "history", "title", "name"}
  BY <1>2 DEF ListGets, Get, ++
<1>5. ListGets[Trail].shows = {"task", "title", "correction", "history", "change", "profile",
                               "document", "account", "accountRole", "name"}
  BY <1>2 DEF ListGets, Get, ++
<1> QED
  BY <1>1, <1>3, <1>4, <1>5 DEF ListKeys

-----------------------------------------------------------------------------
(* The table of requests                                                   *)
AttendanceNames == {"clockIn", "clockOut", "confirmClockOut", "startBreak", "endBreak"}

TimerNames == {"start", "resume", "resumeOther", "pause", "stop", "switch", "switchOther"}

TaskNames == {"createTask", "complete", "cancelTask", "markStarted", "saveTask"}

RequestNames == {"requestCorrection", "approveCorrection", "rejectCorrection", "correctDirectly",
                 "requestChange", "requestContactChange", "approveChange", "rejectChange",
                 "changeProfile", "changeContact"}

DocumentNames == {"upload", "removeDocument", "requestDeletion", "approveDeletion",
                  "rejectDeletion"}

UserNames == {"createUser", "importUsers", "approveUser", "rejectUser", "setStatus", "setRole",
              "saveUser", "updateMe"}

OrganisationNames == {"saveSettings", "createDepartment", "markRead"}

OpNames == AttendanceNames \cup TimerNames \cup TaskNames \cup RequestNames \cup DocumentNames
           \cup UserNames \cup OrganisationNames

(* A request of a group is the table's.                                    *)
LEMMA OpsOfGroups ==
  ASSUME NEW s, NEW r
  PROVE  /\ DOMAIN Ops(s, r) = OpNames
         /\ \A o \in AttendanceNames : Ops(s, r)[o] = AttendanceOps(s)[o]
         /\ \A o \in TimerNames : Ops(s, r)[o] = TimerOps(s)[o]
         /\ \A o \in TaskNames : Ops(s, r)[o] = TaskOps(s, r)[o]
         /\ \A o \in RequestNames : Ops(s, r)[o] = RequestOps(s)[o]
         /\ \A o \in DocumentNames : Ops(s, r)[o] = DocumentOps(s)[o]
         /\ \A o \in UserNames : Ops(s, r)[o] = UserOps(s)[o]
         /\ \A o \in OrganisationNames : Ops(s, r)[o] = OrganisationOps(s)[o]
<1>1. /\ DOMAIN AttendanceOps(s) = AttendanceNames
      /\ DOMAIN TimerOps(s) = TimerNames
      /\ DOMAIN TaskOps(s, r) = TaskNames
      /\ DOMAIN RequestOps(s) = RequestNames
      /\ DOMAIN DocumentOps(s) = DocumentNames
      /\ DOMAIN UserOps(s) = UserNames
      /\ DOMAIN OrganisationOps(s) = OrganisationNames
  BY DEF AttendanceOps, TimerOps, TaskOps, RequestOps, DocumentOps, UserOps, OrganisationOps,
         AttendanceNames, TimerNames, TaskNames, RequestNames, DocumentNames, UserNames,
         OrganisationNames
<1>2. /\ AttendanceNames \cap (TimerNames \cup TaskNames \cup RequestNames \cup DocumentNames
                               \cup UserNames \cup OrganisationNames) = {}
      /\ TimerNames \cap (TaskNames \cup RequestNames \cup DocumentNames \cup UserNames
                          \cup OrganisationNames) = {}
      /\ TaskNames \cap (RequestNames \cup DocumentNames \cup UserNames
                         \cup OrganisationNames) = {}
      /\ RequestNames \cap (DocumentNames \cup UserNames \cup OrganisationNames) = {}
      /\ DocumentNames \cap (UserNames \cup OrganisationNames) = {}
      /\ UserNames \cap OrganisationNames = {}
  BY DEF AttendanceNames, TimerNames, TaskNames, RequestNames, DocumentNames, UserNames,
         OrganisationNames
<1> DEFINE two   == AttendanceOps(s) ++ TimerOps(s)
           three == two ++ TaskOps(s, r)
           four  == three ++ RequestOps(s)
           five  == four ++ DocumentOps(s)
           six   == five ++ UserOps(s)
<1>3. Ops(s, r) = six ++ OrganisationOps(s)
  BY DEF Ops
<1>4. /\ DOMAIN two = AttendanceNames \cup TimerNames
      /\ \A o \in AttendanceNames : two[o] = AttendanceOps(s)[o]
      /\ \A o \in TimerNames : two[o] = TimerOps(s)[o]
  BY <1>1, <1>2 DEF ++
<1> HIDE DEF two
<1>5. /\ DOMAIN three = DOMAIN two \cup TaskNames
      /\ \A o \in DOMAIN two : three[o] = two[o]
      /\ \A o \in TaskNames : three[o] = TaskOps(s, r)[o]
  BY <1>1, <1>2, <1>4 DEF ++
<1> HIDE DEF three
<1>6. /\ DOMAIN four = DOMAIN three \cup RequestNames
      /\ \A o \in DOMAIN three : four[o] = three[o]
      /\ \A o \in RequestNames : four[o] = RequestOps(s)[o]
  BY <1>1, <1>2, <1>4, <1>5 DEF ++
<1> HIDE DEF four
<1>7. /\ DOMAIN five = DOMAIN four \cup DocumentNames
      /\ \A o \in DOMAIN four : five[o] = four[o]
      /\ \A o \in DocumentNames : five[o] = DocumentOps(s)[o]
  BY <1>1, <1>2, <1>4, <1>5, <1>6 DEF ++
<1> HIDE DEF five
<1>8. /\ DOMAIN six = DOMAIN five \cup UserNames
      /\ \A o \in DOMAIN five : six[o] = five[o]
      /\ \A o \in UserNames : six[o] = UserOps(s)[o]
  BY <1>1, <1>2, <1>4, <1>5, <1>6, <1>7 DEF ++
<1> HIDE DEF six
<1>9. /\ DOMAIN Ops(s, r) = DOMAIN six \cup OrganisationNames
      /\ \A o \in DOMAIN six : Ops(s, r)[o] = six[o]
      /\ \A o \in OrganisationNames : Ops(s, r)[o] = OrganisationOps(s)[o]
  BY <1>1, <1>2, <1>3, <1>4, <1>5, <1>6, <1>7, <1>8 DEF ++
<1> QED
  BY <1>4, <1>5, <1>6, <1>7, <1>8, <1>9 DEF OpNames

(* What a request may set.                                                 *)
DayFields == {"duty", "timer", "task", "worked"}

LEMMA DaySets ==
  ASSUME NEW s, NEW r, NEW o \in AttendanceNames \cup TimerNames
  PROVE  DOMAIN Ops(s, r)[o].sets \subseteq DayFields
<1>1. CASE o \in AttendanceNames
  <2>1. DOMAIN AttendanceOps(s)[o].sets \subseteq DayFields
    BY <1>1 DEF AttendanceNames, AttendanceOps, Op, DayFields, Nothing
  <2> QED
    BY <1>1, <2>1, OpsOfGroups
<1>2. CASE o \in TimerNames
  <2>1. DOMAIN TimerOps(s)[o].sets \subseteq DayFields
    BY <1>2 DEF TimerNames, TimerOps, Op, DayFields
  <2> QED
    BY <1>2, <2>1, OpsOfGroups
<1> QED
  BY <1>1, <1>2

LEMMA TaskSets ==
  ASSUME NEW s, NEW r
  PROVE  /\ \A o \in {"createTask", "complete", "cancelTask", "markStarted"} :
              DOMAIN Ops(s, r)[o].sets \subseteq {"task"}
         /\ DOMAIN Ops(s, r)["saveTask"].sets \subseteq {"title"}
<1>1. \A o \in TaskNames : Ops(s, r)[o] = TaskOps(s, r)[o]
  BY OpsOfGroups
<1> QED
  BY <1>1 DEF TaskNames, TaskOps, Op, Nothing

LEMMA RequestSets ==
  ASSUME NEW s, NEW r
  PROVE  /\ DOMAIN Ops(s, r)["requestCorrection"].sets \subseteq {"correction"}
         /\ \A o \in {"approveCorrection", "rejectCorrection"} :
              DOMAIN Ops(s, r)[o].sets \subseteq {"correction", "history"}
         /\ DOMAIN Ops(s, r)["correctDirectly"].sets \subseteq {"history"}
         /\ DOMAIN Ops(s, r)["requestChange"].sets \subseteq {"change"}
         /\ DOMAIN Ops(s, r)["requestContactChange"].sets \subseteq {"contactChange"}
         /\ \A o \in {"approveChange", "rejectChange"} :
              DOMAIN Ops(s, r)[o].sets \subseteq {"change", "profile"}
         /\ DOMAIN Ops(s, r)["changeProfile"].sets \subseteq {"profile"}
         /\ DOMAIN Ops(s, r)["changeContact"].sets \subseteq {"contact"}
<1>1. \A o \in RequestNames : Ops(s, r)[o] = RequestOps(s)[o]
  BY OpsOfGroups
<1> QED
  BY <1>1 DEF RequestNames, RequestOps, Op

LEMMA OtherSets ==
  ASSUME NEW s, NEW r
  PROVE  /\ \A o \in DocumentNames : DOMAIN Ops(s, r)[o].sets \subseteq {"document"}
         /\ \A o \in UserNames \ {"updateMe"} :
              DOMAIN Ops(s, r)[o].sets \subseteq {"account", "accountRole", "name"}
         /\ DOMAIN Ops(s, r)["updateMe"].sets \subseteq {"me"}
         /\ DOMAIN Ops(s, r)["saveSettings"].sets \subseteq {"creating"}
         /\ DOMAIN Ops(s, r)["createDepartment"].sets \subseteq {"department"}
         /\ DOMAIN Ops(s, r)["markRead"].sets \subseteq {"inbox"}
<1>1. \A o \in DocumentNames : DOMAIN Ops(s, r)[o].sets \subseteq {"document"}
  <2>1. \A o \in DocumentNames : Ops(s, r)[o] = DocumentOps(s)[o]
    BY OpsOfGroups
  <2> QED
    BY <2>1 DEF DocumentNames, DocumentOps, Op, Nothing
<1>2. \A o \in UserNames : Ops(s, r)[o] = UserOps(s)[o]
  BY OpsOfGroups
<1>3. /\ \A o \in UserNames \ {"updateMe"} :
           DOMAIN Ops(s, r)[o].sets \subseteq {"account", "accountRole", "name"}
      /\ DOMAIN Ops(s, r)["updateMe"].sets \subseteq {"me"}
  BY <1>2 DEF UserNames, UserOps, Op, Nothing
<1>4. \A o \in OrganisationNames : Ops(s, r)[o] = OrganisationOps(s)[o]
  BY OpsOfGroups
<1>5. /\ DOMAIN Ops(s, r)["saveSettings"].sets \subseteq {"creating"}
      /\ DOMAIN Ops(s, r)["createDepartment"].sets \subseteq {"department"}
      /\ DOMAIN Ops(s, r)["markRead"].sets \subseteq {"inbox"}
  BY <1>4 DEF OrganisationNames, OrganisationOps, Op
<1> QED
  BY <1>1, <1>3, <1>5

(* Whom the routes admit.                                                  *)
LEMMA Admission ==
  ASSUME NEW r
  PROVE  /\ Admits(Anyone, r) <=> r # "AUDITOR"
         /\ Admits(AnyoneOrAuditor, r)
         /\ Admits(AdminOnly, r) <=> r = "ADMINISTRATOR"
         /\ Admits(AdminOrAuditor, r) <=> r \in {"ADMINISTRATOR", "AUDITOR"}
BY DEF Admits, RolesGuard, AuditorScopeGuard, Anyone, AnyoneOrAuditor, AdminOnly, AdminOrAuditor

(* What the API serves of the requests the pages send.                     *)
LEMMA AttendanceServed ==
  ASSUME NEW s, NEW r, r # "AUDITOR"
  PROVE  /\ s.duty = "CLOCKED_OUT" => Serves("clockIn", s, r)
         /\ s.duty # "CLOCKED_OUT" => Serves("clockOut", s, r) /\ Serves("confirmClockOut", s, r)
         /\ s.duty = "WORKING" => Serves("startBreak", s, r)
         /\ s.duty = "ON_BREAK" => Serves("endBreak", s, r)
<1>1. \A o \in AttendanceNames : Ops(s, r)[o] = AttendanceOps(s)[o]
  BY OpsOfGroups
<1>2. \A o \in AttendanceNames : AttendanceOps(s)[o].route = Anyone
  BY DEF AttendanceNames, AttendanceOps, Op
<1>3. /\ AttendanceOps(s)["clockIn"].accepted <=> s.duty = "CLOCKED_OUT"
      /\ AttendanceOps(s)["clockOut"].accepted <=> s.duty # "CLOCKED_OUT"
      /\ AttendanceOps(s)["confirmClockOut"].accepted <=> s.duty # "CLOCKED_OUT"
      /\ AttendanceOps(s)["startBreak"].accepted <=> s.duty = "WORKING"
      /\ AttendanceOps(s)["endBreak"].accepted <=> s.duty = "ON_BREAK"
  BY DEF AttendanceOps, Op
<1> QED
  BY <1>1, <1>2, <1>3, Admission DEF AttendanceNames, Serves

LEMMA TimerServed ==
  ASSUME NEW s, NEW r, r # "AUDITOR"
  PROVE  /\ s.timer # "NONE" => Serves("pause", s, r) /\ Serves("stop", s, r)
         /\ s.duty = "WORKING" /\ s.timer = "NONE" =>
              /\ Serves("resumeOther", s, r)
              /\ s.task \in {"TO_DO", "STARTED"} =>
                   Serves("start", s, r) /\ (s.worked => Serves("resume", s, r))
         /\ s.duty = "WORKING" /\ s.timer = "THIS" => Serves("switchOther", s, r)
         /\ s.duty = "WORKING" /\ s.timer = "OTHER" /\ s.task \in {"TO_DO", "STARTED"} =>
              Serves("switch", s, r)
<1>1. \A o \in TimerNames : Ops(s, r)[o] = TimerOps(s)[o]
  BY OpsOfGroups
<1>2. \A o \in TimerNames : TimerOps(s)[o].route = Anyone
  BY DEF TimerNames, TimerOps, Op
<1>3. /\ TimerOps(s)["pause"].accepted <=> s.timer # "NONE"
      /\ TimerOps(s)["stop"].accepted <=> s.timer # "NONE"
      /\ TimerOps(s)["resumeOther"].accepted <=> s.duty = "WORKING" /\ s.timer = "NONE"
      /\ TimerOps(s)["start"].accepted <=>
           s.duty = "WORKING" /\ s.timer = "NONE" /\ s.task \in {"TO_DO", "STARTED"}
      /\ TimerOps(s)["resume"].accepted <=>
           s.duty = "WORKING" /\ s.timer = "NONE" /\ s.task \in {"TO_DO", "STARTED"} /\ s.worked
      /\ TimerOps(s)["switchOther"].accepted <=> s.duty = "WORKING" /\ s.timer = "THIS"
      /\ TimerOps(s)["switch"].accepted <=>
           s.duty = "WORKING" /\ s.timer = "OTHER" /\ s.task \in {"TO_DO", "STARTED"}
  BY DEF TimerOps, Op
<1> QED
  BY <1>1, <1>2, <1>3, Admission DEF TimerNames, Serves

LEMMA TaskServed ==
  ASSUME NEW s, NEW r, r # "AUDITOR"
  PROVE  /\ (r = "EMPLOYEE" => s.creating) => Serves("createTask", s, r)
         /\ r = "ADMINISTRATOR" /\ s.task # "ABSENT" => Serves("saveTask", s, r)
<1>1. \A o \in TaskNames : Ops(s, r)[o] = TaskOps(s, r)[o]
  BY OpsOfGroups
<1>2. /\ \A o \in {"createTask", "saveTask"} : TaskOps(s, r)[o].route = Anyone
  BY DEF TaskNames, TaskOps, Op
<1>3. /\ TaskOps(s, r)["createTask"].accepted <=> (r = "EMPLOYEE" => s.creating)
      /\ TaskOps(s, r)["saveTask"].accepted <=> s.task # "ABSENT" /\ r = "ADMINISTRATOR"
  BY DEF TaskOps, Op
<1> QED
  BY <1>1, <1>2, <1>3, Admission DEF TaskNames, Serves

LEMMA RequestServed ==
  ASSUME NEW s, NEW r, r # "AUDITOR"
  PROVE  /\ Serves("requestCorrection", s, r)
         /\ s.change # "PENDING" => Serves("requestChange", s, r)
         /\ s.contactChange # "PENDING" => Serves("requestContactChange", s, r)
         /\ r = "ADMINISTRATOR" =>
              /\ s.correction = "PENDING" =>
                   Serves("approveCorrection", s, r) /\ Serves("rejectCorrection", s, r)
              /\ Serves("correctDirectly", s, r)
              /\ s.change = "PENDING" =>
                   Serves("approveChange", s, r) /\ Serves("rejectChange", s, r)
              /\ Serves("changeProfile", s, r)
              /\ Serves("changeContact", s, r)
<1>1. \A o \in RequestNames : Ops(s, r)[o] = RequestOps(s)[o]
  BY OpsOfGroups
<1>2. /\ \A o \in {"requestCorrection", "requestChange", "requestContactChange"} :
           RequestOps(s)[o].route = Anyone
      /\ \A o \in RequestNames \ {"requestCorrection", "requestChange", "requestContactChange"} :
           RequestOps(s)[o].route = AdminOnly
  BY DEF RequestNames, RequestOps, Op
<1>3. /\ RequestOps(s)["requestCorrection"].accepted
      /\ RequestOps(s)["correctDirectly"].accepted
      /\ RequestOps(s)["changeProfile"].accepted
      /\ RequestOps(s)["changeContact"].accepted
      /\ RequestOps(s)["approveCorrection"].accepted <=> s.correction = "PENDING"
      /\ RequestOps(s)["rejectCorrection"].accepted <=> s.correction = "PENDING"
      /\ RequestOps(s)["approveChange"].accepted <=> s.change = "PENDING"
      /\ RequestOps(s)["rejectChange"].accepted <=> s.change = "PENDING"
      /\ RequestOps(s)["requestChange"].accepted <=> s.change # "PENDING"
      /\ RequestOps(s)["requestContactChange"].accepted <=> s.contactChange # "PENDING"
  BY DEF RequestOps, Op
<1> QED
  BY <1>1, <1>2, <1>3, Admission DEF RequestNames, Serves

LEMMA DocumentServed ==
  ASSUME NEW s, NEW r, r # "AUDITOR"
  PROVE  /\ Serves("upload", s, r)
         /\ s.document = "LIVE" => Serves("requestDeletion", s, r)
         /\ r = "ADMINISTRATOR" =>
              /\ s.document = "LIVE" => Serves("removeDocument", s, r)
              /\ s.document = "REQUESTED" =>
                   Serves("approveDeletion", s, r) /\ Serves("rejectDeletion", s, r)
<1>1. \A o \in DocumentNames : Ops(s, r)[o] = DocumentOps(s)[o]
  BY OpsOfGroups
<1>2. /\ \A o \in {"upload", "requestDeletion"} : DocumentOps(s)[o].route = Anyone
      /\ \A o \in {"removeDocument", "approveDeletion", "rejectDeletion"} :
           DocumentOps(s)[o].route = AdminOnly
  BY DEF DocumentNames, DocumentOps, Op
<1>3. /\ DocumentOps(s)["upload"].accepted
      /\ DocumentOps(s)["requestDeletion"].accepted <=> s.document = "LIVE"
      /\ DocumentOps(s)["removeDocument"].accepted <=> s.document \in {"LIVE", "REQUESTED"}
      /\ DocumentOps(s)["approveDeletion"].accepted <=> s.document = "REQUESTED"
      /\ DocumentOps(s)["rejectDeletion"].accepted <=> s.document = "REQUESTED"
  BY DEF DocumentOps, Op
<1> QED
  BY <1>1, <1>2, <1>3, Admission DEF DocumentNames, Serves

LEMMA UserServed ==
  ASSUME NEW s, NEW r
  PROVE  /\ Serves("updateMe", s, r)
         /\ r = "ADMINISTRATOR" =>
              /\ Serves("createUser", s, r) /\ Serves("importUsers", s, r)
              /\ s.account = "PENDING" => Serves("approveUser", s, r) /\ Serves("rejectUser", s, r)
              /\ s.account # "ABSENT" =>
                   /\ Serves("setStatus", s, r)
                   /\ Serves("setRole", s, r)
                   /\ Serves("saveUser", s, r)
<1>1. \A o \in UserNames : Ops(s, r)[o] = UserOps(s)[o]
  BY OpsOfGroups
<1>2. /\ UserOps(s)["updateMe"].route = AnyoneOrAuditor
      /\ \A o \in UserNames \ {"updateMe"} : UserOps(s)[o].route = AdminOnly
  BY DEF UserNames, UserOps, Op
<1>3. /\ UserOps(s)["updateMe"].accepted
      /\ UserOps(s)["createUser"].accepted
      /\ UserOps(s)["importUsers"].accepted
      /\ UserOps(s)["approveUser"].accepted <=> s.account = "PENDING"
      /\ UserOps(s)["rejectUser"].accepted <=> s.account = "PENDING"
      /\ UserOps(s)["setStatus"].accepted <=> s.account # "ABSENT"
      /\ UserOps(s)["setRole"].accepted <=> s.account # "ABSENT"
      /\ UserOps(s)["saveUser"].accepted <=> s.account # "ABSENT"
  BY DEF UserOps, Op
<1> QED
  BY <1>1, <1>2, <1>3, Admission DEF UserNames, Serves

LEMMA OrganisationServed ==
  ASSUME NEW s, NEW r, r # "AUDITOR"
  PROVE  /\ Serves("markRead", s, r)
         /\ r = "ADMINISTRATOR" =>
              Serves("saveSettings", s, r) /\ Serves("createDepartment", s, r)
<1>1. \A o \in OrganisationNames : Ops(s, r)[o] = OrganisationOps(s)[o]
  BY OpsOfGroups
<1> QED
  BY <1>1, Admission DEF OrganisationNames, OrganisationOps, Op, Serves

-----------------------------------------------------------------------------
(* The API's state: a timer runs only for a person who is working.         *)
Fields == {"duty", "timer", "task", "worked", "correction", "change", "contactChange",
           "document", "account", "creating", "accountRole", "title", "history", "profile",
           "contact", "me", "name", "department", "inbox"}

Sound(s) ==
  /\ DOMAIN s = Fields
  /\ s.duty \in {"CLOCKED_OUT", "WORKING", "ON_BREAK"}
  /\ s.timer \in {"NONE", "THIS", "OTHER"}
  /\ s.timer # "NONE" => s.duty = "WORKING"

LEMMA ScenesSound == ASSUME NEW s \in Scenes PROVE Sound(s)
BY DEF Scenes, Sound, Fields

(* A request that sets neither attendance nor timer leaves both.           *)
LEMMA SoundAside ==
  ASSUME NEW s, Sound(s), NEW sets, DOMAIN sets \subseteq Fields \ {"duty", "timer"}
  PROVE  Sound(sets ++ s)
BY DEF Sound, Fields, ++

(* An accepted request keeps the state sound.                              *)
LEMMA SoundAfter ==
  ASSUME NEW s, Sound(s), NEW r, NEW o \in OpNames, Ops(s, r)[o].accepted
  PROVE  Sound(Ops(s, r)[o].sets ++ s)
<1>1. CASE o \in AttendanceNames
  <2>1. Ops(s, r)[o] = AttendanceOps(s)[o]
    BY <1>1, OpsOfGroups
  <2>2. CASE o \in {"clockIn", "endBreak"}
    <3>1. AttendanceOps(s)[o].sets = [duty |-> "WORKING"]
      BY <2>2 DEF AttendanceOps, Op
    <3> QED
      BY <2>1, <3>1 DEF Sound, Fields, ++
  <2>3. CASE o = "clockOut"
    <3>1. CASE s.timer # "NONE" \/ s.duty = "ON_BREAK"
      <4>1. DOMAIN AttendanceOps(s)[o].sets = {}
        BY <2>3, <3>1 DEF AttendanceOps, Op, Nothing
      <4> QED
        BY <2>1, <4>1, SoundAside
    <3>2. CASE ~(s.timer # "NONE" \/ s.duty = "ON_BREAK")
      <4>1. AttendanceOps(s)[o].sets = [duty |-> "CLOCKED_OUT"]
        BY <2>3, <3>2 DEF AttendanceOps, Op
      <4> QED
        BY <2>1, <3>2, <4>1 DEF Sound, Fields, ++
    <3> QED
      BY <3>1, <3>2
  <2>4. CASE o \in {"confirmClockOut", "startBreak"}
    <3>1. PICK d \in {"CLOCKED_OUT", "ON_BREAK"} :
             AttendanceOps(s)[o].sets = [duty |-> d, timer |-> "NONE"]
      BY <2>4 DEF AttendanceOps, Op
    <3> QED
      BY <2>1, <3>1 DEF Sound, Fields, ++
  <2> QED
    BY <1>1, <2>2, <2>3, <2>4 DEF AttendanceNames
<1>2. CASE o \in TimerNames
  <2>1. Ops(s, r)[o] = TimerOps(s)[o]
    BY <1>2, OpsOfGroups
  <2>2. /\ DOMAIN TimerOps(s)[o].sets \subseteq {"timer", "task", "worked"}
        /\ "timer" \in DOMAIN TimerOps(s)[o].sets
        /\ TimerOps(s)[o].sets.timer \in {"NONE", "THIS", "OTHER"}
        /\ o \in {"pause", "stop"} => TimerOps(s)[o].sets.timer = "NONE"
    BY <1>2 DEF TimerNames, TimerOps, Op
  <2>3. /\ TimerOps(s)["start"].accepted => s.duty = "WORKING"
        /\ TimerOps(s)["resume"].accepted => s.duty = "WORKING"
        /\ TimerOps(s)["resumeOther"].accepted => s.duty = "WORKING"
        /\ TimerOps(s)["switch"].accepted => s.duty = "WORKING"
        /\ TimerOps(s)["switchOther"].accepted => s.duty = "WORKING"
    BY DEF TimerOps, Op
  <2>4. TimerOps(s)[o].sets.timer # "NONE" => s.duty = "WORKING"
    BY <1>2, <2>1, <2>2, <2>3 DEF TimerNames
  <2> QED
    BY <2>1, <2>2, <2>4 DEF Sound, Fields, ++
<1>3. CASE o \notin AttendanceNames \cup TimerNames
  <2>1. DOMAIN Ops(s, r)[o].sets \subseteq Fields \ {"duty", "timer"}
    BY <1>3, TaskSets, RequestSets, OtherSets
       DEF OpNames, TaskNames, RequestNames, OrganisationNames, Fields
  <2> QED
    BY <2>1, SoundAside
<1> QED
  BY <1>1, <1>2, <1>3

-----------------------------------------------------------------------------
(* Which entries show a field, and which of them the marks of a control    *)
(* reach.                                                                  *)
LEMMA WhoShows ==
  ASSUME NEW k \in AllKeys
  PROVE  /\ Gets[k].shows # {}
         /\ Gets[k].shows \cap {"duty", "timer"} # {} =>
              k \in AttendanceKeys \cup {TimerLog, Kpis, Report}
         /\ "task" \in Gets[k].shows => k \in TaskKeys \cup {Kpis, Trail}
         /\ "worked" \notin Gets[k].shows
         /\ "title" \in Gets[k].shows => k \in TaskKeys \cup {State, Today, Report, Trail}
         /\ "history" \in Gets[k].shows =>
              k \in {MySessions, MyPastSessions, OneSession, Sessions, PastSessions, Report, Trail}
         /\ "correction" \in Gets[k].shows => k \in {MyCorrections, PendingCorrections, Trail}
         /\ "change" \in Gets[k].shows => k \in {MyChanges, PendingChanges, Trail}
         /\ "contactChange" \in Gets[k].shows => k = MyChanges
         /\ "document" \in Gets[k].shows => k \in {Files, PendingDeletions, Trail}
         /\ "profile" \in Gets[k].shows => k \in {EmployeeProfile, Trail}
         /\ "contact" \in Gets[k].shows => k = EmergencyContact
         /\ Gets[k].shows \cap {"account", "accountRole", "name"} # {} =>
              k \in DirectoryKeys \cup {OneUser, Kpis, Report, Trail}
         /\ "me" \in Gets[k].shows => k = Me
         /\ "creating" \in Gets[k].shows => k = Settings
         /\ "department" \in Gets[k].shows => k = Departments
         /\ "inbox" \in Gets[k].shows => k = Inbox
<1>1. CASE k \in AttendanceKeys
  BY <1>1, AttendanceTable DEF AttendanceKeys
<1>2. CASE k \in TaskKeys
  BY <1>2, TaskTable DEF TaskKeys
<1>3. CASE k \in UserKeys
  BY <1>3, UserTable DEF UserKeys
<1>4. CASE k \in RequestKeys
  BY <1>4, RequestTable DEF RequestKeys
<1>5. CASE k \in ListKeys
  BY <1>5, ListTable DEF ListKeys
<1> QED
  BY <1>1, <1>2, <1>3, <1>4, <1>5 DEF AllKeys

(* The keys that are marks themselves.                                     *)
MarkKeys == {Me, OneUser, EmployeeProfile, EmergencyContact, Departments, Files,
             PendingCorrections, MyChanges, PendingChanges, PendingDeletions, Inbox, Settings}

LEMMA KeyPrefixes ==
  /\ \A k \in AttendanceKeys \ {Today} : IsPrefix(<<"attendance">>, k)
  /\ IsPrefix(<<"reconciliation">>, Today)
  /\ \A k \in TaskKeys \ {TimerLog} : IsPrefix(<<"tasks">>, k)
  /\ \A k \in DirectoryKeys : IsPrefix(<<"users", "admin">>, k)
  /\ IsPrefix(<<"users">>, Files)
  /\ \A k \in {MyCorrections, PendingCorrections} : IsPrefix(<<"corrections">>, k)
  /\ \A k \in MarkKeys : IsPrefix(k, k)
<1>1. \A k \in AttendanceKeys \ {Today} : IsPrefix(<<"attendance">>, k)
  <2>1. /\ IsPrefix(<<"attendance">>, State)
        /\ IsPrefix(<<"attendance">>, MySessions)
        /\ IsPrefix(<<"attendance">>, MyPastSessions)
        /\ IsPrefix(<<"attendance">>, OneSession)
        /\ IsPrefix(<<"attendance">>, Live)
        /\ IsPrefix(<<"attendance">>, Sessions)
        /\ IsPrefix(<<"attendance">>, PastSessions)
    BY DEF IsPrefix, State, MySessions, MyPastSessions, OneSession, Live, Sessions, PastSessions
  <2> QED
    BY <2>1 DEF AttendanceKeys
<1>2. IsPrefix(<<"reconciliation">>, Today) /\ IsPrefix(<<"users">>, Files)
  BY DEF IsPrefix, Today, Files
<1>3. \A k \in TaskKeys \ {TimerLog} : IsPrefix(<<"tasks">>, k)
  BY DEF IsPrefix, TaskKeys, MyTasks, OneTask, AllTasks, ReportTasks
<1>4. \A k \in DirectoryKeys : IsPrefix(<<"users", "admin">>, k)
  BY DEF IsPrefix, DirectoryKeys, UserList, UserKpis, Assignable, Correctable, Loggable,
         Reportable, Actors
<1>5. \A k \in {MyCorrections, PendingCorrections} : IsPrefix(<<"corrections">>, k)
  BY DEF IsPrefix, MyCorrections, PendingCorrections
<1>6. \A k \in MarkKeys : IsPrefix(k, k)
  <2>1. /\ IsPrefix(Me, Me)
        /\ IsPrefix(OneUser, OneUser)
        /\ IsPrefix(EmployeeProfile, EmployeeProfile)
        /\ IsPrefix(EmergencyContact, EmergencyContact)
        /\ IsPrefix(Departments, Departments)
        /\ IsPrefix(Files, Files)
    BY DEF IsPrefix, Me, OneUser, EmployeeProfile, EmergencyContact, Departments, Files
  <2>2. /\ IsPrefix(PendingCorrections, PendingCorrections)
        /\ IsPrefix(MyChanges, MyChanges)
        /\ IsPrefix(PendingChanges, PendingChanges)
        /\ IsPrefix(PendingDeletions, PendingDeletions)
        /\ IsPrefix(Inbox, Inbox)
        /\ IsPrefix(Settings, Settings)
    BY DEF IsPrefix, PendingCorrections, MyChanges, PendingChanges, PendingDeletions, Inbox,
           Settings
  <2> QED
    BY <2>1, <2>2 DEF MarkKeys
<1> QED
  BY <1>1, <1>2, <1>3, <1>4, <1>5, <1>6

(* What has to hold for a control that changes `f` and marks `marks` on a  *)
(* page that uses the entries K.                                           *)
Covers(f, marks, K) ==
  \A k \in K : f \in Gets[k].shows => Marked(k, marks) \/ Forgotten(k, marks)

(* Controls whose marks reach what they change wherever it is shown.       *)
LEMMA CoversEverywhere ==
  /\ \A f \in DayFields : Covers(f, DayMarks, AllKeys)
  /\ Covers("task", TaskMarks, AllKeys)
  /\ Covers("correction", {<<"corrections">>}, AllKeys)
  /\ Covers("history", {<<"attendance">>}, AllKeys)
  /\ Covers("contactChange", {MyChanges}, AllKeys)
  /\ Covers("document", {PendingDeletions, <<"users">>}, AllKeys)
  /\ Covers("profile", {EmployeeProfile}, AllKeys)
  /\ Covers("contact", {EmergencyContact}, AllKeys)
  /\ \A f \in {"account", "accountRole", "name"} :
       /\ Covers(f, {OneUser, <<"users", "admin">>}, AllKeys)
       /\ Covers(f, UserMarks, AllKeys)
  /\ Covers("me", {Me}, AllKeys)
  /\ Covers("creating", {Settings}, AllKeys)
  /\ Covers("department", {Departments}, AllKeys)
  /\ Covers("inbox", {Inbox}, AllKeys)
<1>1. ASSUME NEW f \in DayFields, NEW k \in AllKeys, f \in Gets[k].shows
      PROVE  Marked(k, DayMarks) \/ Forgotten(k, DayMarks)
  <2>1. k \in AttendanceKeys \cup TaskKeys \cup {Kpis, Report, Trail}
    BY <1>1, WhoShows DEF DayFields, TaskKeys
  <2> QED
    BY <2>1, KeyPrefixes DEF DayMarks, Marked, Forgotten
<1>2. ASSUME NEW k \in AllKeys, "task" \in Gets[k].shows
      PROVE  Marked(k, TaskMarks) \/ Forgotten(k, TaskMarks)
  <2>1. k \in TaskKeys \cup {Kpis, Trail}
    BY <1>2, WhoShows
  <2> QED
    BY <2>1, KeyPrefixes DEF TaskMarks, Marked, Forgotten
<1>3. ASSUME NEW k \in AllKeys, "correction" \in Gets[k].shows
      PROVE  Marked(k, {<<"corrections">>}) \/ Forgotten(k, {<<"corrections">>})
  <2>1. k \in {MyCorrections, PendingCorrections, Trail}
    BY <1>3, WhoShows
  <2> QED
    BY <2>1, KeyPrefixes DEF Marked, Forgotten
<1>4. ASSUME NEW k \in AllKeys, "history" \in Gets[k].shows
      PROVE  Marked(k, {<<"attendance">>}) \/ Forgotten(k, {<<"attendance">>})
  <2>1. k \in {MySessions, MyPastSessions, OneSession, Sessions, PastSessions, Report, Trail}
    BY <1>4, WhoShows
  <2>2. {MySessions, MyPastSessions, OneSession, Sessions, PastSessions}
          \subseteq AttendanceKeys \ {Today}
    BY DEF AttendanceKeys, Today, MySessions, MyPastSessions, OneSession, Sessions, PastSessions
  <2> QED
    BY <2>1, <2>2, KeyPrefixes DEF Marked, Forgotten
<1>5. ASSUME NEW k \in AllKeys
      PROVE  /\ k \in MarkKeys => Marked(k, {k})
             /\ k = Trail => \A marks : Forgotten(k, marks)
  BY KeyPrefixes DEF Marked, Forgotten
<1>6. ASSUME NEW k \in AllKeys, "document" \in Gets[k].shows
      PROVE  \/ Marked(k, {PendingDeletions, <<"users">>})
             \/ Forgotten(k, {PendingDeletions, <<"users">>})
  <2>1. k \in {Files, PendingDeletions, Trail}
    BY <1>6, WhoShows
  <2> QED
    BY <2>1, KeyPrefixes DEF Marked, Forgotten, MarkKeys
<1>7. ASSUME NEW f \in {"account", "accountRole", "name"}, NEW k \in AllKeys,
             f \in Gets[k].shows
      PROVE  /\ \/ Marked(k, {OneUser, <<"users", "admin">>})
                \/ Forgotten(k, {OneUser, <<"users", "admin">>})
             /\ Marked(k, UserMarks) \/ Forgotten(k, UserMarks)
  <2>1. k \in DirectoryKeys \cup {OneUser, Kpis, Report, Trail}
    BY <1>7, WhoShows
  <2> QED
    BY <2>1, KeyPrefixes DEF UserMarks, Marked, Forgotten, MarkKeys
<1>8. /\ Covers("contactChange", {MyChanges}, AllKeys)
      /\ Covers("profile", {EmployeeProfile}, AllKeys)
      /\ Covers("contact", {EmergencyContact}, AllKeys)
      /\ Covers("me", {Me}, AllKeys)
      /\ Covers("creating", {Settings}, AllKeys)
      /\ Covers("department", {Departments}, AllKeys)
      /\ Covers("inbox", {Inbox}, AllKeys)
  BY <1>5, WhoShows DEF Covers, MarkKeys
<1> QED
  BY <1>1, <1>2, <1>3, <1>4, <1>6, <1>7, <1>8 DEF Covers

(* Controls that need a page without the other places that show it.        *)
LEMMA CoversElsewhere ==
  /\ Covers("title", TaskMarks, AllKeys \ {Today})
  /\ Covers("correction", {PendingCorrections}, AllKeys \ {MyCorrections})
  /\ Covers("history", {PendingCorrections},
            AllKeys \ {MySessions, MyPastSessions, OneSession, Sessions})
  /\ Covers("change", {MyChanges}, AllKeys \ {PendingChanges})
  /\ Covers("change", {PendingChanges}, AllKeys \ {MyChanges})
  /\ Covers("profile", {PendingChanges}, AllKeys \ {EmployeeProfile})
  /\ Covers("document", {Files}, AllKeys \ {PendingDeletions})
<1>1. ASSUME NEW k \in AllKeys \ {Today}, "title" \in Gets[k].shows
      PROVE  Marked(k, TaskMarks) \/ Forgotten(k, TaskMarks)
  <2>1. k \in TaskKeys \cup {State, Report, Trail}
    BY <1>1, WhoShows
  <2> QED
    BY <2>1, KeyPrefixes DEF TaskMarks, Marked, Forgotten
<1>2. ASSUME NEW k \in AllKeys
      PROVE  /\ k \in MarkKeys => Marked(k, {k})
             /\ k \in {Trail, Report} => \A marks : Forgotten(k, marks)
             /\ k = PastSessions => Forgotten(k, {PendingCorrections})
  BY KeyPrefixes DEF Marked, Forgotten
<1>3. Covers("history", {PendingCorrections},
             AllKeys \ {MySessions, MyPastSessions, OneSession, Sessions})
  BY <1>2, WhoShows DEF Covers, MarkKeys
<1>4. /\ Covers("correction", {PendingCorrections}, AllKeys \ {MyCorrections})
      /\ Covers("change", {MyChanges}, AllKeys \ {PendingChanges})
      /\ Covers("change", {PendingChanges}, AllKeys \ {MyChanges})
      /\ Covers("profile", {PendingChanges}, AllKeys \ {EmployeeProfile})
      /\ Covers("document", {Files}, AllKeys \ {PendingDeletions})
  BY <1>2, WhoShows DEF Covers, MarkKeys
<1> QED
  BY <1>1, <1>3, <1>4 DEF Covers

-----------------------------------------------------------------------------
(* The inductive invariant                                                 *)

(* The entries the page uses, with its drawer closed or open.              *)
Reach == FrameQueries(role) \cup PageQueries(page, role, FALSE) \cup PageQueries(page, role, TRUE)

PlaceOK == role \in Roles /\ page \in Routes(role) /\ opened \in BOOLEAN

(* What a query's data can be: nothing, or an answer to one the role may   *)
(* send.                                                                   *)
AnswerOK(k, d) == d = NoData \/ (Admits(Gets[k].route, role) /\ DOMAIN d = Gets[k].shows)

(* An entry of the cache: its data and two flags.                          *)
Entry(e) ==
  /\ e = [data |-> e.data, invalid |-> e.invalid, busy |-> e.busy]
  /\ e.invalid \in BOOLEAN
  /\ e.busy \in BOOLEAN

CacheOK ==
  /\ Mounted \subseteq DOMAIN cache
  /\ DOMAIN cache \subseteq AllKeys
  /\ \A k \in DOMAIN cache :
       /\ Entry(cache[k])
       /\ AnswerOK(k, cache[k].data)

TransitOK ==
  transit # NoData =>
    /\ transit.key \in DOMAIN cache
    /\ cache[transit.key].busy
    /\ AnswerOK(transit.key, transit.data)
    /\ Admits(Gets[transit.key].route, role) => transit.data # NoData

(* Whatever the request sets, its marks reach, or the names of Forgotten   *)
(* except, wherever this page shows it.                                    *)
CoversOp(o, marks, K) ==
  \A s : \A f \in DOMAIN Ops(s, role)[o].sets : Covers(f, marks, K)

ClickOK ==
  click # NoData =>
    /\ click = [op |-> click.op, marks |-> click.marks, here |-> click.here,
                answer |-> click.answer]
    /\ click.op \in OpNames
    /\ click.here => CoversOp(click.op, click.marks, Reach)

MineOK == \A m \in mine : m[1] \in Fields /\ Covers(m[1], m[2], Reach)

(* A mounted entry that is invalid is being fetched - or its fetch was     *)
(* refused, and it has nothing to show.                                    *)
Fetching == \A k \in Mounted : cache[k].invalid => cache[k].busy \/ cache[k].data = NoData

(* The answer that marks `marks` is still on its way.                      *)
Answering(marks) ==
  click # NoData /\ click.answer = "done" /\ click.here /\ click.marks = marks

UpToDate(k, f) ==
  /\ transit # NoData /\ transit.key = k /\ f \in DOMAIN transit.data =>
       transit.data[f] = server[f]
  /\ ~cache[k].busy /\ ~cache[k].invalid /\ f \in DOMAIN cache[k].data =>
       cache[k].data[f] = server[f]

(* What the page's controls wrote last is what an entry under their marks  *)
(* has or will have: the marking is still to come, or was overtaken by the *)
(* entry's first fetch, or neither the entry nor an answer on its way to   *)
(* it is from before the write.                                            *)
Written ==
  \A m \in mine : \A k \in DOMAIN cache :
    Marked(k, m[2]) => Answering(m[2]) \/ k \in joined \/ UpToDate(k, m[1])

TabInv ==
  /\ PlaceOK
  /\ Sound(server)
  /\ CacheOK
  /\ TransitOK
  /\ ClickOK
  /\ MineOK
  /\ Fetching
  /\ Written

-----------------------------------------------------------------------------
(* Pages: who comes to which, and the entries each uses                    *)
EmployeePages == {"my-day", "tasks", "tasks/id", "tasks/history", "attendance", "corrections"}

SharedPages == {"profile", "admin/live", "admin/reports", "admin/audit"}

AdminPages == {"admin/dashboard", "admin/attendance-logs", "admin/users", "admin/tasks",
               "admin/corrections", "admin/profile-changes", "admin/document-deletions",
               "admin/settings"}

AllPages == EmployeePages \cup SharedPages \cup AdminPages

LEMMA PagesOfRoles ==
  ASSUME NEW r \in Roles, NEW p \in Routes(r)
  PROVE  /\ p \in AllPages
         /\ p \in EmployeePages => r # "AUDITOR"
         /\ p \in AdminPages => r = "ADMINISTRATOR"
BY DEF Roles, Routes, Links, employeeLinks, adminLinks, auditorLinks, AllPages, EmployeePages,
       SharedPages, AdminPages

LEMMA QueriesOfPages ==
  ASSUME NEW r, NEW o
  PROVE  /\ PageQueries("my-day", r, o) = MyDayQueries
         /\ PageQueries("tasks", r, o) = TasksQueries(r, o)
         /\ PageQueries("tasks/id", r, o) = TaskPageQueries(r)
         /\ PageQueries("tasks/history", r, o) = TaskHistoryQueries(o)
         /\ PageQueries("attendance", r, o) = AttendanceHistoryQueries(o)
         /\ PageQueries("corrections", r, o) = MyCorrectionsQueries
         /\ PageQueries("profile", r, o) = ProfileQueries
         /\ PageQueries("admin/dashboard", r, o) = DashboardQueries
         /\ PageQueries("admin/live", r, o) = LiveQueries(r, o)
         /\ PageQueries("admin/attendance-logs", r, o) = AttendanceLogsQueries(o)
         /\ PageQueries("admin/users", r, o) = UsersQueries(o)
         /\ PageQueries("admin/tasks", r, o) = AdminTasksQueries(o)
         /\ PageQueries("admin/reports", r, o) = ReportsQueries(o)
         /\ PageQueries("admin/corrections", r, o) = AdminCorrectionsQueries(o)
         /\ PageQueries("admin/profile-changes", r, o) = {PendingChanges}
         /\ PageQueries("admin/document-deletions", r, o) = {PendingDeletions}
         /\ PageQueries("admin/audit", r, o) = AuditQueries
         /\ PageQueries("admin/settings", r, o) = SettingsQueries
BY DEF PageQueries

LEMMA OffersOfPages ==
  ASSUME NEW d, NEW r, NEW o, NEW c
  PROVE  /\ PageOffers("my-day", d, r, o, c) = MyDayOffers(d, c)
         /\ PageOffers("tasks", d, r, o, c) = TasksOffers(d, r, o)
         /\ PageOffers("tasks/id", d, r, o, c) = TaskPageOffers(d, r)
         /\ PageOffers("corrections", d, r, o, c) = MyCorrectionsOffers(d)
         /\ PageOffers("profile", d, r, o, c) = ProfileOffers(d)
         /\ PageOffers("admin/users", d, r, o, c) = UsersOffers(d, r, o)
         /\ PageOffers("admin/tasks", d, r, o, c) = AdminTasksOffers(d, o)
         /\ PageOffers("admin/corrections", d, r, o, c) = AdminCorrectionsOffers(d, o)
         /\ PageOffers("admin/profile-changes", d, r, o, c) = ChangeReview(d)
         /\ PageOffers("admin/document-deletions", d, r, o, c) = DeletionReview(d)
         /\ PageOffers("admin/settings", d, r, o, c) = SettingsOffers(d)
         /\ \A p \in {"tasks/history", "attendance", "admin/dashboard", "admin/live",
                      "admin/attendance-logs", "admin/reports", "admin/audit"} :
              PageOffers(p, d, r, o, c) = {}
BY DEF PageOffers

(* Pages use entries of the table, and opening a drawer only adds to them. *)
LEMMA KeysOfPages ==
  ASSUME NEW p \in AllPages, NEW r, NEW o
  PROVE  /\ PageQueries(p, r, o) \subseteq AllKeys
         /\ PageQueries(p, r, FALSE) \subseteq PageQueries(p, r, TRUE)
<1> USE DEF When
<1>1. /\ {State, Today, MySessions, MyPastSessions, OneSession, Live, Sessions, PastSessions}
           \subseteq AllKeys
      /\ {MyTasks, OneTask, AllTasks, ReportTasks, TimerLog} \subseteq AllKeys
      /\ {Me, OneUser, EmployeeProfile, EmergencyContact, Departments} \subseteq AllKeys
      /\ {UserList, UserKpis, Assignable, Correctable, Loggable, Reportable, Actors}
           \subseteq AllKeys
      /\ {Files, MyCorrections, PendingCorrections, MyChanges, PendingChanges, PendingDeletions}
           \subseteq AllKeys
      /\ {Inbox, Settings, Kpis, Report, Trail} \subseteq AllKeys
  BY DEF AllKeys, AttendanceKeys, TaskKeys, UserKeys, DirectoryKeys, RequestKeys, ListKeys
<1>2. CASE p \in EmployeePages
  <2>1. CASE p = "my-day"
    <3>1. \A x : PageQueries(p, r, x) = MyDayQueries
      BY <2>1, QueriesOfPages
    <3> QED
      BY <1>1, <3>1 DEF MyDayQueries
  <2>2. CASE p = "tasks"
    <3>1. \A x : PageQueries(p, r, x) = TasksQueries(r, x)
      BY <2>2, QueriesOfPages
    <3> QED
      BY <1>1, <3>1 DEF TasksQueries, TaskDetailQueries
  <2>3. CASE p = "tasks/id"
    <3>1. \A x : PageQueries(p, r, x) = TaskPageQueries(r)
      BY <2>3, QueriesOfPages
    <3> QED
      BY <1>1, <3>1 DEF TaskPageQueries
  <2>4. CASE p = "tasks/history"
    <3>1. \A x : PageQueries(p, r, x) = TaskHistoryQueries(x)
      BY <2>4, QueriesOfPages
    <3> QED
      BY <1>1, <3>1 DEF TaskHistoryQueries
  <2>5. CASE p = "attendance"
    <3>1. \A x : PageQueries(p, r, x) = AttendanceHistoryQueries(x)
      BY <2>5, QueriesOfPages
    <3> QED
      BY <1>1, <3>1 DEF AttendanceHistoryQueries
  <2>6. CASE p = "corrections"
    <3>1. \A x : PageQueries(p, r, x) = MyCorrectionsQueries
      BY <2>6, QueriesOfPages
    <3> QED
      BY <1>1, <3>1 DEF MyCorrectionsQueries
  <2> QED
    BY <1>2, <2>1, <2>2, <2>3, <2>4, <2>5, <2>6 DEF EmployeePages
<1>3. CASE p \in SharedPages
  <2>1. CASE p = "profile"
    <3>1. \A x : PageQueries(p, r, x) = ProfileQueries
      BY <2>1, QueriesOfPages
    <3> QED
      BY <1>1, <3>1 DEF ProfileQueries, PersonalDetailsCardQueries,
                EmergencyContactCardQueries
  <2>2. CASE p = "admin/live"
    <3>1. \A x : PageQueries(p, r, x) = LiveQueries(r, x)
      BY <2>2, QueriesOfPages
    <3> QED
      BY <1>1, <3>1 DEF LiveQueries
  <2>3. CASE p = "admin/reports"
    <3>1. \A x : PageQueries(p, r, x) = ReportsQueries(x)
      BY <2>3, QueriesOfPages
    <3> QED
      BY <1>1, <3>1 DEF ReportsQueries
  <2>4. CASE p = "admin/audit"
    <3>1. \A x : PageQueries(p, r, x) = AuditQueries
      BY <2>4, QueriesOfPages
    <3> QED
      BY <1>1, <3>1 DEF AuditQueries
  <2> QED
    BY <1>3, <2>1, <2>2, <2>3, <2>4 DEF SharedPages
<1>4. CASE p \in AdminPages
  <2>1. CASE p = "admin/dashboard"
    <3>1. \A x : PageQueries(p, r, x) = DashboardQueries
      BY <2>1, QueriesOfPages
    <3> QED
      BY <1>1, <3>1 DEF DashboardQueries
  <2>2. CASE p = "admin/attendance-logs"
    <3>1. \A x : PageQueries(p, r, x) = AttendanceLogsQueries(x)
      BY <2>2, QueriesOfPages
    <3> QED
      BY <1>1, <3>1 DEF AttendanceLogsQueries
  <2>3. CASE p = "admin/users"
    <3>1. \A x : PageQueries(p, r, x) = UsersQueries(x)
      BY <2>3, QueriesOfPages
    <3> QED
      BY <1>1, <3>1 DEF UsersQueries, UserDetailQueries
  <2>4. CASE p = "admin/tasks"
    <3>1. \A x : PageQueries(p, r, x) = AdminTasksQueries(x)
      BY <2>4, QueriesOfPages
    <3> QED
      BY <1>1, <3>1 DEF AdminTasksQueries, AdminTaskDetailQueries
  <2>5. CASE p = "admin/corrections"
    <3>1. \A x : PageQueries(p, r, x) = AdminCorrectionsQueries(x)
      BY <2>5, QueriesOfPages
    <3> QED
      BY <1>1, <3>1 DEF AdminCorrectionsQueries, DirectCorrectionQueries
  <2>6. CASE p = "admin/profile-changes"
    <3>1. \A x : PageQueries(p, r, x) = {PendingChanges}
      BY <2>6, QueriesOfPages
    <3> QED
      BY <1>1, <3>1
  <2>7. CASE p = "admin/document-deletions"
    <3>1. \A x : PageQueries(p, r, x) = {PendingDeletions}
      BY <2>7, QueriesOfPages
    <3> QED
      BY <1>1, <3>1
  <2>8. CASE p = "admin/settings"
    <3>1. \A x : PageQueries(p, r, x) = SettingsQueries
      BY <2>8, QueriesOfPages
    <3> QED
      BY <1>1, <3>1 DEF SettingsQueries
  <2> QED
    BY <1>4, <2>1, <2>2, <2>3, <2>4, <2>5, <2>6, <2>7, <2>8 DEF AdminPages
<1> QED
  BY <1>2, <1>3, <1>4 DEF AllPages

LEMMA KeysOfFrame ==
  ASSUME NEW r
  PROVE  FrameQueries(r) \subseteq {Me, State, MyTasks, Inbox} /\ FrameQueries(r) \subseteq AllKeys
BY DEF FrameQueries, When, TimerBarQueries, AllKeys, AttendanceKeys, TaskKeys, UserKeys, ListKeys

-----------------------------------------------------------------------------
(* What the marks of a page's controls reach                               *)
LEMMA CoversFewer ==
  ASSUME NEW o, NEW marks, NEW K, NEW L \in SUBSET K, CoversOp(o, marks, K)
  PROVE  CoversOp(o, marks, L)
BY DEF CoversOp, Covers

(* Every request with the marks some control sends it with.                *)
LEMMA CoversDay == \A o \in AttendanceNames \cup TimerNames : CoversOp(o, DayMarks, AllKeys)
<1> SUFFICES ASSUME NEW o \in AttendanceNames \cup TimerNames, NEW s,
                    NEW f \in DOMAIN Ops(s, role)[o].sets
             PROVE  Covers(f, DayMarks, AllKeys)
  BY DEF CoversOp
<1>1. f \in DayFields
  BY DaySets
<1> QED
  BY <1>1, CoversEverywhere

LEMMA CoversTasks == \A o \in TaskNames : CoversOp(o, TaskMarks, AllKeys \ {Today})
<1> SUFFICES ASSUME NEW o \in TaskNames, NEW s, NEW f \in DOMAIN Ops(s, role)[o].sets
             PROVE  Covers(f, TaskMarks, AllKeys \ {Today})
  BY DEF CoversOp
<1>1. f \in {"task", "title"}
  BY TaskSets DEF TaskNames
<1> QED
  BY <1>1, CoversEverywhere, CoversElsewhere DEF Covers

LEMMA CoversRequests ==
  /\ CoversOp("requestCorrection", {<<"corrections">>}, AllKeys)
  /\ \A o \in {"approveCorrection", "rejectCorrection"} :
       CoversOp(o, {PendingCorrections},
                AllKeys \ {MyCorrections, MySessions, MyPastSessions, OneSession, Sessions})
  /\ CoversOp("correctDirectly", {<<"attendance">>}, AllKeys)
  /\ CoversOp("requestChange", {MyChanges}, AllKeys \ {PendingChanges})
  /\ CoversOp("requestContactChange", {MyChanges}, AllKeys)
  /\ \A o \in {"approveChange", "rejectChange"} :
       CoversOp(o, {PendingChanges}, AllKeys \ {MyChanges, EmployeeProfile})
  /\ CoversOp("changeProfile", {EmployeeProfile}, AllKeys)
  /\ CoversOp("changeContact", {EmergencyContact}, AllKeys)
<1>1. /\ CoversOp("requestCorrection", {<<"corrections">>}, AllKeys)
      /\ CoversOp("correctDirectly", {<<"attendance">>}, AllKeys)
      /\ CoversOp("requestContactChange", {MyChanges}, AllKeys)
      /\ CoversOp("changeProfile", {EmployeeProfile}, AllKeys)
      /\ CoversOp("changeContact", {EmergencyContact}, AllKeys)
  BY RequestSets, CoversEverywhere DEF CoversOp
<1>2. CoversOp("requestChange", {MyChanges}, AllKeys \ {PendingChanges})
  BY RequestSets, CoversElsewhere DEF CoversOp
<1>3. ASSUME NEW o \in {"approveCorrection", "rejectCorrection"}, NEW s,
             NEW f \in DOMAIN Ops(s, role)[o].sets
      PROVE  Covers(f, {PendingCorrections},
                    AllKeys \ {MyCorrections, MySessions, MyPastSessions, OneSession, Sessions})
  <2>1. f \in {"correction", "history"}
    BY RequestSets
  <2> QED
    BY <2>1, CoversElsewhere DEF Covers
<1>4. ASSUME NEW o \in {"approveChange", "rejectChange"}, NEW s,
             NEW f \in DOMAIN Ops(s, role)[o].sets
      PROVE  Covers(f, {PendingChanges}, AllKeys \ {MyChanges, EmployeeProfile})
  <2>1. f \in {"change", "profile"}
    BY RequestSets
  <2> QED
    BY <2>1, CoversElsewhere DEF Covers
<1> QED
  BY <1>1, <1>2, <1>3, <1>4 DEF CoversOp

LEMMA CoversOthers ==
  /\ \A o \in {"upload", "removeDocument", "requestDeletion"} :
       CoversOp(o, {Files}, AllKeys \ {PendingDeletions})
  /\ \A o \in {"approveDeletion", "rejectDeletion"} :
       CoversOp(o, {PendingDeletions, <<"users">>}, AllKeys)
  /\ \A o \in UserNames \ {"updateMe"} :
       /\ CoversOp(o, {OneUser, <<"users", "admin">>}, AllKeys)
       /\ CoversOp(o, UserMarks, AllKeys)
  /\ CoversOp("updateMe", {Me}, AllKeys)
  /\ CoversOp("saveSettings", {Settings}, AllKeys)
  /\ CoversOp("createDepartment", {Departments}, AllKeys)
  /\ CoversOp("markRead", {Inbox}, AllKeys)
<1>1. ASSUME NEW o \in {"upload", "removeDocument", "requestDeletion"}
      PROVE  CoversOp(o, {Files}, AllKeys \ {PendingDeletions})
  BY OtherSets, CoversElsewhere DEF CoversOp, DocumentNames
<1>2. ASSUME NEW o \in {"approveDeletion", "rejectDeletion"}
      PROVE  CoversOp(o, {PendingDeletions, <<"users">>}, AllKeys)
  BY OtherSets, CoversEverywhere DEF CoversOp, DocumentNames
<1>3. ASSUME NEW o \in UserNames \ {"updateMe"}, NEW s, NEW f \in DOMAIN Ops(s, role)[o].sets
      PROVE  Covers(f, {OneUser, <<"users", "admin">>}, AllKeys) /\ Covers(f, UserMarks, AllKeys)
  <2>1. f \in {"account", "accountRole", "name"}
    BY OtherSets
  <2> QED
    BY <2>1, CoversEverywhere
<1>4. /\ CoversOp("updateMe", {Me}, AllKeys)
      /\ CoversOp("saveSettings", {Settings}, AllKeys)
      /\ CoversOp("createDepartment", {Departments}, AllKeys)
      /\ CoversOp("markRead", {Inbox}, AllKeys)
  BY OtherSets, CoversEverywhere DEF CoversOp
<1> QED
  BY <1>1, <1>2, <1>3, <1>4 DEF CoversOp

(* What is offered with which marks.                                       *)
LEMMA AnOffer ==
  ASSUME NEW marks, NEW S, NEW offer \in Offers(marks, S)
  PROVE  offer.op \in S /\ offer.marks = marks
BY DEF Offers

LEMMA DayKinds ==
  ASSUME NEW d, NEW c
  PROVE  \A offer \in MyDayOffers(d, c) \cup TimerBarOffers(d) :
           offer.op \in AttendanceNames \cup TimerNames /\ offer.marks = DayMarks
<1>1. ASSUME NEW offer \in MyDayOffers(d, c)
      PROVE  offer.op \in AttendanceNames \cup TimerNames /\ offer.marks = DayMarks
  BY AnOffer DEF MyDayOffers, When, AttendanceCard, ActiveTaskCard, BreakCard, MyTasksCard,
                 TimelineCard, AttendanceNames, TimerNames
<1>2. ASSUME NEW offer \in TimerBarOffers(d)
      PROVE  offer.op \in AttendanceNames \cup TimerNames /\ offer.marks = DayMarks
  BY AnOffer DEF TimerBarOffers, When, TimerNames
<1> QED
  BY <1>1, <1>2

LEMMA TaskKinds ==
  ASSUME NEW d, NEW r, NEW o
  PROVE  \A offer \in TasksOffers(d, r, o) \cup TaskPageOffers(d, r) \cup AdminTasksOffers(d, o) :
           offer.op \in TaskNames /\ offer.marks = TaskMarks
<1>1. ASSUME NEW offer \in TasksOffers(d, r, o)
      PROVE  offer.op \in TaskNames /\ offer.marks = TaskMarks
  BY AnOffer DEF TasksOffers, TaskDetailOffers, When, StatusChoices, TaskNames
<1>2. ASSUME NEW offer \in TaskPageOffers(d, r)
      PROVE  offer.op \in TaskNames /\ offer.marks = TaskMarks
  BY AnOffer DEF TaskPageOffers, When, StatusChoices, TaskNames
<1>3. ASSUME NEW offer \in AdminTasksOffers(d, o)
      PROVE  offer.op \in TaskNames /\ offer.marks = TaskMarks
  BY AnOffer DEF AdminTasksOffers, AdminTaskDetailOffers, When, StatusChoices, TaskNames
<1> QED
  BY <1>1, <1>2, <1>3

(* The pages' entries leave out what their controls' marks do not reach.   *)
LEMMA ReachKeys == PlaceOK => Reach \subseteq AllKeys
BY PagesOfRoles, KeysOfPages, KeysOfFrame DEF PlaceOK, Reach

LEMMA ReachApart ==
  /\ page \in {"tasks", "tasks/id", "admin/tasks"} => Today \notin Reach
  /\ page = "admin/corrections" =>
       Reach \cap {MyCorrections, MySessions, MyPastSessions, OneSession, Sessions} = {}
  /\ page = "profile" => Reach \cap {PendingChanges, PendingDeletions} = {}
  /\ page = "admin/users" => PendingDeletions \notin Reach
  /\ page = "admin/profile-changes" => Reach \cap {MyChanges, EmployeeProfile} = {}
<1> DEFINE Q(o) == PageQueries(page, role, o)
<1>0. Reach \subseteq {Me, State, MyTasks, Inbox} \cup Q(FALSE) \cup Q(TRUE)
  BY KeysOfFrame DEF Reach
<1>1. CASE page = "tasks"
  <2>1. \A o : Q(o) = TasksQueries(role, o)
    BY <1>1, QueriesOfPages
  <2>2. \A o : TasksQueries(role, o) \subseteq {MyTasks, Settings, OneTask, Me, Assignable}
    BY DEF TasksQueries, TaskDetailQueries, When
  <2>3. Reach \subseteq {Me, State, MyTasks, Inbox, Settings, OneTask, Assignable}
    BY <1>0, <2>1, <2>2
  <2> QED
    BY <1>1, <2>3 DEF Today, Me, State, MyTasks, Inbox, Settings, OneTask, Assignable
<1>2. CASE page = "tasks/id"
  <2>1. Q(FALSE) = TaskPageQueries(role) /\ Q(TRUE) = TaskPageQueries(role)
    BY <1>2, QueriesOfPages
  <2>2. TaskPageQueries(role) \subseteq {OneTask, Me, Assignable}
    BY DEF TaskPageQueries, When
  <2>3. Reach \subseteq {Me, State, MyTasks, Inbox, OneTask, Assignable}
    BY <1>0, <2>1, <2>2
  <2> QED
    BY <1>2, <2>3 DEF Today, Me, State, MyTasks, Inbox, OneTask, Assignable
<1>3. CASE page = "admin/tasks"
  <2>1. \A o : Q(o) = AdminTasksQueries(o)
    BY <1>3, QueriesOfPages
  <2>2. \A o : AdminTasksQueries(o) \subseteq {AllTasks, Assignable, Kpis, OneTask}
    BY DEF AdminTasksQueries, AdminTaskDetailQueries, When
  <2>3. Reach \subseteq {Me, State, MyTasks, Inbox, AllTasks, Assignable, Kpis, OneTask}
    BY <1>0, <2>1, <2>2
  <2> QED
    BY <1>3, <2>3 DEF Today, Me, State, MyTasks, Inbox, AllTasks, Assignable, Kpis, OneTask
<1>4. CASE page = "admin/corrections"
  <2>1. \A o : Q(o) = AdminCorrectionsQueries(o)
    BY <1>4, QueriesOfPages
  <2>2. \A o : AdminCorrectionsQueries(o) \subseteq {PendingCorrections, Correctable, PastSessions}
    BY DEF AdminCorrectionsQueries, DirectCorrectionQueries, When
  <2>3. Reach \subseteq {Me, State, MyTasks, Inbox, PendingCorrections, Correctable, PastSessions}
    BY <1>0, <2>1, <2>2
  <2> QED
    BY <1>4, <2>3 DEF MyCorrections, MySessions, MyPastSessions, OneSession, Sessions, Me, State,
                      MyTasks, Inbox, PendingCorrections, Correctable, PastSessions
<1>5. CASE page = "profile"
  <2>1. Q(FALSE) = ProfileQueries /\ Q(TRUE) = ProfileQueries
    BY <1>5, QueriesOfPages
  <2>2. ProfileQueries \subseteq {Me, Files, EmployeeProfile, MyChanges, EmergencyContact}
    BY DEF ProfileQueries, PersonalDetailsCardQueries, EmergencyContactCardQueries
  <2>3. Reach \subseteq {Me, State, MyTasks, Inbox, Files, EmployeeProfile, MyChanges,
                         EmergencyContact}
    BY <1>0, <2>1, <2>2
  <2> QED
    BY <1>5, <2>3 DEF PendingChanges, PendingDeletions, Me, State, MyTasks, Inbox, Files,
                      EmployeeProfile, MyChanges, EmergencyContact
<1>6. CASE page = "admin/users"
  <2>1. \A o : Q(o) = UsersQueries(o)
    BY <1>6, QueriesOfPages
  <2>2. \A o : UsersQueries(o) \subseteq {UserList, UserKpis, Departments, Me, OneUser,
                                          EmployeeProfile, EmergencyContact, Files}
    BY DEF UsersQueries, UserDetailQueries, When
  <2>3. Reach \subseteq {Me, State, MyTasks, Inbox, UserList, UserKpis, Departments, OneUser,
                         EmployeeProfile, EmergencyContact, Files}
    BY <1>0, <2>1, <2>2
  <2> QED
    BY <1>6, <2>3 DEF PendingDeletions, Me, State, MyTasks, Inbox, UserList, UserKpis,
                      Departments, OneUser, EmployeeProfile, EmergencyContact, Files
<1>7. CASE page = "admin/profile-changes"
  <2>1. Q(FALSE) = {PendingChanges} /\ Q(TRUE) = {PendingChanges}
    BY <1>7, QueriesOfPages
  <2>2. Reach \subseteq {Me, State, MyTasks, Inbox, PendingChanges}
    BY <1>0, <2>1
  <2> QED
    BY <1>7, <2>2 DEF MyChanges, EmployeeProfile, Me, State, MyTasks, Inbox, PendingChanges
<1> QED
  BY <1>1, <1>2, <1>3, <1>4, <1>5, <1>6, <1>7

(* Every control offered sends a request whose marks reach what it sets,   *)
(* as far as this page shows it.                                           *)
LEMMA OfferedCovered ==
  ASSUME PlaceOK, NEW offer \in Offered
  PROVE  offer.op \in OpNames /\ CoversOp(offer.op, offer.marks, Reach)
<1> DEFINE d == Seeing
           Fine(K) == offer.op \in OpNames /\ CoversOp(offer.op, offer.marks, K)
<1>1. Reach \subseteq AllKeys
  BY ReachKeys
<1>2. Fine(AllKeys) => Fine(Reach)
  BY <1>1, CoversFewer
<1>3. ASSUME NEW K, Reach \cap K = {}, Fine(AllKeys \ K) PROVE Fine(Reach)
  <2>1. Reach \in SUBSET (AllKeys \ K)
    BY <1>1, <1>3
  <2> QED
    BY <1>3, <2>1, CoversFewer
<1>4. CASE offer \in FrameOffers(d, role)
  <2>1. \/ offer \in TimerBarOffers(d)
        \/ offer.op = "markRead" /\ offer.marks = {Inbox}
    BY <1>4, AnOffer DEF FrameOffers, NotificationBellOffers, When
  <2>2. Fine(AllKeys)
    BY <2>1, DayKinds, CoversDay, CoversOthers DEF OpNames, OrganisationNames
  <2> QED
    BY <1>2, <2>2
<1>5. CASE offer \in PageOffers(page, d, role, opened, confirming)
  <2>1. CASE page = "my-day"
    <3>1. offer \in MyDayOffers(d, confirming)
      BY <1>5, <2>1, OffersOfPages
    <3> QED
      BY <1>2, <3>1, DayKinds, CoversDay DEF OpNames
  <2>2. CASE page \in {"tasks", "tasks/id", "admin/tasks"}
    <3>1. \/ offer \in TasksOffers(d, role, opened) \/ offer \in TaskPageOffers(d, role)
          \/ offer \in AdminTasksOffers(d, opened)
      BY <1>5, <2>2, OffersOfPages
    <3>2. Fine(AllKeys \ {Today})
      BY <3>1, TaskKinds, CoversTasks DEF OpNames
    <3>3. Reach \cap {Today} = {}
      BY <2>2, ReachApart
    <3> QED
      BY <1>3, <3>2, <3>3
  <2>3. CASE page = "corrections"
    <3>1. offer.op = "requestCorrection" /\ offer.marks = {<<"corrections">>}
      BY <1>5, <2>3, OffersOfPages, AnOffer DEF MyCorrectionsOffers, When
    <3> QED
      BY <1>2, <3>1, CoversRequests DEF OpNames, RequestNames
  <2>4. CASE page = "profile"
    <3>1. offer \in ProfileOffers(d)
      BY <1>5, <2>4, OffersOfPages
    <3>2. \/ offer.op = "updateMe" /\ offer.marks = {Me}
          \/ offer.op \in {"requestChange", "requestContactChange"} /\ offer.marks = {MyChanges}
          \/ offer.op \in {"upload", "requestDeletion"} /\ offer.marks = {Files}
      BY <3>1, AnOffer
         DEF ProfileOffers, PersonalDetailsCard, EmergencyContactCard, DocumentsSection, When
    <3>3. \/ Fine(AllKeys)
          \/ Fine(AllKeys \ {PendingChanges})
          \/ Fine(AllKeys \ {PendingDeletions})
      BY <3>2, CoversRequests, CoversOthers
         DEF OpNames, RequestNames, DocumentNames, UserNames
    <3>4. Reach \cap {PendingChanges} = {} /\ Reach \cap {PendingDeletions} = {}
      BY <2>4, ReachApart
    <3>5. Fine(AllKeys \ {PendingChanges}) => Fine(Reach)
      BY <1>3, <3>4
    <3>6. Fine(AllKeys \ {PendingDeletions}) => Fine(Reach)
      BY <1>3, <3>4
    <3> QED
      BY <1>2, <3>3, <3>5, <3>6
  <2>5. CASE page = "admin/users"
    <3>1. offer \in UsersOffers(d, role, opened)
      BY <1>5, <2>5, OffersOfPages
    <3>2. \/ offer.op \in UserNames \ {"updateMe"}
             /\ offer.marks \in {{OneUser, <<"users", "admin">>}, UserMarks}
          \/ offer.op = "changeProfile" /\ offer.marks = {EmployeeProfile}
          \/ offer.op = "changeContact" /\ offer.marks = {EmergencyContact}
          \/ offer.op \in {"upload", "removeDocument"} /\ offer.marks = {Files}
      <4>1. CASE opened
        BY <3>1, <4>1, AnOffer
           DEF UsersOffers, UserDetailOffers, PersonalDetailsSection, EmergencyContactSection,
               DocumentsSection, When, UserNames
      <4>2. CASE ~opened
        BY <3>1, <4>2, AnOffer
           DEF UsersOffers, UserFormsOffers, UserTableOffers, When, UserNames
      <4> QED
        BY <4>1, <4>2
    <3>3. Fine(AllKeys) \/ Fine(AllKeys \ {PendingDeletions})
      BY <3>2, CoversRequests, CoversOthers DEF OpNames, RequestNames, DocumentNames
    <3>4. Reach \cap {PendingDeletions} = {}
      BY <2>5, ReachApart
    <3>5. Fine(AllKeys \ {PendingDeletions}) => Fine(Reach)
      BY <1>3, <3>4
    <3> QED
      BY <1>2, <3>3, <3>5
  <2>6. CASE page = "admin/corrections"
    <3>1. offer \in AdminCorrectionsOffers(d, opened)
      BY <1>5, <2>6, OffersOfPages
    <3>2. \/ offer.op \in {"approveCorrection", "rejectCorrection"}
             /\ offer.marks = {PendingCorrections}
          \/ offer.op = "correctDirectly" /\ offer.marks = {<<"attendance">>}
      BY <3>1, AnOffer
         DEF AdminCorrectionsOffers, CorrectionReview, DirectCorrectionOffers, When
    <3>3. \/ Fine(AllKeys)
          \/ Fine(AllKeys \ {MyCorrections, MySessions, MyPastSessions, OneSession, Sessions})
      BY <3>2, CoversRequests DEF OpNames, RequestNames
    <3> QED
      BY <1>2, <1>3, <2>6, <3>3, ReachApart
  <2>7. CASE page = "admin/profile-changes"
    <3>1. offer.op \in {"approveChange", "rejectChange"} /\ offer.marks = {PendingChanges}
      BY <1>5, <2>7, OffersOfPages, AnOffer DEF ChangeReview, When
    <3>2. Fine(AllKeys \ {MyChanges, EmployeeProfile})
      BY <3>1, CoversRequests DEF OpNames, RequestNames
    <3> QED
      BY <1>3, <2>7, <3>2, ReachApart
  <2>8. CASE page = "admin/document-deletions"
    <3>1. /\ offer.op \in {"approveDeletion", "rejectDeletion"}
          /\ offer.marks = {PendingDeletions, <<"users">>}
      BY <1>5, <2>8, OffersOfPages, AnOffer DEF DeletionReview, When
    <3> QED
      BY <1>2, <3>1, CoversOthers DEF OpNames, DocumentNames
  <2>9. CASE page = "admin/settings"
    <3>1. \/ offer.op = "createDepartment" /\ offer.marks = {Departments}
          \/ offer.op = "saveSettings" /\ offer.marks = {Settings}
      BY <1>5, <2>9, OffersOfPages, AnOffer DEF SettingsOffers, DepartmentsCard, When
    <3> QED
      BY <1>2, <3>1, CoversOthers DEF OpNames, OrganisationNames
  <2>10. CASE page \in {"tasks/history", "attendance", "admin/dashboard", "admin/live",
                        "admin/attendance-logs", "admin/reports", "admin/audit"}
    BY <1>5, <2>10, OffersOfPages
  <2>11. page \in AllPages
    BY PagesOfRoles DEF PlaceOK
  <2> QED
    BY <2>1, <2>2, <2>3, <2>4, <2>5, <2>6, <2>7, <2>8, <2>9, <2>10, <2>11
       DEF AllPages, EmployeePages, SharedPages, AdminPages
<1> QED
  BY <1>4, <1>5 DEF Offered, When

-----------------------------------------------------------------------------
(* What a page offers when it shows what the API holds                     *)

(* An entry that agrees with the API shows the API's state.                *)
LEMMA AgreeingShows ==
  ASSUME CacheOK, NEW k \in Mounted, Agrees(k), Admits(Gets[k].route, role)
  PROVE  Seen(Seeing, k) /\ \A f \in Gets[k].shows : Seeing[k][f] = server[f]
<1>1. k \in DOMAIN cache /\ k \in AllKeys
  BY DEF CacheOK
<1>2. cache[k].data = [f \in Gets[k].shows |-> server[f]]
  BY DEF Agrees, Answered
<1>3. cache[k].data # NoData
  BY <1>1, <1>2, WhoShows DEF NoData
<1> QED
  BY <1>1, <1>2, <1>3 DEF Seeing, Seen

LEMMA TimerBarServed ==
  ASSUME NEW d, NEW s, Sound(s), NEW r, r # "AUDITOR",
         Seen(d, State), d[State].timer = s.timer,
         Seen(d, MyTasks), d[MyTasks].task = s.task,
         NEW offer \in TimerBarOffers(d)
  PROVE  Serves(offer.op, s, r)
<1>1. /\ offer.op \in {"pause", "stop"} => s.timer # "NONE"
      /\ offer.op = "switchOther" => s.timer = "THIS"
      /\ offer.op = "switch" => s.timer = "OTHER" /\ s.task \in {"TO_DO", "STARTED"}
      /\ offer.op \in {"pause", "stop", "switchOther", "switch"}
  BY AnOffer DEF TimerBarOffers, When, Shows
<1> QED
  BY <1>1, TimerServed DEF Sound

LEMMA MyDayServed ==
  ASSUME NEW d, NEW s, Sound(s), NEW r, r # "AUDITOR",
         Seen(d, State), d[State].duty = s.duty, d[State].timer = s.timer,
         Seen(d, MyTasks), d[MyTasks].task = s.task,
         NEW c, NEW offer \in MyDayOffers(d, c)
  PROVE  \/ Serves(offer.op, s, r)
         \/ offer.op = "resume" /\ ~s.worked
         \/ offer.op = "confirmClockOut" /\ s.duty = "CLOCKED_OUT"
<1>1. \/ offer.op = "confirmClockOut"
      \/ offer.op \in AttendanceCard(d)
      \/ offer.op \in ActiveTaskCard(d)
      \/ offer.op \in BreakCard(d)
      \/ offer.op \in MyTasksCard(d)
      \/ offer.op \in TimelineCard(d)
  BY AnOffer DEF MyDayOffers, When
<1>2. CASE offer.op = "confirmClockOut"
  BY <1>2, AttendanceServed
<1>3. CASE offer.op \in AttendanceCard(d)
  <2>1. \/ offer.op = "clockIn" /\ s.duty = "CLOCKED_OUT"
        \/ offer.op = "clockOut" /\ s.duty = "WORKING"
    BY <1>3 DEF AttendanceCard, When, Shows, Sound
  <2> QED
    BY <2>1, AttendanceServed
<1>4. CASE offer.op \in ActiveTaskCard(d)
  <2>1. offer.op \in {"pause", "stop"} /\ s.timer # "NONE"
    BY <1>4 DEF ActiveTaskCard, When, Shows
  <2> QED
    BY <2>1, TimerServed
<1>5. CASE offer.op \in BreakCard(d)
  <2>1. \/ offer.op = "startBreak" /\ s.duty = "WORKING"
        \/ offer.op = "endBreak" /\ s.duty = "ON_BREAK"
    BY <1>5 DEF BreakCard, When, Shows
  <2> QED
    BY <2>1, AttendanceServed
<1>6. CASE offer.op \in MyTasksCard(d)
  <2>1. /\ s.duty = "WORKING"
        /\ \/ offer.op = "switch" /\ s.timer = "OTHER" /\ s.task \in {"TO_DO", "STARTED"}
           \/ offer.op = "switchOther" /\ s.timer = "THIS"
           \/ offer.op = "resumeOther" /\ s.timer = "NONE"
           \/ offer.op = "start" /\ s.timer = "NONE" /\ s.task = "TO_DO"
           \/ offer.op = "resume" /\ s.timer = "NONE" /\ s.task = "STARTED"
    BY <1>6 DEF MyTasksCard, When, Shows
  <2> QED
    BY <2>1, TimerServed
<1>7. CASE offer.op \in TimelineCard(d)
  <2>1. /\ s.duty = "WORKING" /\ s.timer = "NONE"
        /\ \/ offer.op = "resumeOther"
           \/ offer.op = "start" /\ s.task = "TO_DO"
           \/ offer.op = "resume" /\ s.task = "STARTED"
    BY <1>7 DEF TimelineCard, When, Shows
  <2> QED
    BY <2>1, TimerServed
<1> QED
  BY <1>1, <1>2, <1>3, <1>4, <1>5, <1>6, <1>7

LEMMA TasksServed ==
  ASSUME NEW d, NEW s, NEW r, r # "AUDITOR", NEW o,
         o => Seen(d, OneTask) /\ d[OneTask].task = s.task,
         ~o => Seen(d, Settings) /\ d[Settings].creating = s.creating,
         NEW offer \in TasksOffers(d, r, o)
  PROVE  offer.op \in StatusChoices \/ Serves(offer.op, s, r)
<1>1. \/ offer.op \in StatusChoices
      \/ offer.op = "saveTask" /\ r = "ADMINISTRATOR" /\ s.task # "ABSENT"
      \/ offer.op = "createTask" /\ s.creating
  <2>1. CASE o
    BY <2>1, AnOffer DEF TasksOffers, TaskDetailOffers, When, Shows, isAdmin
  <2>2. CASE ~o
    <3>1. offer \in Offers(TaskMarks, When(Shows(d, Settings, "creating", {TRUE}), {"createTask"}))
      BY <2>2 DEF TasksOffers
    <3>2. offer.op \in When(Shows(d, Settings, "creating", {TRUE}), {"createTask"})
      BY <3>1, AnOffer
    <3>3. offer.op = "createTask" /\ d[Settings].creating = TRUE
      BY <3>2 DEF When, Shows
    <3> QED
      BY <2>2, <3>3
  <2> QED
    BY <2>1, <2>2
<1> QED
  BY <1>1, TaskServed

LEMMA TaskPageServed ==
  ASSUME NEW d, NEW s, NEW r, r # "AUDITOR", Seen(d, OneTask), d[OneTask].task = s.task,
         NEW offer \in TaskPageOffers(d, r)
  PROVE  offer.op \in StatusChoices \/ Serves(offer.op, s, r)
<1>1. \/ offer.op \in StatusChoices
      \/ offer.op = "saveTask" /\ r = "ADMINISTRATOR" /\ s.task # "ABSENT"
  BY AnOffer DEF TaskPageOffers, When, Shows, isAdmin
<1> QED
  BY <1>1, TaskServed

LEMMA AdminTasksServed ==
  ASSUME NEW d, NEW s, NEW r, r = "ADMINISTRATOR", NEW o,
         o => Seen(d, OneTask) /\ d[OneTask].task = s.task,
         NEW offer \in AdminTasksOffers(d, o)
  PROVE  offer.op \in StatusChoices \/ Serves(offer.op, s, r)
<1>1. \/ offer.op \in StatusChoices
      \/ offer.op = "saveTask" /\ s.task # "ABSENT"
      \/ offer.op = "createTask"
  BY AnOffer DEF AdminTasksOffers, AdminTaskDetailOffers, When, Shows
<1> QED
  BY <1>1, TaskServed

LEMMA ProfileServed ==
  ASSUME NEW d, NEW s, NEW r, r # "AUDITOR",
         Seen(d, MyChanges), d[MyChanges].change = s.change,
         d[MyChanges].contactChange = s.contactChange,
         Seen(d, Files), d[Files].document = s.document,
         NEW offer \in ProfileOffers(d)
  PROVE  Serves(offer.op, s, r)
<1>1. \/ offer.op \in {"updateMe", "upload"}
      \/ offer.op = "requestChange" /\ s.change # "PENDING"
      \/ offer.op = "requestContactChange" /\ s.contactChange # "PENDING"
      \/ offer.op = "requestDeletion" /\ s.document = "LIVE"
  BY AnOffer DEF ProfileOffers, PersonalDetailsCard, EmergencyContactCard, DocumentsSection,
                 When, Shows
<1> QED
  BY <1>1, UserServed, DocumentServed, RequestServed

LEMMA UsersServed ==
  ASSUME NEW d, NEW s, NEW r, r = "ADMINISTRATOR", NEW o,
         o => /\ Seen(d, OneUser) /\ d[OneUser].account = s.account
              /\ Seen(d, Files) /\ d[Files].document = s.document,
         ~o => Seen(d, UserList) /\ d[UserList].account = s.account,
         NEW offer \in UsersOffers(d, r, o)
  PROVE  Serves(offer.op, s, r)
<1>1. \/ offer.op \in {"createUser", "importUsers", "changeProfile", "changeContact", "upload"}
      \/ offer.op \in {"saveUser", "setRole", "setStatus"} /\ s.account # "ABSENT"
      \/ offer.op \in {"approveUser", "rejectUser"} /\ s.account = "PENDING"
      \/ offer.op = "removeDocument" /\ s.document = "LIVE"
  <2>1. CASE o
    <3>1. \/ /\ offer.op \in {"saveUser", "setRole", "setStatus"}
             /\ s.account \in {"PENDING", "ACTIVE", "SUSPENDED", "REJECTED"}
          \/ offer.op \in {"changeProfile", "changeContact", "upload"}
          \/ offer.op = "removeDocument" /\ s.document = "LIVE"
      BY <2>1, AnOffer DEF UsersOffers, UserDetailOffers, PersonalDetailsSection,
                           EmergencyContactSection, DocumentsSection, When, Shows
    <3> QED
      BY <3>1
  <2>2. CASE ~o
    <3>1. \/ offer.op \in {"createUser", "importUsers"}
          \/ offer.op \in {"approveUser", "rejectUser", "setRole"} /\ s.account = "PENDING"
          \/ offer.op \in {"setStatus", "setRole"} /\ s.account \in {"ACTIVE", "SUSPENDED", "REJECTED"}
      BY <2>2, AnOffer DEF UsersOffers, UserFormsOffers, UserTableOffers, When
    <3> QED
      BY <3>1
  <2> QED
    BY <2>1, <2>2
<1> QED
  BY <1>1, UserServed, DocumentServed, RequestServed

LEMMA CorrectionsServed ==
  ASSUME NEW d, NEW s, NEW r, r = "ADMINISTRATOR", NEW o,
         Seen(d, PendingCorrections), d[PendingCorrections].correction = s.correction,
         NEW offer \in AdminCorrectionsOffers(d, o)
  PROVE  Serves(offer.op, s, r)
<1>1. \/ offer.op \in {"approveCorrection", "rejectCorrection"} /\ s.correction = "PENDING"
      \/ offer.op = "correctDirectly"
  BY AnOffer DEF AdminCorrectionsOffers, CorrectionReview, DirectCorrectionOffers, When, Shows
<1> QED
  BY <1>1, RequestServed

LEMMA ChangesServed ==
  ASSUME NEW d, NEW s, NEW r, r = "ADMINISTRATOR",
         Seen(d, PendingChanges), d[PendingChanges].change = s.change,
         NEW offer \in ChangeReview(d)
  PROVE  Serves(offer.op, s, r)
<1>1. offer.op \in {"approveChange", "rejectChange"} /\ s.change = "PENDING"
  BY AnOffer DEF ChangeReview, When, Shows
<1> QED
  BY <1>1, RequestServed

LEMMA DeletionsServed ==
  ASSUME NEW d, NEW s, NEW r, r = "ADMINISTRATOR",
         Seen(d, PendingDeletions), d[PendingDeletions].document = s.document,
         NEW offer \in DeletionReview(d)
  PROVE  Serves(offer.op, s, r)
<1>1. offer.op \in {"approveDeletion", "rejectDeletion"} /\ s.document = "REQUESTED"
  BY AnOffer DEF DeletionReview, When, Shows
<1> QED
  BY <1>1, DocumentServed

LEMMA SettingsServed ==
  ASSUME NEW d, NEW s, NEW r, r = "ADMINISTRATOR", NEW offer \in SettingsOffers(d)
  PROVE  Serves(offer.op, s, r)
<1>1. offer.op \in {"createDepartment", "saveSettings"}
  BY AnOffer DEF SettingsOffers, DepartmentsCard, When
<1> QED
  BY <1>1, OrganisationServed

(* What is offered on a page that agrees with the API is served, or is one *)
(* of the exceptions.                                                      *)
LEMMA OffersTrue ==
  ASSUME PlaceOK, Sound(server), CacheOK, \A k \in Mounted : Agrees(k), NEW offer \in Offered
  PROVE  Excepted(offer.op) \/ Serves(offer.op, server, role)
<1> DEFINE d == Seeing
<1>1. ASSUME NEW k \in Mounted, Admits(Gets[k].route, role)
      PROVE  Seen(d, k) /\ \A f \in Gets[k].shows : d[k][f] = server[f]
  BY <1>1, AgreeingShows
<1>2. PageQueries(page, role, opened) \subseteq Mounted
  BY DEF Mounted
<1>3. /\ page \in EmployeePages => role # "AUDITOR"
      /\ page \in AdminPages => role = "ADMINISTRATOR"
      /\ page \in AllPages
  BY PagesOfRoles DEF PlaceOK
<1>4. role # "AUDITOR" => {Me, State, MyTasks, Inbox} \subseteq Mounted
  BY DEF Mounted, FrameQueries, When, showPersonalWidgets, TimerBarQueries
<1>5. role # "AUDITOR" =>
        /\ Seen(d, State) /\ d[State].duty = server.duty /\ d[State].timer = server.timer
        /\ Seen(d, MyTasks) /\ d[MyTasks].task = server.task
  BY <1>1, <1>4, AttendanceTable, TaskTable, Admission
<1> HIDE DEF d
<1>6. CASE offer \in FrameOffers(d, role)
  <2>1. role # "AUDITOR" /\ (offer \in TimerBarOffers(d) \/ offer.op = "markRead")
    BY <1>6, AnOffer DEF FrameOffers, NotificationBellOffers, When, showPersonalWidgets
  <2> QED
    BY <1>5, <2>1, TimerBarServed, OrganisationServed
<1>7. CASE offer \in PageOffers(page, d, role, opened, confirming)
  <2>1. CASE page = "my-day"
    <3>1. role # "AUDITOR" /\ offer \in MyDayOffers(d, confirming)
      BY <1>3, <1>7, <2>1, OffersOfPages DEF EmployeePages
    <3> QED
      BY <1>5, <3>1, MyDayServed DEF Excepted
  <2>2. CASE page = "tasks"
    <3>1. role # "AUDITOR" /\ offer \in TasksOffers(d, role, opened)
      BY <1>3, <1>7, <2>2, OffersOfPages DEF EmployeePages
    <3>2. Settings \in Mounted /\ (opened => OneTask \in Mounted)
      BY <1>2, <2>2, QueriesOfPages DEF TasksQueries, TaskDetailQueries, When
    <3>3. /\ opened => Seen(d, OneTask) /\ d[OneTask].task = server.task
          /\ Seen(d, Settings) /\ d[Settings].creating = server.creating
      BY <1>1, <3>1, <3>2, TaskTable, ListTable, Admission
    <3> QED
      BY <3>1, <3>3, TasksServed DEF Excepted
  <2>3. CASE page = "tasks/id"
    <3>1. role # "AUDITOR" /\ offer \in TaskPageOffers(d, role)
      BY <1>3, <1>7, <2>3, OffersOfPages DEF EmployeePages
    <3>2. OneTask \in Mounted
      BY <1>2, <2>3, QueriesOfPages DEF TaskPageQueries
    <3>3. Seen(d, OneTask) /\ d[OneTask].task = server.task
      BY <1>1, <3>1, <3>2, TaskTable, Admission
    <3> QED
      BY <3>1, <3>3, TaskPageServed DEF Excepted
  <2>4. CASE page = "admin/tasks"
    <3>1. role = "ADMINISTRATOR" /\ offer \in AdminTasksOffers(d, opened)
      BY <1>3, <1>7, <2>4, OffersOfPages DEF AdminPages
    <3>2. opened => OneTask \in Mounted
      BY <1>2, <2>4, QueriesOfPages DEF AdminTasksQueries, AdminTaskDetailQueries, When
    <3>3. opened => Seen(d, OneTask) /\ d[OneTask].task = server.task
      BY <1>1, <3>1, <3>2, TaskTable, Admission
    <3> QED
      BY <3>1, <3>3, AdminTasksServed DEF Excepted
  <2>5. CASE page = "corrections"
    <3>1. role # "AUDITOR" /\ offer.op = "requestCorrection"
      BY <1>3, <1>7, <2>5, OffersOfPages, AnOffer DEF EmployeePages, MyCorrectionsOffers, When
    <3> QED
      BY <3>1, RequestServed
  <2>6. CASE page = "profile"
    <3>1. offer \in ProfileOffers(d)
      BY <1>7, <2>6, OffersOfPages
    <3>2. CASE role = "AUDITOR"
      BY <2>6, <3>2, UserServed DEF Excepted
    <3>3. CASE role # "AUDITOR"
      <4>1. MyChanges \in Mounted /\ Files \in Mounted
        BY <1>2, <2>6, QueriesOfPages DEF ProfileQueries, PersonalDetailsCardQueries
      <4>2. /\ Seen(d, MyChanges) /\ d[MyChanges].change = server.change
            /\ d[MyChanges].contactChange = server.contactChange
            /\ Seen(d, Files) /\ d[Files].document = server.document
        BY <1>1, <3>3, <4>1, RequestTable, Admission
      <4> QED
        BY <3>1, <3>3, <4>2, ProfileServed
    <3> QED
      BY <3>2, <3>3
  <2>7. CASE page = "admin/users"
    <3>1. role = "ADMINISTRATOR" /\ offer \in UsersOffers(d, role, opened)
      BY <1>3, <1>7, <2>7, OffersOfPages DEF AdminPages
    <3>2. UserList \in Mounted /\ (opened => OneUser \in Mounted /\ Files \in Mounted)
      BY <1>2, <2>7, QueriesOfPages DEF UsersQueries, UserDetailQueries, When
    <3>3. Seen(d, UserList) /\ d[UserList].account = server.account
      BY <1>1, <3>1, <3>2, UserTable, Admission DEF DirectoryKeys
    <3>4. opened => /\ Seen(d, OneUser) /\ d[OneUser].account = server.account
                    /\ Seen(d, Files) /\ d[Files].document = server.document
      BY <1>1, <3>1, <3>2, UserTable, RequestTable, Admission
    <3> QED
      BY <3>1, <3>3, <3>4, UsersServed
  <2>8. CASE page = "admin/corrections"
    <3>1. role = "ADMINISTRATOR" /\ offer \in AdminCorrectionsOffers(d, opened)
      BY <1>3, <1>7, <2>8, OffersOfPages DEF AdminPages
    <3>2. PendingCorrections \in Mounted
      BY <1>2, <2>8, QueriesOfPages DEF AdminCorrectionsQueries
    <3>3. Seen(d, PendingCorrections) /\ d[PendingCorrections].correction = server.correction
      BY <1>1, <3>1, <3>2, RequestTable, Admission
    <3> QED
      BY <3>1, <3>3, CorrectionsServed
  <2>9. CASE page = "admin/profile-changes"
    <3>1. role = "ADMINISTRATOR" /\ offer \in ChangeReview(d)
      BY <1>3, <1>7, <2>9, OffersOfPages DEF AdminPages
    <3>2. PendingChanges \in Mounted
      BY <1>2, <2>9, QueriesOfPages
    <3>3. Seen(d, PendingChanges) /\ d[PendingChanges].change = server.change
      BY <1>1, <3>1, <3>2, RequestTable, Admission
    <3> QED
      BY <3>1, <3>3, ChangesServed
  <2>10. CASE page = "admin/document-deletions"
    <3>1. role = "ADMINISTRATOR" /\ offer \in DeletionReview(d)
      BY <1>3, <1>7, <2>10, OffersOfPages DEF AdminPages
    <3>2. PendingDeletions \in Mounted
      BY <1>2, <2>10, QueriesOfPages
    <3>3. Seen(d, PendingDeletions) /\ d[PendingDeletions].document = server.document
      BY <1>1, <3>1, <3>2, RequestTable, Admission
    <3> QED
      BY <3>1, <3>3, DeletionsServed
  <2>11. CASE page = "admin/settings"
    <3>1. role = "ADMINISTRATOR" /\ offer \in SettingsOffers(d)
      BY <1>3, <1>7, <2>11, OffersOfPages DEF AdminPages
    <3> QED
      BY <3>1, SettingsServed
  <2>12. CASE page \in {"tasks/history", "attendance", "admin/dashboard", "admin/live",
                        "admin/attendance-logs", "admin/reports", "admin/audit"}
    BY <1>7, <2>12, OffersOfPages
  <2> QED
    BY <1>3, <2>1, <2>2, <2>3, <2>4, <2>5, <2>6, <2>7, <2>8, <2>9, <2>10, <2>11, <2>12
       DEF AllPages, EmployeePages, SharedPages, AdminPages
<1> QED
  BY <1>6, <1>7 DEF Offered, When, d

-----------------------------------------------------------------------------
(* The steps of the tab keep the invariant                                 *)
LEMMA MountedReach ==
  /\ PlaceOK => Mounted \subseteq Reach
  /\ PlaceOK => Mounted \subseteq AllKeys
  /\ PlaceOK => PageQueries(page, role, FALSE) \subseteq PageQueries(page, role, TRUE)
<1>1. ASSUME PlaceOK PROVE Mounted \subseteq Reach
  <2>1. opened = TRUE \/ opened = FALSE
    BY <1>1 DEF PlaceOK
  <2> QED
    BY <2>1 DEF Mounted, Reach
<1>2. ASSUME PlaceOK PROVE PageQueries(page, role, FALSE) \subseteq PageQueries(page, role, TRUE)
  <2>1. page \in AllPages
    BY <1>2, PagesOfRoles DEF PlaceOK
  <2> QED
    BY <2>1, KeysOfPages
<1> QED
  BY <1>1, <1>2, ReachKeys

(* What the API answers to a query of the role's.                          *)
LEMMA AnswersOK ==
  ASSUME NEW k \in AllKeys, NEW s
  PROVE  /\ AnswerOK(k, Answered(k, s))
         /\ Admits(Gets[k].route, role) => Answered(k, s) # NoData
         /\ \A f \in DOMAIN Answered(k, s) : Answered(k, s)[f] = s[f]
<1>1. Gets[k].shows # {}
  BY WhoShows
<1>2. CASE Admits(Gets[k].route, role)
  <2>1. Answered(k, s) = [f \in Gets[k].shows |-> s[f]]
    BY <1>2 DEF Answered
  <2> QED
    BY <1>1, <1>2, <2>1 DEF AnswerOK, NoData
<1>3. CASE ~Admits(Gets[k].route, role)
  <2>1. Answered(k, s) = NoData
    BY <1>3 DEF Answered
  <2> QED
    BY <1>3, <2>1 DEF AnswerOK, NoData
<1> QED
  BY <1>2, <1>3

LEMMA InitInv == Init => TabInv
<1> SUFFICES ASSUME Init PROVE TabInv
  OBVIOUS
<1>1. PlaceOK
  BY DEF Init, PlaceOK
<1>2. Sound(server)
  BY ScenesSound DEF Init
<1>3. Mounted \subseteq AllKeys
  BY <1>1, MountedReach
<1>4. /\ DOMAIN cache = Mounted
      /\ \A k \in Mounted :
           cache[k] = [data |-> Answered(k, server), invalid |-> FALSE, busy |-> FALSE]
  BY DEF Init
<1>5. CacheOK
  <2>1. \A k \in Mounted : AnswerOK(k, Answered(k, server))
    BY <1>3, AnswersOK
  <2>2. \A k \in Mounted : /\ cache[k].data = Answered(k, server)
                            /\ cache[k].invalid = FALSE
                            /\ cache[k].busy = FALSE
    BY <1>4
  <2> QED
    BY <1>3, <1>4, <2>1, <2>2 DEF CacheOK, Entry
<1>6. TransitOK /\ ClickOK /\ MineOK /\ Written
  BY DEF Init, TransitOK, ClickOK, MineOK, Written
<1>7. Fetching
  BY <1>4 DEF Fetching
<1> QED
  BY <1>1, <1>2, <1>5, <1>6, <1>7 DEF TabInv

(* While the place stays, what may be reached and covered stays.           *)
LEMMA PlaceStays ==
  ASSUME UNCHANGED <<role, page>>
  PROVE  /\ Reach' = Reach
         /\ \A k, d : AnswerOK(k, d)' <=> AnswerOK(k, d)
         /\ \A o, marks, K : CoversOp(o, marks, K)' <=> CoversOp(o, marks, K)
BY DEF Reach, AnswerOK, CoversOp

(* An entry after its flags have been set.                                 *)
LEMMA EntryNew ==
  ASSUME NEW d, NEW i \in BOOLEAN, NEW b \in BOOLEAN,
         NEW x, x = [data |-> d, invalid |-> i, busy |-> b]
  PROVE  Entry(x) /\ x.data = d /\ x.invalid = i /\ x.busy = b
BY DEF Entry

LEMMA EntryBusy ==
  ASSUME NEW e, Entry(e), NEW b \in BOOLEAN, NEW x, x = [e EXCEPT !.busy = b]
  PROVE  Entry(x) /\ x.data = e.data /\ x.invalid = e.invalid /\ x.busy = b
BY DEF Entry

LEMMA EntryMarked ==
  ASSUME NEW e, Entry(e), NEW b \in BOOLEAN, NEW x, x = [e EXCEPT !.invalid = TRUE, !.busy = b]
  PROVE  Entry(x) /\ x.data = e.data /\ x.invalid = TRUE /\ x.busy = b
BY DEF Entry

(* What mounting does to the entries.                                      *)
LEMMA MountingFacts ==
  ASSUME CacheOK, NEW keys \in SUBSET AllKeys, NEW old, Mounting(keys, old)
  PROVE  /\ DOMAIN cache' = DOMAIN cache \cup keys
         /\ \A k \in DOMAIN cache' : Entry(cache'[k])
         /\ \A k \in DOMAIN cache :
              /\ cache'[k].data = cache[k].data
              /\ cache'[k].invalid = cache[k].invalid
              /\ cache[k].busy => cache'[k].busy
         /\ \A k \in keys \ DOMAIN cache : cache'[k].data = NoData /\ cache'[k].busy
         /\ \A k \in keys : cache'[k].invalid => cache'[k].busy
         /\ joined' \subseteq joined
         /\ \A k \in DOMAIN cache \cap joined :
              k \in joined' \/ (~cache[k].busy /\ cache'[k].busy)
<1> DEFINE fetched == {k \in keys : \/ k \notin DOMAIN cache
                                   \/ cache[k].data = NoData
                                   \/ cache[k].invalid
                                   \/ old}
           idle == {k \in fetched : k \in DOMAIN cache => ~cache[k].busy}
<1>1. /\ cache' = [k \in DOMAIN cache \cup keys |->
                     IF k \notin DOMAIN cache
                       THEN [data |-> NoData, invalid |-> FALSE, busy |-> TRUE]
                       ELSE [cache[k] EXCEPT !.busy = @ \/ k \in fetched]]
      /\ joined' = joined \ idle
  BY DEF Mounting
<1>2. \A k \in keys \ DOMAIN cache :
        cache'[k] = [data |-> NoData, invalid |-> FALSE, busy |-> TRUE]
  BY <1>1
<1>3. ASSUME NEW k \in DOMAIN cache
      PROVE  /\ Entry(cache'[k])
             /\ cache'[k].data = cache[k].data
             /\ cache'[k].invalid = cache[k].invalid
             /\ cache'[k].busy <=> cache[k].busy \/ k \in fetched
  <2>1. Entry(cache[k])
    BY DEF CacheOK
  <2>2. cache'[k] = [cache[k] EXCEPT !.busy = cache[k].busy \/ k \in fetched]
    BY <1>1
  <2> HIDE DEF fetched
  <2>3. PICK b \in BOOLEAN : b = (cache[k].busy \/ k \in fetched)
    OBVIOUS
  <2> QED
    BY <2>1, <2>2, <2>3, EntryBusy
<1>4. DOMAIN cache' = DOMAIN cache \cup keys
  BY <1>1
<1>5. \A k \in keys \ DOMAIN cache :
        cache'[k].data = NoData /\ cache'[k].invalid = FALSE /\ cache'[k].busy = TRUE
  BY <1>2
<1>6. \A k \in DOMAIN cache :
        /\ cache'[k].data = cache[k].data
        /\ cache'[k].invalid = cache[k].invalid
        /\ cache'[k].busy <=> cache[k].busy \/ k \in fetched
  BY <1>3
<1>7. \A k \in keys \ DOMAIN cache : Entry(cache'[k])
  BY <1>2, EntryNew
<1>8. \A k \in keys : cache'[k].invalid => cache'[k].busy
  <2>1. \A k \in keys \cap DOMAIN cache : cache[k].invalid => k \in fetched
    OBVIOUS
  <2> HIDE DEF fetched
  <2> QED
    BY <1>5, <1>6, <2>1
<1>9. joined' \subseteq joined
      /\ \A k \in DOMAIN cache \cap joined :
           k \in joined' \/ (~cache[k].busy /\ cache'[k].busy)
  <2>1. \A k \in DOMAIN cache \cap joined :
          k \in joined' \/ (k \in fetched /\ ~cache[k].busy)
    BY <1>1
  <2> QED
    BY <1>1, <1>6, <2>1
<1>10. \A k \in DOMAIN cache' : Entry(cache'[k])
  BY <1>3, <1>4, <1>7
<1>12. \A k \in DOMAIN cache : cache[k].busy => cache'[k].busy
  BY <1>6
<1> HIDE DEF fetched, idle
<1> QED
  BY <1>4, <1>5, <1>6, <1>8, <1>9, <1>10, <1>12

(* What invalidating does to the entries, and to the answer on its way.    *)
LEMMA InvalidateFacts ==
  ASSUME CacheOK, NEW marks, Invalidate(marks)
  PROVE  /\ DOMAIN cache' = DOMAIN cache
         /\ \A k \in DOMAIN cache :
              /\ Entry(cache'[k])
              /\ cache'[k].data = cache[k].data
              /\ cache[k].busy => cache'[k].busy
              /\ Marked(k, marks) =>
                   /\ cache'[k].invalid
                   /\ k \in Mounted => cache'[k].busy
                   /\ k \in joined' \/ transit' = NoData \/ transit'.key # k
              /\ ~Marked(k, marks) => cache'[k] = cache[k] /\ (k \in joined => k \in joined')
         /\ transit' = NoData \/ transit' = transit
<1> DEFINE hit == {k \in DOMAIN cache : Marked(k, marks)}
           kept == {k \in hit : cache[k].busy /\ (k \notin Mounted \/ cache[k].data = NoData)}
<1>1. /\ cache' = [k \in DOMAIN cache |->
                     IF k \in hit
                       THEN [cache[k] EXCEPT !.invalid = TRUE, !.busy = @ \/ k \in Mounted]
                       ELSE cache[k]]
      /\ joined' = (joined \ hit) \cup kept
      /\ transit' = IF transit # NoData /\ transit.key \in hit \ kept THEN NoData ELSE transit
  BY DEF Invalidate
<1>2. ASSUME NEW k \in hit
      PROVE  /\ Entry(cache'[k])
             /\ cache'[k].data = cache[k].data
             /\ cache'[k].invalid
             /\ cache'[k].busy <=> cache[k].busy \/ k \in Mounted
  <2>1. Entry(cache[k])
    BY DEF CacheOK
  <2>2. cache'[k] = [cache[k] EXCEPT !.invalid = TRUE, !.busy = cache[k].busy \/ k \in Mounted]
    BY <1>1
  <2>3. PICK b \in BOOLEAN : b = (cache[k].busy \/ k \in Mounted)
    OBVIOUS
  <2> QED
    BY <2>1, <2>2, <2>3, EntryMarked
<1>3. \A k \in DOMAIN cache \ hit : cache'[k] = cache[k]
  BY <1>1
<1>4. ASSUME NEW k \in hit
      PROVE  k \in joined' \/ transit' = NoData \/ transit'.key # k
  BY <1>1
<1>5. \A k \in DOMAIN cache \ hit : k \in joined => k \in joined'
  BY <1>1
<1>6. DOMAIN cache' = DOMAIN cache /\ (transit' = NoData \/ transit' = transit)
  BY <1>1
<1>7. ASSUME NEW k \in DOMAIN cache, Marked(k, marks)
      PROVE  /\ Entry(cache'[k])
             /\ cache'[k].data = cache[k].data
             /\ cache[k].busy => cache'[k].busy
             /\ cache'[k].invalid
             /\ k \in Mounted => cache'[k].busy
             /\ k \in joined' \/ transit' = NoData \/ transit'.key # k
  <2>1. k \in hit
    BY <1>7
  <2> HIDE DEF hit, kept
  <2> QED
    BY <1>2, <1>4, <2>1
<1>8. ASSUME NEW k \in DOMAIN cache, ~Marked(k, marks)
      PROVE  /\ Entry(cache'[k])
             /\ cache'[k] = cache[k]
             /\ k \in joined => k \in joined'
  <2>1. k \in DOMAIN cache \ hit
    BY <1>8
  <2> HIDE DEF hit, kept
  <2> QED
    BY <1>3, <1>5, <2>1 DEF CacheOK
<1> HIDE DEF hit, kept
<1> QED
  BY <1>6, <1>7, <1>8

(* Going to another page.                                                  *)
LEMMA VisitInv == TabInv /\ Visit => TabInv'
<1> SUFFICES ASSUME TabInv, Visit PROVE TabInv'
  OBVIOUS
<1>1. PICK p \in Routes(role) \ {page}, old \in Ages :
        page' = p /\ Mounting(PageQueries(p, role, FALSE), old)
  BY DEF Visit
<1>2. /\ opened' = FALSE /\ mine' = {}
      /\ click' = IF click = NoData THEN NoData ELSE [click EXCEPT !.here = FALSE]
      /\ UNCHANGED <<server, role, transit>>
  BY DEF Visit
<1>3. PlaceOK' /\ PlaceOK /\ CacheOK
  BY <1>1, <1>2 DEF TabInv, PlaceOK
<1>4. PageQueries(p, role, FALSE) \in SUBSET AllKeys
  <2>1. p \in AllPages
    BY <1>1, <1>3, PagesOfRoles DEF PlaceOK
  <2> QED
    BY <2>1, KeysOfPages
<1>5. Mounted' = FrameQueries(role) \cup PageQueries(p, role, FALSE)
  BY <1>1, <1>2 DEF Mounted
<1>6. FrameQueries(role) \subseteq Mounted
  BY DEF Mounted
<1> DEFINE keys == PageQueries(p, role, FALSE)
<1> HIDE DEF keys
<1>7. /\ DOMAIN cache' = DOMAIN cache \cup keys
      /\ \A k \in DOMAIN cache' : Entry(cache'[k])
      /\ \A k \in DOMAIN cache :
           /\ cache'[k].data = cache[k].data
           /\ cache'[k].invalid = cache[k].invalid
           /\ cache[k].busy => cache'[k].busy
      /\ \A k \in keys \ DOMAIN cache : cache'[k].data = NoData /\ cache'[k].busy
      /\ \A k \in keys : cache'[k].invalid => cache'[k].busy
  BY <1>1, <1>3, <1>4, MountingFacts DEF keys
<1>8. /\ Mounted' = FrameQueries(role) \cup keys
      /\ keys \subseteq AllKeys
  BY <1>4, <1>5 DEF keys
<1>9. Sound(server)'
  BY <1>2 DEF TabInv, Sound
<1>10. CacheOK'
  <2>1. /\ Mounted \subseteq DOMAIN cache
        /\ DOMAIN cache \subseteq AllKeys
        /\ \A k \in DOMAIN cache : AnswerOK(k, cache[k].data)
    BY <1>3 DEF CacheOK
  <2>2. ASSUME NEW k \in DOMAIN cache' PROVE (AnswerOK(k, cache[k].data))'
    <3>1. CASE k \in DOMAIN cache
      BY <1>2, <1>7, <2>1, <3>1 DEF AnswerOK
    <3>2. CASE k \in keys \ DOMAIN cache
      BY <1>7, <3>2 DEF AnswerOK
    <3> QED
      BY <1>7, <3>1, <3>2
  <2>3. Mounted' \subseteq DOMAIN cache' /\ DOMAIN cache' \subseteq AllKeys
    BY <1>6, <1>7, <1>8, <2>1
  <2> QED
    BY <1>7, <2>2, <2>3 DEF CacheOK
<1>11. TransitOK'
  BY <1>2, <1>7 DEF TabInv, TransitOK, AnswerOK
<1>12. ClickOK'
  BY <1>2 DEF TabInv, ClickOK
<1>13. MineOK' /\ Written'
  BY <1>2 DEF MineOK, Written
<1>14. Fetching'
  <2>1. \A k \in keys : cache'[k].invalid => cache'[k].busy
    BY <1>7
  <2>2. \A k \in FrameQueries(role) : k \in DOMAIN cache /\ k \in Mounted
    BY <1>6 DEF TabInv, CacheOK
  <2>3. \A k \in FrameQueries(role) : cache'[k].invalid => cache'[k].busy \/ cache'[k].data = NoData
    BY <1>7, <2>2 DEF TabInv, Fetching
  <2> QED
    BY <1>8, <2>1, <2>3 DEF Fetching
<1> QED
  BY <1>3, <1>9, <1>10, <1>11, <1>12, <1>13, <1>14 DEF TabInv

(* Opening the page's drawer.                                              *)
LEMMA OpenDrawerInv == TabInv /\ OpenDrawer => TabInv'
<1> SUFFICES ASSUME TabInv, OpenDrawer PROVE TabInv'
  OBVIOUS
<1> DEFINE keys == PageQueries(page, role, TRUE) \ PageQueries(page, role, FALSE)
<1>1. PICK old \in Ages : Mounting(keys, old)
  BY DEF OpenDrawer
<1>2. /\ ~opened /\ opened' = TRUE
      /\ UNCHANGED <<server, role, page, transit, click, mine>>
  BY DEF OpenDrawer
<1>3. PlaceOK' /\ PlaceOK /\ CacheOK
  BY <1>2 DEF TabInv, PlaceOK
<1>4. keys \in SUBSET AllKeys
  BY <1>3, ReachKeys DEF Reach
<1>5. Mounted' \subseteq Mounted \cup keys
  <2>1. opened = FALSE
    BY <1>2, <1>3 DEF PlaceOK
  <2> QED
    BY <1>2, <2>1 DEF Mounted
<1> HIDE DEF keys
<1>6. /\ DOMAIN cache' = DOMAIN cache \cup keys
      /\ \A k \in DOMAIN cache' : Entry(cache'[k])
      /\ \A k \in DOMAIN cache :
           /\ cache'[k].data = cache[k].data
           /\ cache'[k].invalid = cache[k].invalid
           /\ cache[k].busy => cache'[k].busy
      /\ \A k \in keys \ DOMAIN cache : cache'[k].data = NoData /\ cache'[k].busy
      /\ \A k \in keys : cache'[k].invalid => cache'[k].busy
      /\ \A k \in DOMAIN cache \cap joined :
           k \in joined' \/ (~cache[k].busy /\ cache'[k].busy)
  BY <1>1, <1>3, <1>4, MountingFacts
<1>7. Sound(server)'
  BY <1>2 DEF TabInv, Sound
<1>8. CacheOK'
  <2>1. /\ Mounted \subseteq DOMAIN cache
        /\ DOMAIN cache \subseteq AllKeys
        /\ \A k \in DOMAIN cache : AnswerOK(k, cache[k].data)
    BY <1>3 DEF CacheOK
  <2>2. ASSUME NEW k \in DOMAIN cache' PROVE (AnswerOK(k, cache[k].data))'
    <3>1. CASE k \in DOMAIN cache
      BY <1>2, <1>6, <2>1, <3>1 DEF AnswerOK
    <3>2. CASE k \in keys \ DOMAIN cache
      BY <1>6, <3>2 DEF AnswerOK
    <3> QED
      BY <1>6, <3>1, <3>2
  <2>3. Mounted' \subseteq DOMAIN cache' /\ DOMAIN cache' \subseteq AllKeys
    BY <1>4, <1>5, <1>6, <2>1
  <2> QED
    BY <1>6, <2>2, <2>3 DEF CacheOK
<1>9. TransitOK'
  BY <1>2, <1>6 DEF TabInv, TransitOK, AnswerOK
<1>10. ClickOK' /\ MineOK'
  <2>1. Reach' = Reach
    BY <1>2, PlaceStays
  <2> QED
    BY <1>2, <2>1 DEF TabInv, ClickOK, MineOK, CoversOp
<1>11. Fetching'
  <2>1. \A k \in Mounted : cache'[k].invalid => cache'[k].busy \/ cache'[k].data = NoData
    BY <1>3, <1>6 DEF TabInv, Fetching, CacheOK
  <2> QED
    BY <1>5, <1>6, <2>1 DEF Fetching
<1>12. Written'
  <2> SUFFICES ASSUME NEW m \in mine, NEW k \in DOMAIN cache', Marked(k, m[2])
               PROVE  Answering(m[2])' \/ k \in joined' \/ (UpToDate(k, m[1]))'
    BY <1>2 DEF Written
  <2>1. CASE k \in keys \ DOMAIN cache
    <3>1. ~(transit # NoData /\ transit.key = k)
      BY <2>1 DEF TabInv, TransitOK
    <3> QED
      BY <1>2, <1>6, <2>1, <3>1 DEF UpToDate
  <2>2. CASE k \in DOMAIN cache
    <3>1. Answering(m[2]) \/ k \in joined \/ UpToDate(k, m[1])
      BY <2>2 DEF TabInv, Written
    <3>2. CASE Answering(m[2])
      BY <1>2, <3>2 DEF Answering
    <3>3. CASE k \in joined
      <4>1. k \in joined' \/ (~cache[k].busy /\ cache'[k].busy)
        BY <1>6, <2>2, <3>3
      <4>2. CASE ~cache[k].busy /\ cache'[k].busy
        <5>1. ~(transit # NoData /\ transit.key = k)
          BY <4>2 DEF TabInv, TransitOK
        <5> QED
          BY <1>2, <4>2, <5>1 DEF UpToDate
      <4> QED
        BY <4>1, <4>2
    <3>4. CASE UpToDate(k, m[1])
      BY <1>2, <1>6, <2>2, <3>4 DEF UpToDate
    <3> QED
      BY <3>1, <3>2, <3>3, <3>4
  <2> QED
    BY <1>6, <2>1, <2>2
<1> QED
  BY <1>3, <1>7, <1>8, <1>9, <1>10, <1>11, <1>12 DEF TabInv

(* Closing the drawer; answering "no" to the clock-out question.           *)
LEMMA CloseDrawerInv == TabInv /\ CloseDrawer => TabInv'
<1> SUFFICES ASSUME TabInv, CloseDrawer PROVE TabInv'
  OBVIOUS
<1>1. opened' = FALSE /\ UNCHANGED <<server, role, page, cache, transit, click, mine, joined>>
  BY DEF CloseDrawer
<1>2. PlaceOK' /\ PlaceOK
  BY <1>1 DEF TabInv, PlaceOK
<1>3. Mounted' \subseteq Mounted
  <2>1. opened = TRUE \/ opened = FALSE
    BY <1>2 DEF PlaceOK
  <2>2. PageQueries(page, role, FALSE) \subseteq PageQueries(page, role, opened)
    BY <1>2, <2>1, MountedReach
  <2> QED
    BY <1>1, <2>2 DEF Mounted
<1>4. Reach' = Reach
  BY <1>1, PlaceStays
<1>5. Sound(server)' /\ TransitOK' /\ Written'
  BY <1>1 DEF TabInv, Sound, TransitOK, AnswerOK, Written, Answering, UpToDate
<1>6. ClickOK' /\ MineOK'
  BY <1>1, <1>4 DEF TabInv, ClickOK, MineOK, CoversOp
<1>7. CacheOK' /\ Fetching'
  BY <1>1, <1>3 DEF TabInv, CacheOK, Fetching, AnswerOK
<1> QED
  BY <1>2, <1>5, <1>6, <1>7 DEF TabInv

(* What leaves server, place, cache, answers and clicks alone.             *)
LEMMA NothingInv ==
  TabInv /\ UNCHANGED <<server, role, page, opened, cache, transit, click, mine, joined>> => TabInv'
<1> SUFFICES ASSUME TabInv,
                    UNCHANGED <<server, role, page, opened, cache, transit, click, mine, joined>>
             PROVE  TabInv'
  OBVIOUS
<1>1. Reach' = Reach /\ Mounted' = Mounted
  BY DEF Reach, Mounted
<1>2. PlaceOK' /\ Sound(server)' /\ TransitOK' /\ Written'
  BY DEF TabInv, PlaceOK, Sound, TransitOK, AnswerOK, Written, Answering, UpToDate
<1>3. ClickOK' /\ MineOK'
  BY <1>1 DEF TabInv, ClickOK, MineOK, CoversOp
<1>4. CacheOK' /\ Fetching'
  BY <1>1 DEF TabInv, CacheOK, Fetching, AnswerOK
<1> QED
  BY <1>2, <1>3, <1>4 DEF TabInv

(* A poll fetches an entry that is idle, so that no answer is on its way   *)
(* to it.                                                                  *)
LEMMA PollInv ==
  ASSUME TabInv, NEW q \in Mounted \cap Polled, Poll(q)
  PROVE  TabInv'
<1>1. /\ ~cache[q].busy
      /\ cache' = [cache EXCEPT ![q].busy = TRUE]
      /\ joined' = joined \ {q}
      /\ UNCHANGED <<server, role, page, opened, transit, click, mine>>
  BY DEF Poll
<1>2. Reach' = Reach /\ Mounted' = Mounted
  BY <1>1 DEF Reach, Mounted
<1>3. q \in DOMAIN cache /\ Entry(cache[q])
  BY DEF TabInv, CacheOK
<1>4. DOMAIN cache' = DOMAIN cache /\ \A k \in DOMAIN cache \ {q} : cache'[k] = cache[k]
  BY <1>1
<1>5. cache'[q] = [cache[q] EXCEPT !.busy = TRUE]
  BY <1>1, <1>3
<1>6. /\ Entry(cache'[q]) /\ cache'[q].busy = TRUE
      /\ cache'[q].data = cache[q].data /\ cache'[q].invalid = cache[q].invalid
  BY <1>3, <1>5, EntryBusy
<1>7. ~(transit # NoData /\ transit.key = q)
  BY <1>1 DEF TabInv, TransitOK
<1>8. PlaceOK' /\ Sound(server)'
  BY <1>1 DEF TabInv, PlaceOK, Sound
<1>9. CacheOK'
  <2>1. \A k \in DOMAIN cache : Entry(cache'[k]) /\ cache'[k].data = cache[k].data
    BY <1>4, <1>6 DEF TabInv, CacheOK
  <2>2. \A k \in DOMAIN cache : (AnswerOK(k, cache[k].data))'
    BY <1>1, <2>1 DEF TabInv, CacheOK, AnswerOK
  <2> QED
    BY <1>2, <1>4, <2>1, <2>2 DEF TabInv, CacheOK
<1>10. TransitOK'
  <2>1. transit # NoData => transit.key \in DOMAIN cache \ {q}
    BY <1>7 DEF TabInv, TransitOK
  <2> QED
    BY <1>1, <1>4, <2>1 DEF TabInv, TransitOK, AnswerOK
<1>11. ClickOK' /\ MineOK'
  BY <1>1, <1>2 DEF TabInv, ClickOK, MineOK, CoversOp
<1>12. Fetching'
  BY <1>2, <1>4, <1>6 DEF TabInv, Fetching, CacheOK
<1>13. Written'
  <2> SUFFICES ASSUME NEW m \in mine, NEW k \in DOMAIN cache, Marked(k, m[2])
               PROVE  Answering(m[2])' \/ k \in joined' \/ (UpToDate(k, m[1]))'
    BY <1>1, <1>4 DEF Written
  <2>1. CASE k = q
    BY <1>1, <1>6, <1>7, <2>1 DEF UpToDate
  <2>2. CASE k # q
    <3>1. Answering(m[2]) \/ k \in joined \/ UpToDate(k, m[1])
      BY DEF TabInv, Written
    <3> QED
      BY <1>1, <1>4, <2>2, <3>1 DEF Answering, UpToDate
  <2> QED
    BY <2>1, <2>2
<1> QED
  BY <1>8, <1>9, <1>10, <1>11, <1>12, <1>13 DEF TabInv

(* The API's answer to a fetch is what it holds.                           *)
LEMMA AnswerInv ==
  ASSUME TabInv, NEW q \in DOMAIN cache, Answer(q)
  PROVE  TabInv'
<1>1. /\ transit = NoData /\ cache[q].busy
      /\ transit' = [key |-> q, data |-> Answered(q, server)]
      /\ UNCHANGED <<server, role, page, opened, cache, click, mine, joined>>
  BY DEF Answer
<1>2. Reach' = Reach /\ Mounted' = Mounted
  BY <1>1 DEF Reach, Mounted
<1>3. /\ AnswerOK(q, Answered(q, server))
      /\ Admits(Gets[q].route, role) => Answered(q, server) # NoData
      /\ \A f \in DOMAIN Answered(q, server) : Answered(q, server)[f] = server[f]
  BY AnswersOK DEF TabInv, CacheOK
<1>4. transit'.key = q /\ transit'.data = Answered(q, server)
  BY <1>1
<1>5. PlaceOK' /\ Sound(server)'
  BY <1>1 DEF TabInv, PlaceOK, Sound
<1>6. CacheOK' /\ Fetching'
  BY <1>1, <1>2 DEF TabInv, CacheOK, Fetching, AnswerOK
<1>7. TransitOK'
  BY <1>1, <1>3, <1>4 DEF TransitOK, AnswerOK
<1>8. ClickOK' /\ MineOK'
  BY <1>1, <1>2 DEF TabInv, ClickOK, MineOK, CoversOp
<1>9. Written'
  <2> SUFFICES ASSUME NEW m \in mine, NEW k \in DOMAIN cache, Marked(k, m[2])
               PROVE  Answering(m[2])' \/ k \in joined' \/ (UpToDate(k, m[1]))'
    BY <1>1 DEF Written
  <2>1. Answering(m[2]) \/ k \in joined \/ UpToDate(k, m[1])
    BY DEF TabInv, Written
  <2>2. UpToDate(k, m[1]) => (UpToDate(k, m[1]))'
    BY <1>1, <1>3, <1>4 DEF UpToDate
  <2> QED
    BY <1>1, <2>1, <2>2 DEF Answering
<1> QED
  BY <1>5, <1>6, <1>7, <1>8, <1>9 DEF TabInv

(* An answer arrives. One that was refused leaves the entry as empty as it *)
(* was.                                                                    *)
LEMMA ArriveInv == TabInv /\ Arrive => TabInv'
<1> SUFFICES ASSUME TabInv, Arrive PROVE TabInv'
  OBVIOUS
<1>1. /\ transit # NoData /\ transit' = NoData
      /\ cache' = [cache EXCEPT ![transit.key] =
           IF transit.data = NoData
             THEN [@ EXCEPT !.busy = FALSE]
             ELSE [data |-> transit.data, invalid |-> FALSE, busy |-> FALSE]]
      /\ UNCHANGED <<server, role, page, opened, click, mine, joined>>
  BY DEF Arrive
<1> DEFINE q == transit.key
<1>2. Reach' = Reach /\ Mounted' = Mounted
  BY <1>1 DEF Reach, Mounted
<1>3. /\ q \in DOMAIN cache /\ Entry(cache[q])
      /\ AnswerOK(q, cache[q].data) /\ AnswerOK(q, transit.data)
      /\ Admits(Gets[q].route, role) => transit.data # NoData
  BY <1>1 DEF TabInv, CacheOK, TransitOK
<1>4. DOMAIN cache' = DOMAIN cache /\ \A k \in DOMAIN cache \ {q} : cache'[k] = cache[k]
  BY <1>1
<1>5. /\ Entry(cache'[q]) /\ ~cache'[q].busy /\ cache'[q].data = transit.data
      /\ cache'[q].invalid => cache'[q].data = NoData
  <2>1. CASE transit.data = NoData
    <3>1. cache'[q] = [cache[q] EXCEPT !.busy = FALSE]
      BY <1>1, <1>3, <2>1
    <3>2. cache[q].data = NoData
      BY <1>3, <2>1 DEF AnswerOK
    <3>3. Entry(cache'[q]) /\ cache'[q].data = cache[q].data /\ cache'[q].busy = FALSE
      BY <1>3, <3>1 DEF Entry
    <3> QED
      BY <2>1, <3>2, <3>3
  <2>2. CASE transit.data # NoData
    <3>1. cache'[q] = [data |-> transit.data, invalid |-> FALSE, busy |-> FALSE]
      BY <1>1, <1>3, <2>2
    <3>2. /\ Entry(cache'[q]) /\ cache'[q].data = transit.data
          /\ cache'[q].invalid = FALSE /\ cache'[q].busy = FALSE
      BY <3>1 DEF Entry
    <3> QED
      BY <3>2
  <2> QED
    BY <2>1, <2>2
<1> HIDE DEF q
<1>6. PlaceOK' /\ Sound(server)' /\ TransitOK'
  BY <1>1 DEF TabInv, PlaceOK, Sound, TransitOK
<1>7. CacheOK'
  <2>1. \A k \in DOMAIN cache : Entry(cache'[k]) /\ AnswerOK(k, cache'[k].data)
    BY <1>3, <1>4, <1>5 DEF TabInv, CacheOK
  <2> QED
    BY <1>1, <1>2, <1>4, <2>1 DEF TabInv, CacheOK, AnswerOK
<1>8. ClickOK' /\ MineOK'
  BY <1>1, <1>2 DEF TabInv, ClickOK, MineOK, CoversOp
<1>9. Fetching'
  BY <1>2, <1>4, <1>5 DEF TabInv, Fetching, CacheOK
<1>10. Written'
  <2> SUFFICES ASSUME NEW m \in mine, NEW k \in DOMAIN cache, Marked(k, m[2])
               PROVE  Answering(m[2])' \/ k \in joined' \/ (UpToDate(k, m[1]))'
    BY <1>1, <1>4 DEF Written
  <2>1. Answering(m[2]) \/ k \in joined \/ UpToDate(k, m[1])
    BY DEF TabInv, Written
  <2>2. ASSUME UpToDate(k, m[1]) PROVE (UpToDate(k, m[1]))'
    <3>1. CASE k = q
      BY <1>1, <1>5, <2>2, <3>1 DEF UpToDate, q
    <3>2. CASE k # q
      BY <1>1, <1>4, <2>2, <3>2 DEF UpToDate
    <3> QED
      BY <3>1, <3>2
  <2> QED
    BY <1>1, <2>1, <2>2 DEF Answering
<1> QED
  BY <1>6, <1>7, <1>8, <1>9, <1>10 DEF TabInv

(* A control is used.                                                      *)
LEMMA ClickInv == TabInv /\ Click => TabInv'
<1> SUFFICES ASSUME TabInv, Click PROVE TabInv'
  OBVIOUS
<1>1. PICK offer \in Offered :
        click' = [op |-> offer.op, marks |-> offer.marks, here |-> TRUE, answer |-> "none"]
  BY DEF Click
<1>2. click = NoData /\ UNCHANGED <<server, role, page, opened, cache, transit, mine, joined>>
  BY DEF Click
<1>3. Reach' = Reach /\ Mounted' = Mounted
  BY <1>2 DEF Reach, Mounted
<1>4. offer.op \in OpNames /\ CoversOp(offer.op, offer.marks, Reach)
  BY OfferedCovered DEF TabInv
<1>5. PlaceOK' /\ Sound(server)' /\ TransitOK'
  BY <1>2 DEF TabInv, PlaceOK, Sound, TransitOK, AnswerOK
<1>6. CacheOK' /\ Fetching'
  BY <1>2, <1>3 DEF TabInv, CacheOK, Fetching, AnswerOK
<1>7. ClickOK'
  BY <1>1, <1>2, <1>3, <1>4 DEF ClickOK, CoversOp
<1>8. MineOK'
  BY <1>2, <1>3 DEF TabInv, MineOK
<1>9. Written'
  <2>1. \A marks : ~Answering(marks)
    BY <1>2 DEF Answering
  <2> QED
    BY <1>2, <2>1 DEF TabInv, Written, UpToDate
<1> QED
  BY <1>5, <1>6, <1>7, <1>8, <1>9 DEF TabInv

(* The request is executed. What it changes, the marks of the control      *)
(* reach; and they are still to come.                                      *)
LEMMA ExecuteInv == TabInv /\ Execute => TabInv'
<1> SUFFICES ASSUME TabInv, Execute PROVE TabInv'
  OBVIOUS
<1> DEFINE served == Serves(click.op, server, role)
           result == IF served THEN After(click.op, server, role) ELSE server
           changed == {f \in DOMAIN server : result[f] # server[f]}
<1>1. /\ click # NoData /\ click.answer = "none"
      /\ server' = result
      /\ mine' = {m \in mine : m[1] \notin changed} \cup When(click.here, changed \X {click.marks})
      /\ click' = [click EXCEPT !.answer =
           IF ~served THEN "refused"
           ELSE IF click.op = "clockOut" /\ changed = {} THEN "requiresConfirmation" ELSE "done"]
      /\ UNCHANGED <<role, page, opened, cache, transit, joined>>
  BY DEF Execute
<1>2. Reach' = Reach /\ Mounted' = Mounted
  BY <1>1 DEF Reach, Mounted
<1>3. /\ click = [op |-> click.op, marks |-> click.marks, here |-> click.here,
                  answer |-> click.answer]
      /\ click.op \in OpNames
      /\ click.here => CoversOp(click.op, click.marks, Reach)
  BY <1>1 DEF TabInv, ClickOK
<1>4. Sound(server) /\ DOMAIN server = Fields
  BY DEF TabInv, Sound
<1>5. Sound(result)
  <2>1. CASE served
    BY <1>3, <1>4, <2>1, SoundAfter DEF Serves, After
  <2> QED
    BY <1>4, <2>1
<1>6. \A f \in changed : served /\ f \in DOMAIN Ops(server, role)[click.op].sets
  BY <1>4 DEF After, ++
<1>7. changed # {} => served
  BY <1>6
<1>8. \A f \in changed : click.here => Covers(f, click.marks, Reach)
  BY <1>3, <1>6 DEF CoversOp
<1>9. changed \subseteq Fields /\ \A f \in Fields \ changed : result[f] = server[f]
  BY <1>4
<1>10. /\ click' # NoData
       /\ click'.op = click.op /\ click'.marks = click.marks /\ click'.here = click.here
       /\ click' = [op |-> click.op, marks |-> click.marks, here |-> click.here,
                    answer |-> click'.answer]
       /\ changed # {} => click'.answer = "done"
  <2>1. PICK a : click' = [click EXCEPT !.answer = a] /\ (changed # {} => a = "done")
    BY <1>1, <1>7
  <2>2. click' = [op |-> click.op, marks |-> click.marks, here |-> click.here, answer |-> a]
    BY <1>3, <2>1
  <2> HIDE DEF changed
  <2> QED
    BY <2>1, <2>2 DEF NoData
<1>11. \A m \in mine' : \/ m \in mine /\ m[1] \notin changed
                        \/ click.here /\ m[1] \in changed /\ m[2] = click.marks
  BY <1>1 DEF When
<1> HIDE DEF served, result, changed
<1>12. Sound(server)' /\ PlaceOK'
  BY <1>1, <1>5 DEF TabInv, PlaceOK
<1>13. CacheOK' /\ Fetching' /\ TransitOK'
  BY <1>1, <1>2 DEF TabInv, CacheOK, Fetching, TransitOK, AnswerOK
<1>14. ClickOK'
  BY <1>1, <1>2, <1>3, <1>10 DEF ClickOK, CoversOp
<1>15. MineOK'
  BY <1>2, <1>8, <1>9, <1>11 DEF TabInv, MineOK
<1>16. Written'
  <2> SUFFICES ASSUME NEW m \in mine', NEW k \in DOMAIN cache, Marked(k, m[2])
               PROVE  Answering(m[2])' \/ k \in joined' \/ (UpToDate(k, m[1]))'
    BY <1>1 DEF Written
  <2>1. CASE m \in mine /\ m[1] \notin changed
    <3>1. Answering(m[2]) \/ k \in joined \/ UpToDate(k, m[1])
      BY <2>1 DEF TabInv, Written
    <3>2. ~Answering(m[2])
      BY <1>1 DEF Answering
    <3>3. server'[m[1]] = server[m[1]]
      BY <1>1, <1>9, <2>1 DEF TabInv, MineOK
    <3> QED
      BY <1>1, <3>1, <3>2, <3>3 DEF UpToDate
  <2>2. CASE click.here /\ m[1] \in changed /\ m[2] = click.marks
    BY <1>10, <2>2 DEF Answering
  <2> QED
    BY <1>11, <2>1, <2>2
<1> QED
  BY <1>12, <1>13, <1>14, <1>15, <1>16 DEF TabInv

(* The answer to the request arrives, and with "done" the entries under    *)
(* its marks are fetched again.                                            *)
LEMMA ClickArrivesInv == TabInv /\ ClickArrives => TabInv'
<1> SUFFICES ASSUME TabInv, ClickArrives PROVE TabInv'
  OBVIOUS
<1>1. /\ click # NoData
      /\ click' = NoData /\ UNCHANGED <<server, role, page, opened, mine>>
  BY DEF ClickArrives
<1>2. Reach' = Reach /\ Mounted' = Mounted
  BY <1>1 DEF Reach, Mounted
<1>3. PlaceOK' /\ Sound(server)' /\ ClickOK' /\ MineOK'
  BY <1>1, <1>2 DEF TabInv, PlaceOK, Sound, ClickOK, MineOK
<1>4. CASE click.answer # "done"
  <2>1. UNCHANGED <<cache, joined, transit>>
    BY <1>4 DEF ClickArrives
  <2>2. CacheOK' /\ Fetching' /\ TransitOK'
    BY <1>1, <1>2, <2>1 DEF TabInv, CacheOK, Fetching, TransitOK, AnswerOK
  <2>3. Written'
    <3>1. \A marks : ~Answering(marks)
      BY <1>4 DEF Answering
    <3> QED
      BY <1>1, <2>1, <3>1 DEF TabInv, Written, UpToDate
  <2> QED
    BY <1>3, <2>2, <2>3 DEF TabInv
<1>5. CASE click.answer = "done"
  <2> DEFINE marks == click.marks
  <2>1. CacheOK /\ Invalidate(marks)
    BY <1>5 DEF ClickArrives, TabInv
  <2> HIDE DEF marks
  <2>2. /\ DOMAIN cache' = DOMAIN cache
        /\ \A k \in DOMAIN cache :
             /\ Entry(cache'[k])
             /\ cache'[k].data = cache[k].data
             /\ cache[k].busy => cache'[k].busy
             /\ Marked(k, marks) =>
                  /\ cache'[k].invalid
                  /\ k \in Mounted => cache'[k].busy
                  /\ k \in joined' \/ transit' = NoData \/ transit'.key # k
             /\ ~Marked(k, marks) => cache'[k] = cache[k] /\ (k \in joined => k \in joined')
        /\ transit' = NoData \/ transit' = transit
    BY <2>1, InvalidateFacts
  <2>3. CacheOK'
    BY <1>1, <1>2, <2>1, <2>2 DEF CacheOK, AnswerOK
  <2>4. TransitOK'
    <3>1. CASE transit' = NoData
      BY <3>1 DEF TransitOK
    <3>2. CASE transit' = transit /\ transit # NoData
      BY <1>1, <2>2, <3>2 DEF TabInv, TransitOK, AnswerOK
    <3> QED
      BY <2>2, <3>1, <3>2
  <2>5. Fetching'
    <3>1. ASSUME NEW k \in Mounted, cache'[k].invalid PROVE cache'[k].busy \/ cache'[k].data = NoData
      <4>1. k \in DOMAIN cache
        BY <2>1 DEF CacheOK
      <4>2. CASE Marked(k, marks)
        BY <2>2, <4>1, <4>2
      <4>3. CASE ~Marked(k, marks)
        <5>1. cache'[k] = cache[k]
          BY <2>2, <4>1, <4>3
        <5> QED
          BY <3>1, <5>1 DEF TabInv, Fetching
      <4> QED
        BY <4>2, <4>3
    <3> QED
      BY <1>2, <3>1 DEF Fetching
  <2>6. Written'
    <3> SUFFICES ASSUME NEW m \in mine, NEW k \in DOMAIN cache, Marked(k, m[2])
                 PROVE  k \in joined' \/ (UpToDate(k, m[1]))'
      BY <1>1, <2>2 DEF Written
    <3>1. CASE Marked(k, marks)
      <4>1. /\ cache'[k].invalid
            /\ k \in joined' \/ transit' = NoData \/ transit'.key # k
        BY <2>2, <3>1
      <4> QED
        BY <4>1 DEF UpToDate
    <3>2. CASE ~Marked(k, marks)
      <4>1. m[2] # marks
        BY <3>2
      <4>2. k \in joined \/ UpToDate(k, m[1])
        BY <4>1 DEF TabInv, Written, Answering, marks
      <4>3. /\ cache'[k] = cache[k]
            /\ k \in joined => k \in joined'
            /\ transit' = NoData \/ transit' = transit
        BY <2>2, <3>2
      <4> QED
        BY <1>1, <4>2, <4>3 DEF UpToDate
    <3> QED
      BY <3>1, <3>2
  <2> QED
    BY <1>3, <2>3, <2>4, <2>5, <2>6 DEF TabInv
<1> QED
  BY <1>4, <1>5

(* Somebody else's request. What it changes is no longer the page's own    *)
(* writing.                                                                *)
LEMMA OthersInv == TabInv /\ Others => TabInv'
<1> SUFFICES ASSUME TabInv, Others PROVE TabInv'
  OBVIOUS
<1>1. PICK r \in Roles : \E o \in Range(Ops(server, r)) :
        o.accepted /\ server' = o.sets ++ server
  BY DEF Others
<1>2. /\ mine' = {m \in mine : server'[m[1]] = server[m[1]]}
      /\ UNCHANGED <<role, page, opened, cache, transit, click, joined>>
  BY DEF Others
<1>3. PICK o \in OpNames :
        Ops(server, r)[o].accepted /\ server' = Ops(server, r)[o].sets ++ server
  BY <1>1, OpsOfGroups DEF Range
<1>4. Sound(Ops(server, r)[o].sets ++ server)
  BY <1>3, SoundAfter DEF TabInv
<1>5. Reach' = Reach /\ Mounted' = Mounted
  BY <1>2 DEF Reach, Mounted
<1>6. PlaceOK' /\ Sound(server)'
  BY <1>2, <1>3, <1>4 DEF TabInv, PlaceOK
<1>7. CacheOK' /\ Fetching' /\ TransitOK'
  BY <1>2, <1>5 DEF TabInv, CacheOK, Fetching, TransitOK, AnswerOK
<1>8. ClickOK' /\ MineOK'
  BY <1>2, <1>5 DEF TabInv, ClickOK, MineOK, CoversOp
<1>9. Written'
  <2> SUFFICES ASSUME NEW m \in mine', NEW k \in DOMAIN cache, Marked(k, m[2])
               PROVE  Answering(m[2])' \/ k \in joined' \/ (UpToDate(k, m[1]))'
    BY <1>2 DEF Written
  <2>1. m \in mine /\ server'[m[1]] = server[m[1]]
    BY <1>2
  <2>2. Answering(m[2]) \/ k \in joined \/ UpToDate(k, m[1])
    BY <2>1 DEF TabInv, Written
  <2> QED
    BY <1>2, <2>1, <2>2 DEF Answering, UpToDate
<1> QED
  BY <1>6, <1>7, <1>8, <1>9 DEF TabInv

LEMMA NextInv == TabInv /\ [Next]_vars => TabInv'
<1> SUFFICES ASSUME TabInv, [Next]_vars PROVE TabInv'
  OBVIOUS
<1>1. CASE Visit
  BY <1>1, VisitInv
<1>2. CASE OpenDrawer
  BY <1>2, OpenDrawerInv
<1>3. CASE CloseDrawer
  BY <1>3, CloseDrawerInv
<1>4. CASE \E k \in Mounted \cap Polled : Poll(k)
  BY <1>4, PollInv
<1>5. CASE \E k \in DOMAIN cache : Answer(k)
  BY <1>5, AnswerInv
<1>6. CASE Arrive
  BY <1>6, ArriveInv
<1>7. CASE Click
  BY <1>7, ClickInv
<1>8. CASE Execute
  BY <1>8, ExecuteInv
<1>9. CASE ClickArrives
  BY <1>9, ClickArrivesInv
<1>10. CASE CancelClockOut
  BY <1>10, NothingInv DEF CancelClockOut
<1>11. CASE Others
  BY <1>11, OthersInv
<1>12. CASE UNCHANGED vars
  BY <1>12, NothingInv DEF vars
<1> QED
  BY <1>1, <1>2, <1>3, <1>4, <1>5, <1>6, <1>7, <1>8, <1>9, <1>10, <1>11, <1>12 DEF Next

-----------------------------------------------------------------------------
(* The theorems                                                            *)

(* In every behaviour: no control's marks miss an entry its page shows (by *)
(* the names of Forgotten excepted), an invalid entry on screen is being   *)
(* fetched, and whatever of the page's own last writes an entry under      *)
(* their marks lacks is still to be marked or fetched.                     *)
THEOREM TabInvariant == Spec => []TabInv
<1>1. Init => TabInv
  BY InitInv
<1>2. TabInv /\ [Next]_vars => TabInv'
  BY NextInv
<1> QED
  BY <1>1, <1>2, PTL DEF Spec

(* On a page that shows what the API holds, every control offered - by the *)
(* buttons' conditions, the role checks of the pages and the navigation -  *)
(* is one the guards admit and the services accept, but for the names of   *)
(* Excepted.                                                               *)
THEOREM OffersServed == Spec => []OffersAreServed
<1>1. TabInv => OffersAreServed
  BY OffersTrue DEF TabInv, OffersAreServed
<1> QED
  BY <1>1, TabInvariant, PTL

(* What a page shows, once its click is answered and nothing is fetched,   *)
(* holds what its own controls wrote last, but for the names of Forgotten  *)
(* and the entries marked during their first fetch.                        *)
THEOREM WritesRead == Spec => []ReadYourWrites
<1>1. TabInv => ReadYourWrites
  <2> SUFFICES ASSUME TabInv, Settled, NEW k \in Mounted \ joined, NEW m \in mine,
                      m[1] \in DOMAIN cache[k].data, ~Forgotten(k, m[2])
               PROVE  cache[k].data[m[1]] = server[m[1]]
    BY DEF ReadYourWrites
  <2>1. k \in DOMAIN cache /\ k \in Reach
    BY MountedReach DEF TabInv, CacheOK
  <2>2. cache[k].data # NoData /\ m[1] \in Gets[k].shows
    BY <2>1 DEF TabInv, CacheOK, AnswerOK, NoData
  <2>3. Marked(k, m[2])
    BY <2>1, <2>2 DEF TabInv, MineOK, Covers
  <2>4. ~Answering(m[2])
    BY DEF Settled, Answering
  <2>5. UpToDate(k, m[1])
    BY <2>1, <2>3, <2>4 DEF TabInv, Written
  <2>6. ~cache[k].busy /\ ~cache[k].invalid
    BY <2>2 DEF TabInv, Fetching, Settled
  <2> QED
    BY <2>5, <2>6 DEF UpToDate
<1> QED
  BY <1>1, TabInvariant, PTL
=============================================================================
