------------------------------ MODULE MCWebTab ------------------------------
EXTENDS WebTab

Budget(v, c, o) == [visits |-> v, clicks |-> c, others |-> o]

MCBudgets == {Budget(1, 1, 0), Budget(0, 1, 1), Budget(0, 0, 1)}

(* What a page's controls depend on: not the listings.                     *)
Listings == {Kpis, TimerLog, Report, Trail, Live, MySessions, OneSession, Sessions,
             MyPastSessions, PastSessions, Actors}

Shown == UNION {Gets[k].shows : k \in PageQueries(page, role, opened) \ Listings}

Usual == [duty |-> "WORKING", timer |-> "NONE", task |-> "TO_DO", correction |-> "NONE",
          change |-> "NONE", contactChange |-> "NONE", document |-> "LIVE",
          account |-> "ACTIVE", creating |-> TRUE]

(* Bounds on where a behaviour starts: what the page's controls do not     *)
(* depend on is as usual, and a click and a change made elsewhere meet on  *)
(* My Day only.                                                            *)
MCInit ==
  /\ role \in Roles
  /\ page \in Routes(role)
  /\ opened \in BOOLEAN
  /\ server \in Scenes
  /\ \A f \in DOMAIN Usual \ Shown : server[f] = Usual[f]
  /\ "task" \notin Shown => ~server.worked
  /\ Init
  /\ left.clicks > 0 /\ left.others > 0 => page = "my-day"

(* Bounds on the steps: to pages with controls of their own that have a    *)
(* query in common with what was loaded, any other being as good as opened *)
(* first; and changes elsewhere to what the page's controls depend on.     *)
Related(p) ==
  /\ \E k \in PageQueries(p, role, FALSE) \ FrameQueries(role) : k \in DOMAIN cache
  /\ p \notin {"tasks/history", "attendance", "admin/dashboard", "admin/live", "admin/reports",
               "admin/audit", "admin/attendance-logs"}

MCNext ==
  /\ Next
  /\ page' # page => Related(page')
  /\ left'.others # left.others => \E f \in Shown : server'[f] # server[f]

MCSpec == MCInit /\ [][MCNext]_vars
=============================================================================
