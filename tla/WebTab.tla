------------------------------- MODULE WebTab -------------------------------
(***************************************************************************)
(* One browser tab: the pages of module Pages over React Query's cache, in *)
(* front of the API of module WebApi, whose state other tabs, devices and  *)
(* people change too. A fetch has three steps (begun, answered by the      *)
(* server, arrived) and so has a click (sent, executed, answered), and     *)
(* anything can fall between two of them.                                  *)
(*                                                                         *)
(* The library is modelled from how the pages use it: an entry is fetched  *)
(* when an observer mounts and it has no data, is invalidated or is older  *)
(* than staleTime; invalidateQueries flags every entry under a prefix and  *)
(* fetches the mounted ones again, restarting a fetch under way - unless   *)
(* the entry has no data yet, when the fetch under way is left to finish;  *)
(* a fetch that succeeds clears the flag.                                  *)
(*                                                                         *)
(* Left out: answers of different queries overtaking one another, entries  *)
(* collected after five minutes without observer, a second click while one *)
(* is unanswered, network failures, sessions that end (module Sessions).   *)
(***************************************************************************)
EXTENDS Pages, FiniteSets, SequencesExt

CONSTANTS Budgets,   \* bounds: [visits, clicks, others], how many navigations, controls
                     \* used and changes made elsewhere a behaviour may have
          Ages       \* may entries be past staleTime when an observer mounts?

VARIABLES server,      \* the API's state, as WebApi describes it
          role,        \* the role of the user signed in
          page,        \* the route shown
          opened,      \* its drawer is open
          confirming,  \* My Day asks whether to stop what runs and clock out
          cache,       \* React Query's entries: [data, invalid, busy]
          transit,     \* a query's answer on its way to the tab, or NoData
          click,       \* the mutation under way, or NoData
          mine,        \* <<field, marks>>: changed last by a control of this page
          joined,      \* keys whose fetch was under way, and kept, when they were marked
          left         \* what is left of the behaviour's budget

vars == <<server, role, page, opened, confirming, cache, transit, click, mine, joined, left>>

-----------------------------------------------------------------------------
Roles == {"EMPLOYEE", "ADMINISTRATOR", "AUDITOR"}

(* An administrator's own attendance, corrections and profile pages are    *)
(* the employee's again; the administrator's tab is taken without them.    *)
Routes(r) == IF r = "ADMINISTRATOR" THEN Links(r) \ {"attendance", "corrections", "profile"}
                                    ELSE Links(r)

Mounted == FrameQueries(role) \cup PageQueries(page, role, opened)

Seeing == [k \in DOMAIN cache |-> cache[k].data]

Offered == PageOffers(page, Seeing, role, opened, confirming)
           \cup When(~(opened /\ Modal(page)), FrameOffers(Seeing, role))

(* refetchInterval: 15 s attendance and live, 20 s notifications, 30 s the *)
(* day's reconciliation; the key figures only where a page says so.        *)
Polled == {State, Today, Inbox, Live} \cup When(page \in {"admin/dashboard", "admin/live"}, {Kpis})

Answered(k, s) ==
  IF Admits(Gets[k].route, role) THEN [f \in Gets[k].shows |-> s[f]] ELSE NoData

Marked(k, marks) == \E m \in marks : IsPrefix(m, k)

(* Observers of `keys` mount: without data, invalid or - as `old` says of  *)
(* all others - past staleTime, an entry is fetched.                       *)
Mounting(keys, old) ==
  LET fetched == {k \in keys : \/ k \notin DOMAIN cache
                               \/ cache[k].data = NoData
                               \/ cache[k].invalid
                               \/ old}
      idle == {k \in fetched : k \in DOMAIN cache => ~cache[k].busy}
  IN /\ cache' = [k \in DOMAIN cache \cup keys |->
                    IF k \notin DOMAIN cache
                      THEN [data |-> NoData, invalid |-> FALSE, busy |-> TRUE]
                      ELSE [cache[k] EXCEPT !.busy = @ \/ k \in fetched]]
     /\ joined' = joined \ idle

(* queryClient.invalidateQueries for each of the prefixes `marks`.         *)
Invalidate(marks) ==
  LET hit == {k \in DOMAIN cache : Marked(k, marks)}
      kept == {k \in hit : cache[k].busy /\ (k \notin Mounted \/ cache[k].data = NoData)}
  IN /\ cache' = [k \in DOMAIN cache |->
                    IF k \in hit
                      THEN [cache[k] EXCEPT !.invalid = TRUE, !.busy = @ \/ k \in Mounted]
                      ELSE cache[k]]
     /\ joined' = (joined \ hit) \cup kept
     /\ transit' = IF transit # NoData /\ transit.key \in hit \ kept THEN NoData ELSE transit

-----------------------------------------------------------------------------
(* The API's states a tab may find: a decided request is like none, and    *)
(* contents start OLD.                                                     *)
Scenes ==
  {s \in [duty          : {"CLOCKED_OUT", "WORKING", "ON_BREAK"},
          timer         : {"NONE", "THIS", "OTHER"},
          task          : {"ABSENT", "TO_DO", "STARTED", "CLOSED"},
          worked        : BOOLEAN,
          correction    : {"NONE", "PENDING"},
          change        : {"NONE", "PENDING"},
          contactChange : {"NONE", "PENDING"},
          document      : {"NONE", "LIVE", "REQUESTED"},
          account       : {"ABSENT", "PENDING", "ACTIVE"},
          creating      : BOOLEAN,
          accountRole   : {"EMPLOYEE"},
          title : {"OLD"}, history : {"OLD"}, profile : {"OLD"}, contact : {"OLD"},
          me : {"OLD"}, name : {"OLD"}, department : {"OLD"}, inbox : {"OLD"}] :
     /\ s.timer # "NONE" => s.duty = "WORKING"
     /\ s.timer = "THIS" => s.worked
     /\ s.worked => s.task # "ABSENT"}

(* A tab that has been open on a page for a while.                         *)
Init ==
  /\ role \in Roles
  /\ page \in Routes(role)
  /\ opened \in BOOLEAN
  /\ server \in Scenes
  /\ cache = [k \in Mounted |-> [data |-> Answered(k, server), invalid |-> FALSE, busy |-> FALSE]]
  /\ opened => CanOpen(page, Seeing, role)
  /\ confirming = FALSE
  /\ transit = NoData /\ click = NoData
  /\ mine = {} /\ joined = {}
  /\ left \in Budgets

-----------------------------------------------------------------------------
Visit ==
  /\ left.visits > 0
  /\ \E p \in Routes(role) \ {page}, old \in Ages :
       /\ page' = p
       /\ Mounting(PageQueries(p, role, FALSE), old)
  /\ opened' = FALSE /\ confirming' = FALSE
  /\ mine' = {}
  /\ click' = IF click = NoData THEN NoData ELSE [click EXCEPT !.here = FALSE]
  /\ left' = [left EXCEPT !.visits = @ - 1]
  /\ UNCHANGED <<server, role, transit>>

OpenDrawer ==
  /\ ~opened
  /\ left.visits > 0
  /\ CanOpen(page, Seeing, role)
  /\ opened' = TRUE
  /\ \E old \in Ages :
       Mounting(PageQueries(page, role, TRUE) \ PageQueries(page, role, FALSE), old)
  /\ left' = [left EXCEPT !.visits = @ - 1]
  /\ UNCHANGED <<server, role, page, confirming, transit, click, mine>>

CloseDrawer ==
  /\ opened
  /\ opened' = FALSE
  /\ UNCHANGED <<server, role, page, confirming, cache, transit, click, mine, joined, left>>

Poll(k) ==
  /\ k \in Mounted \cap Polled
  /\ \A q \in Mounted \cap Polled : ~cache[q].busy
  /\ cache' = [cache EXCEPT ![k].busy = TRUE]
  /\ joined' = joined \ {k}
  /\ UNCHANGED <<server, role, page, opened, confirming, transit, click, mine, left>>

Answer(k) ==
  /\ transit = NoData
  /\ k \in DOMAIN cache /\ cache[k].busy
  /\ transit' = [key |-> k, data |-> Answered(k, server)]
  /\ UNCHANGED <<server, role, page, opened, confirming, cache, click, mine, joined, left>>

(* A query that fails keeps the data it had.                               *)
Arrive ==
  /\ transit # NoData
  /\ cache' = [cache EXCEPT ![transit.key] =
       IF transit.data = NoData
         THEN [@ EXCEPT !.busy = FALSE]
         ELSE [data |-> transit.data, invalid |-> FALSE, busy |-> FALSE]]
  /\ transit' = NoData
  /\ UNCHANGED <<server, role, page, opened, confirming, click, mine, joined, left>>

Click ==
  /\ click = NoData
  /\ left.clicks > 0
  /\ \E offer \in Offered :
       click' = [op |-> offer.op, marks |-> offer.marks, here |-> TRUE, answer |-> "none"]
  /\ left' = [left EXCEPT !.clicks = @ - 1]
  /\ UNCHANGED <<server, role, page, opened, confirming, cache, transit, mine, joined>>

(* The API runs the request; clocking out without confirmation asks first  *)
(* when something runs.                                                    *)
Execute ==
  /\ click # NoData /\ click.answer = "none"
  /\ LET served == Serves(click.op, server, role)
         result == IF served THEN After(click.op, server, role) ELSE server
         changed == {f \in DOMAIN server : result[f] # server[f]}
     IN /\ server' = result
        /\ mine' = {m \in mine : m[1] \notin changed} \cup When(click.here, changed \X {click.marks})
        /\ click' = [click EXCEPT !.answer =
             IF ~served THEN "refused"
             ELSE IF click.op = "clockOut" /\ changed = {} THEN "requiresConfirmation" ELSE "done"]
  /\ UNCHANGED <<role, page, opened, confirming, cache, transit, joined, left>>

ClickArrives ==
  /\ click # NoData /\ click.answer # "none"
  /\ IF click.answer = "done" THEN Invalidate(click.marks)
                              ELSE UNCHANGED <<cache, joined, transit>>
  /\ confirming' = CASE click.answer = "requiresConfirmation" /\ click.here -> TRUE
                     [] click.answer = "done" /\ click.op = "confirmClockOut" -> FALSE
                     [] OTHER -> confirming
  /\ click' = NoData
  /\ UNCHANGED <<server, role, page, opened, mine, left>>

(* "Cancel" beside "Stop and clock out".                                   *)
CancelClockOut ==
  /\ confirming
  /\ confirming' = FALSE
  /\ UNCHANGED <<server, role, page, opened, cache, transit, click, mine, joined, left>>

(* Anybody else, or the same user elsewhere, has a request served.         *)
Others ==
  /\ left.others > 0
  /\ \E r \in Roles : \E o \in Range(Ops(server, r)) :
       /\ Admits(o.route, r) /\ o.accepted
       /\ server' = o.sets ++ server
  /\ mine' = {m \in mine : server'[m[1]] = server[m[1]]}
  /\ left' = [left EXCEPT !.others = @ - 1]
  /\ UNCHANGED <<role, page, opened, confirming, cache, transit, click, joined>>

Next ==
  \/ Visit
  \/ OpenDrawer
  \/ CloseDrawer
  \/ \E k \in Mounted \cap Polled : Poll(k)
  \/ \E k \in DOMAIN cache : Answer(k)
  \/ Arrive
  \/ Click
  \/ Execute
  \/ ClickArrives
  \/ CancelClockOut
  \/ Others

Spec == Init /\ [][Next]_vars

-----------------------------------------------------------------------------
Agrees(k) == cache[k].data = Answered(k, server)

Settled == click = NoData /\ \A k \in Mounted : ~cache[k].busy

(* OffersAreServed: when nothing is under way and a page shows what the    *)
(* API holds, every control it offers is one the API serves - the buttons' *)
(* conditions, the role checks of the pages and the navigation say what    *)
(* the guards and the services say. Not so, and excepted by name: the      *)
(* status select, which offers every status; Resume for a started task the *)
(* person never worked on; the clock-out question when somebody clocked    *)
(* the person out meanwhile; an auditor's profile page.                    *)
Excepted(op) ==
  \/ op \in StatusChoices
  \/ op = "resume" /\ ~server.worked
  \/ op = "confirmClockOut" /\ server.duty = "CLOCKED_OUT"
  \/ role = "AUDITOR" /\ page = "profile" /\ op # "updateMe"

OffersAreServed ==
  Settled /\ (\A k \in Mounted : Agrees(k))
    => \A offer \in Offered : Excepted(offer.op) \/ Serves(offer.op, server, role)

(* ReadYourWrites: once a click's answer is in and nothing is being        *)
(* fetched, what the page shows holds what its own controls last wrote.    *)
(* Excepted by name is what the success handlers leave out: the listings   *)
(* no mutation marks (key figures, timer history, reports, audit log); the *)
(* session list beside the corrections review; the running timer's title;  *)
(* the user's drawer after a control of the user's row; and an entry whose *)
(* very first fetch was under way when it was marked.                      *)
Forgotten(k, marks) ==
  \/ k \in {Kpis, TimerLog, Report, Trail}
  \/ k = PastSessions /\ marks = {PendingCorrections}
  \/ k = State /\ marks = TaskMarks
  \/ k = OneUser /\ marks = UserMarks

ReadYourWrites ==
  Settled => \A k \in Mounted \ joined : \A m \in mine :
    m[1] \in DOMAIN cache[k].data /\ ~Forgotten(k, m[2]) => cache[k].data[m[1]] = server[m[1]]
=============================================================================
