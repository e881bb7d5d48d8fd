# Verification of the attendance and task-time system

TLA+ modules beside the API (`src/apps/api`), the shared time mathematics
(`src/packages/shared`) and the web pages (`src/apps/web`) of the Attendance & Task
Management System. TLC checks them on small instances (`*.cfg`), TLAPS proves theorems
about them for every size (`*_proofs.tla`). `PROJECT.json` lists the components, the runs,
the mutated definitions each property was tried against, the source lines behind each
definition, the hazards and the theorems.

## 1. Inventory

The API is one NestJS process (any number of replicas) over one PostgreSQL database. It
keeps no state of its own between requests: a handler awaits one Prisma call after another,
and between two calls any other request may run. There is almost no locking. What holds
concurrent requests apart is

* three partial unique indexes (one open attendance session per user, one running timer per
  user, one active break per session), which refuse a write at its commit, and
* `prisma.$transaction([...])`, always in its array form: several updates *by id* applied as
  a whole, decided upon before the transaction starts.

| Component | State | Operations that change it | What makes it correct |
|---|---|---|---|
| Attendance sessions (`attendance.service.ts`) | `attendance_sessions` | clockIn, clockOut | one open session per user; clock-out closes the timer and the break (BR-002, BR-007) |
| Breaks (`breaks.service.ts`) | `break_records`, session status | startBreak, endBreak | a session is ON_BREAK exactly while a break of it is active; the timer stops for a break (BR-005, BR-006) |
| Task timer (`task-timer.service.ts`) | `task_time_entries`, task status | start, resume, pause, stop, switchTask | one running timer, only while working; segments never overlap; closed segments are final (BR-003, BR-004, BR-009) |
| Tasks (`tasks.service.ts`) | `tasks` | create, update | a completed task is not being timed; only an administrator reopens one |
| Corrections (`corrections.service.ts`) | `correction_requests` and the three tables above | request, decide, adminDirectCorrection | decided once; the original times stay on the audit trail (BR-012); an end finishes the record; segments stay apart |
| Reconciliation (`time-math.ts`, `reconciliation.service.ts`, `use-reconciliation.ts`) | none | none: sums and gaps over the three tables | every minute is counted exactly once (BR-009, BR-010, and BR-008 as the code computes it: see section 3), in the API and on the page |
| Documents (`documents.service.ts`) | `user_documents` and a blob per document | upload, requestDeletion, remove | a listed document has its bytes; deleted bytes go; one pending request per document |
| Document deletion requests | `document_deletion_requests` | decide | decided once, with the removal done |
| Audit log (`audit.service.ts`) | `audit_logs` | record | replayed, it gives the accounts, the profile sections (account numbers masked) and the original times as they were |
| Profile changes (`profile-changes.service.ts`) | `profile_change_requests`, `employee_profiles`, `emergency_contacts` | request, decide, adminDirectUpdate | one pending per section; what is rejected is never in force; a column holds what the last approved form that names it gave it; the masked audit rows lead to what the section holds |
| Accounts (`users.service.ts`, `auth.service.ts`) | `users` | register, approve, reject, adminUpdate, createOne, bulkImport, forgotPassword | an import reports what it did; the audit rows replay to the accounts |
| Sessions and tokens (`auth.service.ts`, `tokens.service.ts`) | `refresh_tokens`, `password_reset_tokens` | login, refresh, logout, resetPassword | rotation keeps one usable token per sign-in; a reset ends the sessions of the old password; nobody active is signed out as idle |
| Notifications (`notifications.service.ts`) | `notifications` | notifyTaskAssigned, markRead, three scheduled scans | no reminder twice, none of what was not so when it was listed, none forgotten |
| Web: API client (`api-client.ts`) | one refresh promise per tab; the cookies the tabs share | apiRequest, tryRefresh | one refresh for the requests that fail together, of which all of them hear |
| Guards (`roles.guard.ts`, `auditor-scope.guard.ts`, decorators) | none | admit or refuse a request | what a page offers a role is what the API serves it |
| Web pages and components (`apps/web/src`) | React Query's cache, the open drawer, the confirmation of My Day | mount, click, invalidate, poll | a page shows what its own controls wrote |
| Reports, dashboard, settings, departments | - | queries, upserts | as operations and answers of the pages; see section 6 |
| E-mail, seed, infrastructure | - | output | see section 6 |

How they interact: the three time services share the three time tables, each writing rows
the others read; `tasks` is read by the timer (is the task eligible?) and written by it (the
first start moves TO_DO to IN_PROGRESS), while `TasksService.update` reads the running
timers; corrections rewrite the rows of all three services under them; reconciliation and
the reports only read; the deletion queue calls `DocumentsService.remove`; every service
writes the audit log; the reminder scans, which every replica starts every five minutes, read
the three time tables and the daily summary and write `notifications`. Profile changes hang
from the accounts they belong to. Every request passes the JWT strategy, which looks at the
account's status but not at the refresh tokens. The browser holds the cookies; each tab has
its own script, its own refresh promise and its own cache of what the API answered.

What is hard here: two requests of one user in flight at once (two tabs, a double click, a
retry after a timeout) while each handler acts on what it read; an administrator's decision
served twice, or beside the user's own requests; a process that stops between two calls of
a handler that has no transaction; the database and the object store, which no transaction
spans; stamps read with `new Date()` at a moment that is neither that of the read nor that
of the commit; a refresh whose answer is overtaken by a logout or a new sign-in; a page whose
cached data is answered before, and arrives after, the change its own button made.

## 2. Modules

```
TimeRecords            the three tables, the queries, the rows written, what "consistent" means
 |- WorkDay            what the time services promise: one request, one step
 |   `- WorkDay_proofs         (and Reconciliation)
 |- WorkDayRequests    the same services (and tasks.update), one database call per step;
 |   |                 Day == INSTANCE WorkDay
 |   `- WorkDayRequests_proofs
 |- Reconciliation     sums, daily summary, timeline gaps: functions of the tables
 |   `- Notifications  the reminder scans, one call per step, beside WorkDay (Day == INSTANCE WorkDay)
 |       `- Notifications_proofs
 `- Corrections        what CorrectionsService promises, beside WorkDay (Day == INSTANCE WorkDay)
     `- CorrectionRequests   the same, one call per step; Promise == INSTANCE Corrections
         `- Corrections_proofs       (both)
Documents              documents, blobs, deletion requests, one call per step
 `- Documents_proofs
Sessions               sign-in, refresh, logout, reset on the server; the API client in the browser
 `- Sessions_proofs
Accounts               registration, creation, import, approval, changes of accounts, one call per step
 `- ProfileChanges     the profile sections and their change requests, in the slots of Accounts
     `- ProfileChanges_proofs        (both)
WebApi                 routes, roles, what each GET shows and each request needs and does
 `- Pages              per page: its queries, its controls and what they mark stale
     `- WebTab         one tab: React Query's cache between the pages and the API
         `- WebTab_proofs
MC*                    symmetry sets and the small sets of inputs of the runs
```

**TimeRecords.** A table is a function from ids to rows; an id not inserted yet has status
"ABSENT". Rows are never deleted. Ids are model values: the proofs place no bound on their
number. A `null` stamp is `NoStamp = -1`, below every real one. `now` is the server's clock.
The consistency conditions (`OneOpenPerOwner`, `SegmentsApart`, `WithinSession`, ...) are
stated here once and used by every module above.

**WorkDay** (abstract). Actions `ClockIn`, `ClockOut`, `StartBreak`, `EndBreak`, `StartTimer`
(start and resume), `StopTimer` (pause and stop), `SwitchTask`; each is the handler with its
checks, its writes and one server stamp. Requests that are refused change nothing and are
not actions. Whether a *task* may be timed is left to WorkDayRequests: here any task may be
eligible. `Serve(u)` lets a request take effect with a stamp that was read earlier
(`StampFor`): no later than `now`, no earlier than anything on the user's record. That is
what a request served alone does, because `new Date()` is evaluated before the commit.

**WorkDayRequests** (detailed). `pc[r]` is the next database call of the request in slot
`r`, `req[r]` its input, `got[r]` what it has read. Each label is one awaited call: the
queries (`FindSession`, `FindTimer`, `FindTask`, ...) copy what they found into `got`; the
last step writes. A `$transaction([...])` is one step of blind updates by id. A write that
breaks a partial unique index is refused (`OtherOpen`; P2002 answered as 409). `Stamps(r)`
is the set of times `new Date()` can have returned: from the last answer to the commit.
`Lost(r)` ends a request at any point: a dropped connection, a stopped process, or a
transaction PostgreSQL aborts to break a lock cycle. `TasksService.update` is modelled as
far as status and assignee go. `Spec` lets anything interleave; `SerialSpec` serves one
request of a user at a time, and no update of a task beside another request naming it.

**Reconciliation.** `calculateBreakMinutes`, `calculateNetWorkingMinutes`,
`calculateTaskMinutes`, `reconcile`, the sessions and the timeline of a day, the break
column of the attendance report, and `computeTimelineGaps`, with the names of the source.
A tick stands for a minute; fractions, rounding and the tolerance of -0.01 for them are left
out, and all `new Date()` of one computation read the same `now`. The page's merge of sorted
intervals with a cursor is written as a set: the gap before a start `t` begins where the
events that start before `t` end.

**Corrections** (abstract). `RequestCorrection`, `Approve`, `Reject`, `DirectCorrection`, each
with its audit row, beside `Work(u)`, any request of WorkDay. A proposal is any pair of
stamps, either of which may be missing; the schema compares nothing, so an end may lie before
its start or in the future. `Overlaps` is `assertNoOverlap` with its two conditions: only
segments are compared, and only when both ends are known.

**CorrectionRequests** (detailed). The calls of `request`, `decide` and
`adminDirectCorrection`, none of them in a transaction. `overwritten` is a history variable:
the intervals that corrections have replaced. `SerialSpec`: no handler is lost between its
first write and its last, and a user's records are touched by one request at a time.

**Documents.** `UploadBlob` then `UploadCreate`; `requestDeletion` with its look for a
pending request; `remove` as mark, delete the blob, resolve the pending requests; `decide`,
which calls `remove` when it approves. `Lost(r)` may follow any call. The inserts of audit
rows are left out: to be lost at one is to be lost at the call that follows it. `SerialSpec` serves
one request about a document at a time and loses no removal after its row is marked.

**Notifications.** `run[r]` is one run of `runReminderScans`: the scan it is in, the rows that
scan has listed and not yet treated, the key it is about to use. `List` is the query of a scan,
`Find` the look for an earlier notification (for a timer, one within the cooldown), `Summary`
the call of `getDailySummary`, which is `reconcile` of the module Reconciliation, `Create` the insert.
`listedAt` remembers, of a run and of the rows it inserts, when it listed what it reminds of.
Several runs overlap: the API runs on up to three replicas (`infra/main.bicep`), each with its
own schedule, and the schedule does not wait for a run that has not ended. `Lost(r)` ends a run
anywhere, since nothing in it is caught. `Others` is the working day, each request in one step;
corrections, which may change a day after its reminder was sent, are not composed here.

**Sessions.** One account in one browser. On the server: `Login`, `ValidateCredentials` and
`IssueSessionTokens`; the refresh as four calls (`VerifyRefreshToken`, `RefreshCheckUser`,
`RotateRevoke`, `RotateIssue`); `Logout`; the password reset, whose revocation of the refresh
tokens follows its transaction; a change of the account's status; `Validate`, the JWT strategy
at a request. In the browser: `Send`, `Answer`, `TryRefresh` and the shared `refreshPromise`;
cookies are set when an answer *arrives*, so answers that overtake one another are part of
the model. `RefreshLost`: a refresh whose answer, or whose handler, is lost. A row of
`refresh_tokens` carries the login it descends from and three history fields the properties
read: the password it was obtained with, how long its session had been idle when it was
revoked, and `spared`: past its checks when the reset revoked. Registration and the links that
start a reset are in Accounts.

**Accounts.** Register, createOne (also per row of a bulk import, from the sheet with its parse
errors to the report), approve, reject, adminUpdate and forgotPassword. `user` is the table with
its unique index on e-mail, `told` is what the audit log, read row by row, says an account's
fields are, and `gap` holds the accounts with an audit row whose "before" is not what the row
before it said. `muddled` holds the accounts whose requests overlapped or broke off: the
services promise nothing about the trail of those, and the property says so by name.

**ProfileChanges** extends Accounts and shares its slots: request, decide and adminDirectUpdate
as their calls, with the before and after a handler reads around `applyChange`. A form names some
of the columns of its section. `ApplyChange` merges it into the row as the upsert does
(`Upserted`), or fails with nothing written where Prisma would (`Accepts`: a column it does not
know, a required one left null), and `AuditApplied` records what `maskProfileData` leaves
(`Masked`). `latest` merges the forms in the order of their approval, for comparison. `overlap`
notes which kinds of requests for a section overlapped or broke off, and which columns a form
was written to while another one written before it was not approved yet; each property names
what of that the code does not survive.

**WebApi** is the API as the pages see it: for each operation its route, which `RolesGuard` and
`AuditorScopeGuard` read, what state it needs (`Serves`) and what it does in one step, and for
each query key what its GET shows. **Pages** is one block per page of the web application: the
queries it mounts, the controls it offers on the data it has, and the key prefixes their success
handlers invalidate. **WebTab** is one tab: fetches (begun, answered, arrived), clicks (sent,
executed, answered), navigation, polling, and changes made elsewhere. React Query is external
and modelled from how the pages use it; `mine` records what this page's own controls wrote.
A behaviour starts on any page of any role with any state of the API (`Scenes`) and has a budget
of visits, clicks and changes made elsewhere; whatever else bounds the run is in MCWebTab
(`MCInit`, `MCNext`): the theorems are about `Spec`, without those bounds.

## 3. What the runs check

Passing runs:

| Run | Specification | Asks |
|---|---|---|
| `work_day` | WorkDay | Is the record of a user consistent after every request (`TimerOnlyWhileWorking`, `OnBreakMeansActiveBreak`, `SegmentsApart`, `SegmentsOutsideBreaks`)? Is finished history left alone (`HistoryIsFinal`)? Do sums, attendance report and timeline gaps count every minute once (`Reconciled`, `GapsAreIdleTime`)? |
| `requests` | WorkDayRequests, `Spec` | What survives *any* interleaving of two requests of one user and any loss: `OneOpenPerOwner` (because of the indexes alone), `EndMeansClosed`, `StampOrder` |
| `serial` | WorkDayRequests, `SerialSpec` | With one request per user in flight, do the handlers implement WorkDay (`ServesWorkDay`), write no row under another user's session (`OwnersAgree`), time no completed task (`CompletedTaskNotTimed`), and does only an administrator reopen one (`OnlyAdminReopens`), whatever other users do? |
| `corrections` | Corrections | `OneOpenPerOwner`, `OriginalsKept` (BR-012), `CorrectedApart`, for any proposal beside the working days of two users |
| `corrections_serial` | CorrectionRequests, `SerialSpec` | Do the calls implement Corrections (`KeepsPromise`) when segments can overlap and two users' requests interleave? Is no original lost (`OriginalsOnRecord`), no request decided twice (`DecidedOnce`)? |
| `documents` | Documents, `SerialSpec` | Has every listed document its bytes (`LiveHasBlob`)? Is one request pending at most (`OnePendingEach`), decided once (`DecidedOnce`), and resolved when its document goes (`PendingResolved`, liveness)? Do deleted bytes go (`PurgedAtOnce`)? |
| `notifications` | Notifications, `FairSpec` | With two runs that overlap and are lost anywhere: is nobody reminded of one thing more often than runs overlap (`AtMostOnePerRun`)? Was every reminder true when its run listed the row, and is what it says of a day so ever after (`RemindersTrue`)? Is somebody who stays clocked in reminded in the end (`RemindedInTheEnd`, liveness)? |
| `sessions` | Sessions | Do requests that fail together share one refresh (`OnePresentation`), and does each of them hear of it (`WaitersAreHeard`)? Has a sign-in one usable token, unless two refreshes verified the same one (`RotationLinear`)? Is nobody thrown out as inactive who was served within the window less an access token's life, unless two refreshes verified one token of the sign-in (`InactiveMeansIdle`)? Does a reset end every session of the old password but those already past their checks (`ResetEndsSessions`)? |
| `user_records` | ProfileChanges (with Accounts) | Does an import report what it did (`ImportReports`)? Does the audit log replay to the accounts (`TrailExplains`) and, masked, to the sections, and does a column hold what the last approved form that names it gave it (`HistoryExplains`)? One request per section (`OnePendingPerSection`), nothing rejected in force (`RejectedNeverApplied`)? Each with the overlaps and failures it does not survive in its statement. |
| `web` | WebTab, `MCSpec` | Are the controls a settled and current page offers ones the API serves (`OffersAreServed`)? Does a page, once a click is answered, show what its own controls wrote (`ReadYourWrites`)? |

Runs that TLC refutes, each a statement of the repository the code does not keep:

| Run | Statement | Counterexample |
|---|---|---|
| `race_timer_on_break` | `TimerOnlyWhileWorking`: a timer is started "clocked in & not on break" | start reads the session as ACTIVE; startBreak looks for a timer, finds none and commits; start inserts its segment. The timer runs through the break. |
| `logout_undone` | `LogoutInvalidates`: "Logout invalidates the session", "protected endpoints are unreachable after logout" | a refresh has replaced its token when logout arrives with the old one; logout revokes that and clears the cookies; the answer of the refresh comes last and sets the cookies of a token nobody revoked |

The same kinds of behaviour break further statements, which are not kept as runs of their
own. Under `Spec` of WorkDayRequests: a break started beside a clock-out stays ACTIVE in a
completed session; endBreak beside a clock-out sets a completed session back to ACTIVE; of
two stops that read the same running timer the second moves the end of a closed segment,
possibly past the start of the next one; a timer started beside `update` runs on a completed
task; an update decided on an old status reopens a finished task. Under Corrections: an end
given to an open session leaves its break ACTIVE, and an end given to the active break
leaves the session ON_BREAK, where endBreak finds nothing to end. Under `StepSpec` of
CorrectionRequests: two decisions served together both succeed; two approvals check their
overlap before either is applied; a decision lost between its update of the record and its
audit row leaves no trace of the original interval (against BR-012, `DATA_RETENTION.md`).
A correction of the start alone of a running segment may cover a closed one, since the overlap
check is skipped without an end (`corrections.service.ts`, line 259). Under `Spec` of Documents: two deletion requests of one
document are both inserted; one is inserted after remove has resolved the pending ones; a
removal lost before it reaches the object store leaves bytes that no later call removes. In
Notifications, "One notification per session, ever" (above `scanMissingClockOuts`) is not kept
when two runs overlap: both look, both find nothing, both insert. `AtMostOnePerRun` is what is
left of it, and with one run it is that statement. A reminder can be out of date when it is
inserted: "You've been clocked in for over ..." is sent to somebody who clocked out after the run
listed the session, and likewise of a timer, since nothing looks at the row again before the
insert (line 142). `RemindersTrue` says that this is all there is to it: what a reminder says was
so at `listedAt`, so whoever finds it untrue clocked out, or stopped the timer, after that.

Others are exceptions the properties name, or lie beside what they say:

* BR-008 (`time-math.ts`, line 32) has net working time as "attendance elapsed time - eligible
  completed break time", and `time-math.test.ts` tests completed breaks only (lines 5 and 26). The
  code subtracts an active break too, as far as it has gone (`b.end ?? new Date()`, line 27): during a
  break the net time stands still, where by the words of the rule it would go on and fall back
  when the break ends. `Reconciled` is about the code; with no break active the two agree.
* Sessions: a reset link presented twice at the same moment passes its check twice
  (`auth.service.ts`, line 222); the shell takes any failure of `users/me` for an expired session
  (`app-shell.tsx`, line 113).
* Two refreshes of one token that are both verified before either revokes each issue a
  token; both stay usable.
* Accounts: two approvals, or an approval beside a rejection, both pass the check of
  PENDING; `adminUpdate` audits the values it read first. ProfileChanges: two decisions of one
  change, and an approval that breaks off after the form was written, which may then be
  rejected. Two forms that name one column and are written before either is approved leave it
  as written last, which need not be as approved last. The audit log cannot tell two account
  numbers with the same last four digits apart. `schemas.ts`, line 287, says that the server
  re-validates a proposed change; `applyChange` casts it (`profile-changes.service.ts`, line 199).
* Pages: Resume is offered for a started task the person never worked on, and refused; the
  confirmation of the clock-out stays open after somebody else clocked the person out; an
  auditor's `/profile` page loads queries the API refuses, although the comment in `app-shell.tsx`
  (line 79) says the navigation shows what is authorised; the task-time tab of the reports asks an
  auditor's API for tasks and is refused.
* Queries a success handler leaves stale: key figures, timer history, reports and the audit
  log after anything; the session list beside a decided correction; the running timer's title
  after a task is renamed; a user's drawer after a control of the user's row; and an entry
  whose very first fetch was under way when it was marked.

Each of the first group can be reproduced by putting the property named in `PROJECT.json` under "hazards"
into a configuration with that specification.

Every property of a passing run was tried against a mutated definition (operators whose
comment says "mutant"), which makes TLC report that property. Mutants are never part of a
specification.

### Bounds, and why they are enough

* Ids. Two users where one must not touch the other's rows, one where all that matters is
  one record. Two sessions, so that one may be completed while another opens; two
  or three segments, so that one may be closed and another running or corrected over it; one or
  two breaks. Every consistency condition relates at most two rows of a table, so two ids
  of a kind show its violation and a third lets it be reached after history has built up.
* Requests in flight. Two, and two runs of the scans. The races of this code are between a read
  and a write of one handler and the write of another.
* `MaxTime` is 1 to 4 ticks, 0 where stamps do not matter (`serial`, `race_timer_on_break`). A tick is the
  unit at which two stamps differ; equal stamps are allowed, so the boundary cases (an
  interval of length zero, an end equal to the next start) occur. `DayLength = 2` with
  `MaxTime = 3` puts sessions on two days, and one across midnight. In `notifications` the
  thresholds are two ticks and the cooldown is one, so that a session passes from young to
  overdue, may be closed between list and insert, a day from today to yesterday to past its cutoff hour, and a timer is reminded of
  a second time, all within three ticks. One user with one session, one segment and no break
  is enough there: keys of different rows never meet.
* `Proposals`: every pair of stamps or missing stamps in `corrections`; ends only where
  CorrectionRequests multiplies the states.
* `RacingKinds` in `requests` leaves out pause and stop, whose one write is switch's first half,
  resume, which is start after one more read, and update, which writes no record of time.
  `serial` has all kinds with two users, of whom one is an administrator, and one task. With one
  task the write of a switch is never reached there: that it implements WorkDay's is shown by
  the theorem `ServedInTurn`, and that it keeps the invariants by `requests`, which has two tasks.
* `sessions`: one tab with two requests beside the refresh, one of them the shell's `users/me`;
  three tokens, two refreshes, two events (sign-in, sign-out, reset, change of status). An
  access token lives one tick, the inactivity window is two and a refresh token lives three,
  so each of the three ends before the next, within `MaxTime = 4`. The five
  properties are proved for any number of tabs. With two tabs `InactiveMeansIdle` needs its
  exception: both refresh one token, one branch goes on being served, the other ends as inactive.
* `user_records`: two accounts and two e-mail addresses, three requests in two slots, one section
  of two columns, `bankAccountNumber` and one that is not masked, two change requests, and four
  forms: one names both columns, two name one each, one of these with null, and one names a column that
  does not exist. All account numbers are masked to the same value, the worst case for the audit
  log, and no column is required, as in `EmployeeProfile`; two sheets, with an empty cell, an invalid row, an unknown
  department and an address that occurs twice.
* `web`: a behaviour has a visit and a click, a click and a change made elsewhere, or a change alone
  (`MCBudgets`), and entries past their `staleTime` are left out (`Ages = {FALSE}`). `MCInit` varies
  the fields the page's own queries show, and lets a click and a change meet on My Day only;
  in `MCNext` a visit goes to a page with controls of its own that shares a query, other than the
  frame's, with what is cached, and a change is to something shown. The theorems about WebTab hold without any of these.
  Bounds of the model itself, which the theorems share: one answer is in transit at a time, one
  key is polled at a time, and an administrator's own attendance, corrections and profile pages,
  which are the employee's, are left out.
* Once the ids run out, requests that would insert are disabled. `CHECK_DEADLOCK FALSE`
  is set where the bound itself ends a behaviour: the clock and ids of `work_day` and `corrections`,
  the tokens of `sessions` and `logout_undone`, the requests of `user_records`, the budget of
  `web`. The other specifications of handlers can always receive another request.
* Symmetry is declared for ids the specifications never compare except for equality;
  never in a run with a liveness property.

### Fairness

`PendingResolved`: `StepsGoOn` is weak fairness of the next call of every slot. A call the
handler awaits is answered, so a handler that has begun goes on to its end; that is what Node
does with a promise that settles. Nothing makes a client send a request, so no fairness is
assumed of `Receive`. With `SerialSpec` a request may still be lost, but no removal after its
row is marked: one that is lost there leaves its request pending.

`RemindedInTheEnd`: the schedule keeps firing (`WF_vars(Begin(r))`, `@Cron(EVERY_5_MINUTES)`), a
run that has begun goes on (`WF_vars(Step(r))`), and from some time on no run is lost. Without
the last, every run could fail before its first insert. Nothing makes users or the clock move:
the property starts from a session that is already overdue.

No liveness is checked of the pages: that a poll refreshes a page in the end multiplies the
states of `web` beyond the time a run has.

## 4. What is proved

All theorems hold for every value of the constants, under the named assumptions of the
modules: the null id is not an id (`NoneAssumption` and its kin), `MaxTime \in Nat` and a day has
a length, administrators are users, the runs of the scans are finitely many, the settings are
natural numbers, a sheet is a sequence of cells, a change of an account a record of fields
(`FormAssumption`), and a profile form gives a column a value a column may hold (`ColumnsAssumption`).
A property is seldom inductive as it stands; each module names the invariant that is.

**`WorkDay_proofs`.** `Consistent` (`Spec => []IInv`) and from it `TimerImpliesWorking`,
`NoOverlap`, `WorkOutsideBreaks`, `BreakFound`, and `HistoryKept` (`Spec => HistoryIsFinal`).
That segments do not overlap needs that a user has one running segment (`OneOpenPerOwner`), that
nothing recorded lies in the future (`StampsPast`) and that an open row has no end
(`EndMeansClosed`); that a break has no work in it needs `TimerOnlyWhileWorking`, which needs
`OnBreakMeansActiveBreak` and one open session per user. There is one lemma per action and in it
one step per conjunct the action disturbs.
`EveryMinuteCounted` (`Reconciled`, active breaks included as the code does) and `GapsAreIdle`
(`GapsAreIdleTime`) say of Reconciliation what a sum comes to. They need `DayIInv`: also that the breaks of a session and the sessions of
a user lie one after the other, and that the rows of a record are finitely many. The sum of
disjoint intervals is then the size of their union (`SumOfSizes`), and the rest is counting. The
library's sum is a fold: a recursive function, for which the prover has no induction over finite
sets at hand. A minimal counterexample serves instead: if a function that satisfies the fold's
equation differed from it, it would differ on a smallest subset (`SumUnique`), by the
well-foundedness of the natural numbers applied to cardinality.
Of the timeline it is shown that the gaps of an attendance event are exact whatever intervals
within it are covered, in any overlap (`FlushedIdle`), and that the page, which goes by time alone, makes an event cover
just the rows of its own session (`CoversItsOwn`): an earlier session of the day is over when the
next starts.

**`WorkDayRequests_proofs`.** `Coherent` (`Spec => []IInv`) for any interleaving and loss, any
number of requests in flight. Here `IInv` says what a handler's reads are still worth when
it writes: the rows it read exist, belong to its user and began no later than the stamp
to come (`SlotAgrees`); what may have changed is their status and their end. From it
`OneOpenAlways` (the indexes suffice, without any check of the handlers),
`OwnersAlwaysAgree`, `EndAlwaysMeansClosed`, `StampsInOrder`. The key lemma is
`OthersAgree`: a write keeps the other slots' reads good, because rows are never deleted,
change no owner and no start.
`ServedInTurn` (`SerialSpec => ServesWorkDay`) is the refinement: each write does in one step what
WorkDay says of its request, and every other step of a handler changes no record. Its invariant
`Serving` adds what a handler's reads say *now* (`Still`: its session still has the status it was
found with, the break and the timer it found are all there are, no stamp on the user's record is
later than the one to come). It is kept because a request touches rows of its own user only
(`TouchesOnly`) and two requests under way belong to two users (`OneEach`).
`TasksKnown` (`TaskIInv`) does the same for tasks, of which `CompletedUntimed` and `AdminReopens`
are consequences: an update is apart from whatever names its task (`UpdatesApart`), every
other request writes no task but its own, starts no timer but on it and finishes none
(`OwnTaskOnly`).

**`Corrections_proofs`.** Of Corrections: `Typed`, `OneOpenStays` (`OneOpenPerOwner`),
`OriginalsStay` (`OriginalsKept`) and `CorrectionsApart` (`CorrectedApart`). The invariant of WorkDay
is lost under corrections: an end may precede its start, a completed session may keep an active
break. What is left and inductive is `Sound` (types, an active break hangs from a session that is
ON_BREAK or COMPLETED, entries have a start, one open record per owner) with `TargetsRecorded`: a
request's target is on record. The last two are properties of a step: one that changes an interval
also inserts an audit row with the old one, and one that leaves a segment with both ends has
looked at all the others of its user.
Of CorrectionRequests under `SerialSpec`: `SerialReadsHold`, with `SlotKnows`, what a handler still
knows at each of its calls (the target's interval, that nothing overlaps, that the request is
pending) and `OnRecord`: an interval that was replaced is on the audit trail or in the hands of
the handler that will put it there. From it `ReplacedOnRecord` (`OriginalsOnRecord`), `DecisionsStand`
(`DecidedOnce`), and `PromiseKept` (`KeepsPromise`): every call is a step of Corrections or a stutter,
with the request and the audit row of a handler that has changed its record counted as written.

**`Documents_proofs`.** `DocumentsConsistent` (`Spec => []IInv`) and `ListedCanBeDownloaded`
(`Spec => []LiveHasBlob`), with losses at every call: an upload under way owns its id and has stored
its bytes before its row, and whoever purges bytes has marked the row first. Under `SerialSpec`:
`SerialReadsHold`, of which `OneRequestPending` (`OnePendingEach`), `NothingLingers` (`PurgedAtOnce`)
and `DecisionsStand` (`DecidedOnce`) are consequences. A slot that has looked for a pending request
and found none still has none; one that decides on a request finds it as it read it; a document
marked as removed and still in the store has a slot that will purge it (`LingeringServed`). Each
step is shown to be one `Elsewhere` for every other slot: it touches no request about the other's
document.

**`Notifications_proofs`.** `ScansBounded` (`Spec => []IInv`) and `RemindersBounded`
(`AtMostOnePerRun`), for any number of overlapping runs, with losses at every call
and whatever users do. `IInv` counts, with the notifications under a key, the runs that have found
none and are about to insert one. A run that becomes such a holder has just seen that nothing
blocks the key, so the holders alone count, and they are no more than the runs; an insert turns
a holder into a notification.
`RemindersStayTrue` (`RemindersTrue`) rests on `TruthIInv`: every key a run has yet to look at or
holds was rightly listed (`Due(k, listedAt)`), what it is about to insert is enough, and what was
inserted is still both. That a session was open at `listedAt` stays so, since the request that
closes it stamps it with a later time and nothing changes its start or its end again. Enough stays
enough, since of a day that is past and has only completed sessions no row is written again, and
no new session can begin in it: the sum that was enough is a sum of the same rows. The module
needs of the records only `Settled` (what is still going on belongs to an open session and has
no end, what is over has one), shown of all actions of WorkDay at once.

**`Sessions_proofs`**, for any number of tabs, calls, tokens and refreshes. `NobodyForgotten`
(`WaitersAreHeard`): a refresh which will still answer is the one its tab waits for. `PresentedOnce`
(`OnePresentation`): a token on its way to the browser has never been there, and is on its way once.
`ResetEnds` (`ResetEndsSessions`): whatever is past its checks when the reset revokes holds a token
of the new password or is marked as spared. `RotatedInLine` (`RotationLinear`): a login that is not
`Forked` has one holder (`OneHolder`), a usable token or one refresh that has verified a token and will
issue the next; a revoked token is never usable again and a refresh verifies only a usable one.
`IdleWhenThrownOut` (`InactiveMeansIdle`): of such a login the usable token is the newest
(`Newest`), and no access token outlives the row it was issued with by more than its life
(`Served`), so who is idle by the row was served at most that much later. All rest on the
types and on the clock having passed whatever was read from it.

**`ProfileChanges_proofs`**, of Accounts and ProfileChanges together, for any number of accounts,
sheets, sections and requests in flight, nothing of which is serialised. `RecordsConsistent` says
how far a request has come with its account or section, in a state in which no other has
been about it: what it read, what it wrote, and which of that the audit log has been told
(`Explains`, `Midway`), and that two requests about one thing have left their mark (`Apart`,
`Tagged`). Of every column it says which slot, one at most, has written it for a form that is
still to be approved, and what the column then holds (`Merged`): to approve the form makes
`latest` agree with it, and a form that does not name the column leaves both alone. From it `ImportsReport` (`ImportReports`), `TrailsExplain` (`TrailExplains`), `OnePending`
(`OnePendingPerSection`), `RejectedStaysOut` (`RejectedNeverApplied`) and `HistoryTells`
(`HistoryExplains`).

**`WebTab_proofs`**, for any budget of visits, clicks and changes made elsewhere, and for entries
past their `staleTime`, which the run leaves out. Two thirds of it are about tables. Those of
WebApi are worked out key by key: the family, the route and the fields of every GET, the
route and the effect of every request. Of the pages it is then shown that the marks of every
control cover what it may set, wherever its page shows it (`OfferedCovered`), and that what a page
offers on data that agree with the API is served (`OffersTrue`): a table of rules for one role or
one page that is changed alone breaks the step about that page. The rest is React Query and does
not look into the pages again. `TabInvariant` (`Spec => []TabInv`) says that the page is one of the
role's, that the API runs a timer only for a person who works (`Sound`, without which the offers of
My Day are not served), that data have the fields of their GET (`CacheOK`, `TransitOK`), that the
click under way and the writes of this page are covered by their marks (`ClickOK`, `MineOK`), that an
invalid entry on screen is being fetched or was refused (`Fetching`), and that what an entry lacks
of this page's last writes is still to be marked or was marked during the entry's first
fetch, or else neither the entry nor an answer on its way to it is from before the write
(`Written`). The last is the heart: a poll answered before the write is dropped, and fetched
again, when the mark arrives, and until then the mark is itself on its way (`Answering`). From it
`OffersServed` (`OffersAreServed`) and `WritesRead` (`ReadYourWrites`).

A module states an invariant of its own (`Settled`, `Sound`) where one of WorkDay would have done:
theorems of an instance (`Day == INSTANCE WorkDay`) cannot be cited by this version of the prover.

Every other property of a passing run is a theorem. Only model-checked:

* `PendingResolved` and `RemindedInTheEnd`: liveness under fairness is out of the prover's reach.

The interleavings of two handlers of one document, and losses within a removal, are covered by
the theorems of `Documents_proofs` about `Spec`, not by a run.

## 5. Abstractions to keep in mind

* The audit row and the notification of the timer's TO_DO to IN_PROGRESS transition, the audit
  rows of documents and of reminders, the row of a profile change that is requested, and all e-mail,
  are left out. The rows of corrections are modelled as a set, those of accounts and profile
  sections as what they say in order. The rows of register and createOne name the e-mail
  and the status or the role only, those of approve and reject no before and after.
* Reasons, notes, titles, file contents, IP addresses and wording are left out.
* The database answers a query from one committed state (READ COMMITTED, one statement).
* A handler reads its clock somewhere between its last answer and its commit; the clock
  never goes back.
* Who may call an endpoint (role guard, ownership) is a guard of the action that receives
  the request.
* Read-only endpoints are not actions, except that a page shows their answers (`WebApi`).
* In `WebApi` a handler is one step, the one that decides: how its calls interleave is the
  subject of the modules of the services.
* What a column of a profile section may hold is a small set, the masked part of an account number
  some function of it (`lastFour`); a password, a file and a link are whether they
  are there.

## 6. Not modelled

* E-mail: pure output that never throws; nothing reads what it sent.
* `notifyTaskAssigned` and `markRead` as calls: single writes that no scan reads. `TasksService.create` and
  the fields of `update` other than status and assignee, likewise; the pages have them as
  operations.
* The numbers of the dashboard and of the reports other than the attendance report, and the export: queries and
  formatting. Settings and departments: upserts of single rows; the settings that matter are
  constants of Notifications, Accounts and Sessions, and saving them an operation of a page.
* `updateOwnProfile`: three fields no property is about.
* Request schemas beyond what the handlers tell apart. Rate limits and headers.
* Of the web application: form fields and their validation, filters, sorting and paging on the
  client, network failures, entries of the query cache that are collected, a second click
  while one is unanswered. A session that ends while a page is open is in Sessions.
* Argon2, JWT signing, Prisma, PostgreSQL, React and the object store themselves.
* Containers, CI, Bicep, and the seed beyond the accounts it creates.

## 7. Plan

Done: the time record with its proofs, its refinement and its sums; corrections and documents,
with the refinement of the first and the serial invariants of both; the reminder scans; sessions
and the API client; accounts and profile changes; the guards, the pages and the tab. Every safety
property of a passing run is proved.

Open, in this order:

* corrections beside the reminder scans, which may change a day after its reminder was sent;
* two tabs in `sessions`, once the states allow it;
* a second click while one is unanswered, and answers of different queries that overtake one
  another, in WebTab.
