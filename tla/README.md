# Rademics ERP: a TLA+ model

The back end of Rademics ERP is one NestJS process over PostgreSQL. It handles many requests
and scheduled jobs at once, few of its handlers lock what they read, and many write by row id
what they decided a query earlier. Around it are a desktop agent, on a machine that is switched
off and a network that fails; a staff web app that follows a live channel; a client portal; and an
object store that browsers write to past the API. The modules here model that concurrency, TLC
checks what it may and may not do on small instances, and TLAPS proves the central invariants
for every value of the constants.

Paths below are relative to the repository; `api/` is `apps/api/src/`, `desktop/` is
`apps/desktop/src/main/`, `staff/` is `apps/internal/src/`.

## 1. The system

| Part | State | Operations | What makes it correct |
|---|---|---|---|
| Leave (`api/leave`) | requests, balances, append-only ledger, holidays | create, cancel, decide, add and delete a holiday, monthly accrual, hourly escalation | the first decision stands; a request is charged once and what is charged is what its row says; balance and ledger agree; an unanswered request moves up |
| Tasks (`api/projects/tasks*`) | tasks, status history, assignee, project manager, reminder stamps | create, assign, transition, comment, the acceptance, client-update and deadline sweeps | the status machine; the history explains the status; nothing completes unreviewed; a lapse is chased, and chased once |
| People (`api/people`) | users, teams, managers | invite, edit, deactivate, change role, set a manager | a leaver keeps no session; the managers form a tree |
| Invoices (`api/finance/invoices`) | invoices, yearly counter, payments | create, edit, send, cancel, reissue, pay, reverse, overdue sweep | gapless numbers; money agrees with the payment rows and with the status; a sent invoice is frozen |
| Payroll (`api/finance/payroll`) | month locks, exported revisions | lock, unlock, export | a locked month does not move; revisions are immutable |
| Attendance (`api/attendance`) | sessions, idle stretches, day marks | check in, heartbeat, check out, nightly close and computation | one open session; idle is charged once, inside the session; the marks follow the facts |
| Regularization (same) | correction requests | create, decide, power-cut credit | an approval takes effect exactly once |
| Desktop agent (`desktop/`) | offline queue on disk, heartbeat in flight, last status, shutdown marker, token store, socket | track, deliver, poll, check in and out, stop, launch, renew, reconnect | work during an outage is not charged as idle; a lost answer does not sign out |
| Auth (`api/auth`) | refresh-token families, revocation stamp, cached account state, links | login, refresh, logout, revoke all, invite, reset | a revoked session is over, soon; an ordinary one survives one lost answer |
| Presence gateway (`presence.gateway.ts`) | sockets let in, their owners | handshake, sweep, presence | a revoked socket is cut off; one turned away finds its way back |
| Chat (`api/chat`, `staff/app/(app)/chat`) | rooms, messages, read pointers, scheduled messages; the page's list | post, edit, delete, membership, archive, schedule, send due, markRead, fetch, live events | a scheduled message is sent once or reported; a page catches up; nothing is read unseen |
| Files (`api/files`, `api/storage`) | versions, scan state, queue; objects in MinIO | upload link, finalize, scan, quarantine, clean up, share, delete, download | only what was scanned clean is served |
| Client portal (`api/portal`) | organizations, reservations, client users, grants | reserve, onboard, add a user, grant, update, deactivate; a client's request | a client sees what it was granted and nothing once cut off; a project belongs to one client |
| Notices, mail, queues | rows written singly; BullMQ in Redis | notify, enqueue | seen through the components that use them |
| Settings, audit, retention, reports, search, AI, encryption, releases | single rows, or none | | |
| Web pages, shared packages, operations | presentation, types, scripts | | |

How they interact: handlers share the database and nothing else. Deactivating an employee
(people) returns their tasks (tasks) and revokes their sessions (auth), which the gateway notices at its
next sweep (presence). The payroll lock is read by leave, regularization and the day marks. A holiday
refunds leave and changes day marks. A late leave approval re-marks attendance. The agent reaches
attendance over HTTP and shares the employee's session with a browser tab. A client's request passes
through the portal's scope into files. BullMQ runs the nightly, hourly and daily jobs and the
virus scans against live requests, and again after a failure.

What is hard: a handler's read is stale when it writes (nearly all of them); jobs that loop
over a snapshot; jobs that die half way and are retried; lost requests, answers and live events;
restarts of either side; state cached for a while; and check-then-insert without an index behind it.
`PROJECT.json` lists each such place with its line and the properties aimed at it.

## 2. The modules

Every component has a model, a module of properties, an MC module for TLC and, where
something is proved, a module of proofs. A handler is split where it awaits: `call[p]` (`job[p]` in
Chat) holds what activation `p` has read and is about to write, and any other handler may run in
between. A handler that dies is one whose entry is dropped (`Fail`, `Restart`, `Die`) or never resumed.
Definitions named as the code would be if it had a particular slip (`InsertAnyKey`,
`TellReadAlways`, ...) belong to no behaviour: each stands just before the definition it
varies, and substituting it makes the property it is paired with in `PROJECT.json` fail.

**Leave** (`api/leave/leave.service.ts`). No leave handler opens a transaction, so every query
is a step: `CreateCheck/CreateInsert`, `CancelCheck/CancelWrite`,
`DecideCheck/DecideSplit/DecideClaim/ChargeBalance/ChargeRow`,
`AddHoliday/HolidaySnapshot/HolidayRecount/HolidayShrink/RefundBalance/RefundRow`,
`AccrualRow/AccrualRead/AccrualWrite`, `SweepRead/SweepWrite`, and the month lock.
Days are working weekdays numbered from 1; one accruing type stands for CASUAL and EARNED,
whose balances never meet; capabilities are reduced to the sets `HRStaff`, `Admins` and the
functions `TeamLead` and `ReportsTo`; the reads of `create` are merged. `LeaveDecision` is the abstract promise
of section 25 of the specification: the first decision stands, never one's own, charged at most once.

**Tasks and Reminders** (`api/projects/tasks.service.ts`, `tasks.processor.ts`,
`packages/types/src/task-status.ts`, `api/notifications/notifications.service.ts`, the pool return of
`api/people/employees.service.ts`). In Tasks `TaskTransitions` is the table; `Load` checks a
move, `Write` is its transaction; `Deactivate/ReadOpenTasks/ReturnToPool` is a deactivation
with its loop. One project; the reads of a handler are merged; creating with an assignee is
`Create` then a move. `TaskMoves` is what survives the races: a task moves only out of a status it
is or has been in. Reminders extends Tasks with a clock in hours and the three sweeps: a worker takes
one from its queue, reads its list, tells people task by task and, for deadlines, stamps the row. A
sweep whose query fails has had its one attempt; one whose process died is run again. Nobody mutes
the notices, whether a task is for a client is settled at creation, and the mail is left out.

**Invoices** (`api/finance/invoices.service.ts`). `Create` is one transaction; edit, send,
cancel, reissue, pay and reverse are a load and a write. Lines are reduced to their total and the
tax columns to `split` (do they add up to the tax). The unique index on the number is left
out: `GaplessNumbers` shows it never fires.

**Attendance** (`api/attendance/attendance.service.ts`, `autoCloseStale` of
`attendance-compute.service.ts`). `CheckIn*`, `Heartbeat*` and `CheckOut*` find the open session
and later write by id (`Charge` is their transaction); `NightlyRead/NightlyWrite` close what
was read, one session at a time. A day is `TicksPerDay` ticks. The idle rules clipped to the shift
are in **AttendanceRules**, shared with Workdays. `gaps` counts the rows of each stretch, so a
stretch charged twice is seen. A check-in with a key already used changes nothing and is not an
action. Presence, audit, addresses and `autoClosed` are left out.

**DayMarks and Workdays** (`attendance-rules.ts`, `attendance-compute.service.ts`,
`regularization.service.ts`, `api/finance/payroll.service.ts`, `common/payroll-lock.ts`, the past-day
half of `leave.service.ts`). DayMarks holds the pure rules: merging sessions, splitting them at the
shift end, the marks of a day, the part of a leave in a month. Workdays takes the finished
session of each day from a given set (how it came about is Attendance's subject) and models what
follows: the nightly marks day by day and the three-lates deduction, requests and their approval
write by write, a late leave, a holiday, the lock, unlock and export of a month, and restarts. `Users` are the ACTIVE
staff `computeRows` lists; nobody leaves in the time considered.

**Desktop** (`desktop/`) extends Attendance and uses its actions as the server's side of each
request. `TrackerTick` looks for activity and calls `Send`; `Deliver`, `Served`, `Answered` and
`Failed` take a heartbeat there and back or lose it on either way; `StatusPoll`,
`CheckInPress`, `CheckOutPress`, `Flush`, `Stop` and `Launch` are the rest of the agent.
`worked` records when the tracker saw activity in a session. `CheckOutPress` goes out whatever is in
flight when the queue is empty: `flush` returns at once then (`idle-tracker.ts:43`). The server runs one
call of the employee at a time unless `"overlap"` is in `Adverse`, when a check-out reaches it beside
another call (races of the server with itself are Attendance's subject). One signed-in user;
token refresh (in Sessions), the one-entry-a-minute thinning of the queue and its cap of 1500 are
left out.

**Sessions and Sockets** (`api/auth/auth.service.ts`, `session-state.service.ts`,
`jwt-auth.guard.ts`, `api/people/employees.service.ts`, `desktop/auth-store.ts`,
`staff/lib/api.ts`; `presence.gateway.ts`, `desktop/chat-watcher.ts`, `staff/lib/socket.ts`). Sessions
has the accounts, refresh tokens, links, the cached account state with its expiry, and a device that
renews one call at a time and may lose the answer. Passwords are right or wrong; bcrypt is the gap
between a read and a write. A session is *over* when all its family's tokens are revoked and no refresh is
rotating one (`Over` in SessionsProperties). Sockets extends it with one live socket per device: the
gateway's handshake, the sweep, and the two clients' timers. The transport's own retries
and what travels over the socket are left out.

**Chat and ChatPage** (`api/chat/chat.service.ts`, `staff/app/(app)/chat/page.tsx`). Chat is one
group room: its members, messages, read pointers and scheduled messages, with each query a step
and the timer's passes racing; a query may fail and the API may restart. `roomFor`'s reads are one
step; the flood limit and size limits are left out. ChatPage is one person's page on it: the list
it holds, the events it applies, the fetches that fill it after a reconnect, when it tells the server the
room was read. Events may be lost while the connection is. Read calls in flight are merged; while one is, others
may write, and what they post then is remembered (`crossed`), because the server stamps the pointer with its own
now (`chat.service.ts:989`). `CalmStep` names what the page's properties exclude: requests served
at once, or begun while the page fetches; a tab returned to while disconnected.

**Clients, Files and Portal** (`api/portal/client-admin.service.ts`, `portal.service.ts`,
`api/projects/projects.service.ts`; `api/files`, `api/storage`). Clients has the Super Admin's
handlers, which interleave and may die between queries; `raced` remembers the projects that two calls had both
read as nobody's and were going to bind. Files has an object per version that anyone
with the upload link may replace while the link works, `finalize`, the scan queue with its attempts, the worker's
look before and after the scan, and the orphan cleanup. A download compares the ETag
(`DownloadCheck`) and hands out a link; `Serve` answers through that link with whatever is under the key by
then, any number of times, until `DownloadEnds`; a restart takes handlers away, not links. A query of the scan fails
inside the `try` (`ScanFails`: the version is to say ERROR) or outside it (`ScanBreaks`: the reads at the start,
the writes of ERROR, those after the verdict), when nothing is written and the last attempt strands the version; a query of
`finalize` fails as well (`CallFails`). ClamAV and MinIO are external: a
content is infected or not, an ETag is the content. A content that was replaced is remembered (`past`) and
does not return under the same key: the scanner compares the ETag before and after it reads, which says
nothing of what was there in between if the first content is back. BullMQ's own limit on jobs that stall twice is left
out. Portal composes the two: a client's request is checked, scoped and answered.

## 3. What is checked

| Run | Instance | What it shows |
|---|---|---|
| LeaveBooks | 2 requests and 2 approvers; or 1 request over 3 days, 2 holidays, 2 accrual runs (565 k states) | `FirstDecisionStands`; the handlers implement `LeaveDecision`; `UsedIsBackedByLedger`, `AccruedWithinLedger`; with one approver at a time `BookedIsCharged`, `OneApproverStaysWithin` |
| LeaveEscalation | 1 request, all roles, both jobs, one failure or one holiday (440 k) | under fairness, `OverdueIsEscalated` and `ApprovalIsCharged` |
| Tasks | 1 task with 2 staff calls, 1 HR call, 6 moves; or 1 task chased over 4 hours with one fault (664 k) | `HistoryExplainsStatus`, `CompletedWasReviewed`, the handlers implement `TaskMoves`; `NoticesAreOnce` and, under fairness, `EveryChaseLands` |
| Invoices | 2 invoices, 2 finance calls, the sweep, 3 payments (600 k) | `GaplessNumbers`; with one finance call at a time against the sweep `SerialMoney` (an OVERDUE invoice owes some, but for one a sweep has straddled), `SerialFrozen`; under fairness `OverdueIsFlagged` |
| Attendance | 2 sessions, 2 calls, the nightly close, restarts, 3 ticks in days of 2 (419 k) | `SpanIsForward`, `ClosedIsFinal` |
| Desktop | 2 sessions, 5 ticks in days of 4, one stop or flush (1.9 M) | `WorkIsNotIdle`, `IdleFitsSession` |
| Workdays | 3 days of 5 ticks in months of 2 days; 2 requests; 1 with a lock, a holiday or a leave; or these three together; holidays on two of the days (391 k) | `EffectsHappenOnce`, `IdleIsStretches`, `TimeCountsOnce`, `MarksAreCurrent`, `DeductionsMatchLates`, `ExportsStand` |
| Sessions | 1 account and 1 device over 3 ticks, or its links, or 3 people's managers, or its live socket over 4 ticks (653 k) | `RevocationTakesHold`, `SessionSurvivesLoss`, `ManagersFormTree`, `SocketsAreCutOff`, `WayBack` |
| LeaversReturn | the same instance | `LeaversStayOut` is violated |
| Chat | 3 messages; 1 scheduled message, 2 passes, 2 calls and a fault; or 1 page over a lost connection, its read calls overtaken by posts (552 k) | `SentOnce`, `ScheduledIsSettled`, `PageMatchesServer`, `ReadWasSeen` |
| Portal | 2 organizations, 1 project, 2 people, 2 calls, one of which may die; or 1 file, 3 contents, 2 finalizes, 2 workers, one failure (804 k) | `TenantBoundary`, `BindingIsFinal`, `OnlyCleanIsServed`, `ScanIsUnderway` |
| Onboarding | the same instance, nobody dies | `OnboardingIsWhole` is violated |

**Bounds.** The races in question need two activations of a handler and one row, sometimes a
second row to lose track of; the instances have them. Calendars reach over the boundary that
matters: a month and a year for the accrual, a midnight and a shift end for attendance, a month's
end for the deductions and the export, the due day for invoices, one tick beyond the cache's, the grace's
and the links' lifetime for sessions, an hour after each of two deadlines for the sweeps. Counters
that only grow (payments, moves, holidays, failures, the clock) are bounded in the guards of the
action that grows them, by a constant of that purpose.

**Families.** Where one instance with everything in it would be out of TLC's reach, an MC module
explores several side by side, chosen by a variable that never changes or by a constraint, each with
the full concurrency of one concern: `mode` in MCLeaveBooks, MCInvoices, MCChat and MCPortal, `chased` in
MCTasks, `watching` and `MCFocus` in MCSessions, `MCFocus` in
MCWorkdays, `HolidayIsAlone` in MCLeave. What a family leaves out is said above its
definition. Some restrict what the code does not, because the property fails beyond them; these are
named with what happens there in section 5: one approver or finance call at a time, one editor of managers, a page
served calmly, clients that look at projects while none was raced and no call has died, one client call at a
time after one died. A history names what a property excepts, item by item: `straddled` invoices, `crossed` messages, `raced`
projects, `lost` versions, and downloads `open` to an upload link.

**Timing in Desktop.** `AgentTick` lets time pass when the tracker has fired, the server is
idle, the heartbeat in flight is younger than `MaxHang`, and no session of an earlier day is
open (the nightly job runs at 00:05). Every hang, stop and flush can lose a moment that
was seen: while a request is in flight the new one goes nowhere (`idle-tracker.ts:59`). The code
has room for this: a silence counts after 10 minutes, the tracker polls every 20 seconds. In the
instance a silence counts after `IdleTicks = 2` ticks, so at most one moment may be lost:
`MaxHang = 0`, `MaxActs = 1`. With `IdleTicks = 3` two may be. `Adverse` names the
five things that break a property whatever the slack, and is empty in the run (section 5).

**Timing in Sessions and Sockets.** A read of one row takes less than a tick. A tick is longer than the second by
which `rejectionReason` favours a token, so one issued in the tick of a revocation is good until it expires; refresh tokens outlive the time considered. The sweep's timer is on time.

**Fairness.** Leave: weak fairness of the steps of a decision and of a job, because the event
loop resumes a handler whose query answered; strong fairness of the start of the escalation
sweep, because other jobs of the queue come and go and the worker takes each repeatable job in
the end. `ApprovalIsCharged` excepts handlers that die: nothing retries them. Invoices: weak fairness
of the sweep. Reminders: weak fairness of the clock and of the worker's steps, strong fairness of
`Take` of each kind of sweep, because the queue is first in, first out. No fairness is assumed of
people, and none where only safety is claimed.

## 4. What is proved

For every value of the constants that the modules' assumptions admit: names are distinct, quantities
are naturals, the shift ends before the day does, a lifetime in the session cache is at least a tick,
a file's task has a project, months and days have a length, users are finitely many, a day's session and
what a correction may ask for end by the last instant considered, and the idle stretches of a session do not overlap,
which is how Attendance leaves them
(`PeopleAssumption`, `QuantityAssumption`, `StaffAssumption`, `BillingAssumption`, `ClockAssumption`,
`NamesAssumption`, `AgentAssumption`, `SessionsAssumption`, `SocketsAssumption`, `ChatAssumption`,
`PageAssumption`, `FilesAssumption`, `ClientsAssumption`, `PortalAssumption`, `CalendarAssumption`,
`WorkdaysAssumption`, `ShapesAssumption`). TLC evaluates them in the runs. What a theorem supposes beyond these is in
its statement and in the third column.

| Module | Theorems | Supposing |
|---|---|---|
| LeaveProofs | `TypeCorrect`, `ChargesOnce`, `FirstDecisionHolds`, `LeaveImplementsDecision`, `AccrualsAreBacked` | |
| | `LedgerBacksUsed` | finitely many handlers, refunds that land (`RefundsLand`) |
| | `BalancesStayWithin` | one approval and one credit at a time (`OneApproval`, `OneCredit`), no leave year begins within an approval (`YearHolds`) |
| | `OneApproverBooks` | the booking family of MCLeaveBooks, of any size, and `YearHolds` |
| | `LedgerTellsPaid`, `OneApproverCharges` | finitely many handlers, one at a time recomputing leave for a holiday (`OneHoliday`), keys of refunds that are free (`RefundKeysAreFree`); the second of MCLeaveBooks, of any size |
| TasksProofs | `TypeCorrect`, `HistoryStaysSound`, `CallsStayLegal`, `ReviewComesFirst`, `TasksImplementMoves`, `NoticesGoOutOnce` | |
| InvoicesProofs | `TypeCorrect`, `NumbersAreGapless`, `DraftsHoldNoMoney` | |
| | `SentStaysFrozen`, `BalanceIsSound`, `MoneyIsAllThere` | one staff call at a time (`OneStaffCall`), any number of sweeps beside it |
| | `SerialStaysFrozen`, `SerialMoneyHolds` | the serial family of MCInvoices, of any size |
| AttendanceProofs | `TypeCorrect`, `SpansAreForward` | |
| | `OneSessionAtATime` | one employee's call at a time |
| | `AgentUsesAttendance`, `ClosedSessionsAreFinal` | |
| | `IdleFitsItsSession` | the nightly job has run before the next shift (`"lateNight" \notin Adverse`), the employee's calls take turns at the server (`"overlap" \notin Adverse`) |
| | `WorkIsNeverIdle` | nothing adverse, requests that fail within the tick, fewer stops and flushes than an idle gap has ticks, a queue that still replays |
| WorkdaysProofs | `ApprovalsApplyOnce`, `ExportedFiguresStand`, `OutagesCreditedOnce`, `SharedTimeCountsOnce` | |
| SessionsProofs | `SessionsAreSound`, `RevocationIsBounded`, `OneLossIsSurvived`; beside the sockets `RevocationIsBoundedBesideSockets`, `OneLossIsSurvivedBesideSockets`, `LeaversLoseTheFeed`, `TurnedAwayComesBack` | |
| | `ManagersStayTree` | changes of a manager do not overlap (`OneEditor`) |
| ChatProofs | `TypeCorrect`, `ScheduledIsSentOnce`, `ScheduledIsNeverSilent` | |
| | `PageFollowsRoom`, `ReadMeansSeen` | the page family of MCChat, of any size |
| PortalProofs | `ServedIsClean`, `ScanningIsScanned`, `TenantsStayApart`, `BoundProjectsStayBound` | |

Section 5 says what goes wrong without them. The arguments, by the
invariant each theorem rests on:

- *Sums and folds* (payments, ledger rows, idle stretches, spans of a day). The model's folds follow a recursive
  function over the subsets of a finite set, which picks an element by a choice. A function that satisfies the
  recursion for every choice exists (`SumsExist`, by a smallest subset for which it would not: `SmallestSubset`, from
  the well-founded order of finite sets), and the fold is that function (`TotalIsSum`); so a sum grows by what is
  added to its set, in whatever order. The lemmas are repeated in each module that sums. Where the order matters,
  as in merging, the recursion is unique because what it picks is a member (`FoldsAgree`, `MergeIsFold`).
- *Leave.* `ChargedOnce` is not inductive: two handlers may be about to charge. `DecisionInv` adds that a
  handler that charges holds the only winning claim on a request the ledger does not know; the claim,
  conditional on PENDING, is where it comes from. Handlers that touch neither a decision nor a charge are
  dealt with at once (`NeutralKeepsInv`). For the accrual, a month is *owed* by the handler that wrote its
  ledger row and has yet to write the balance, *settled* otherwise: a balance never exceeds its settled
  months, a value about to be written exceeds them by the owed one at the most, and the ledger's unique key
  gives a month to one handler (`AccrualInv`). For the balances, the days an approval has split off, and then
  claimed, are still left (`WithinInv`), since whatever else happens to a balance adds to it: a refund, or a
  credit, which writes at least what the row holds (`CreditsGrow`). The run's booking family
  lets accruals overlap until a request is filed: nothing is used before (`Quiet`), and the one month on the
  ledger after that is the one a credit in flight pays for (`FirstCreditGrows`). For what was used, each handler between its two writes owes the ledger
  one row, and the balances are the ledger's rows plus what is owed (`Squares`, with `RowsFit`); `RefundsLand`
  is what `applyUsage` takes for granted, and section 5 says when it is not so. For what an approval is charged, its rows
  and what handlers have still to write of it add up to the paid days of its row (`PaidInv`); only a winning claim and a shrunk
  row change that sum (`Even` is every other step), and a holiday's handler shrinks by what it has read as long as no other one does.
  The run's instance satisfies both hypotheses.
- *Tasks.* A call in flight carries a status that need not be current, but is in the task's history, and
  histories only grow (`CallsComeFromHistory`). So the row it writes follows from an earlier one, and a
  completion has a submission and an approval before it. For the notices, a task without a stamp
  that no sweep is about to stamp has been told of at most once per fault (`NoticesInv`).
- *Invoices.* Money in flight is about an invoice that has been issued (`MoneyIsIssued`), which no stale write
  returns to draft. When staff calls take turns, a step leaves a row, enters it, edits a draft, restates or
  books (`RowsMove`); an edit in flight is then of a draft (`EditsHold`), so a sent row is only
  restated or booked, and what a call has computed from the total stays right until it writes (`BalanceInv`). A payment in flight then
  adds to what the row still says, so the row keeps up with the sum of the payments (`MoneyInv`). An OVERDUE invoice
owes some because a sweep writes what it read as unpaid, and whoever pays it off meanwhile marks it straddled (`OverdueInv`).
- *Attendance.* A call carries a time between its session's check-in and the clock (`CallsFit`, `NotAhead`),
  so that whichever write comes last, the session ends after it began. A closed session is final once no call that has
read it is under way, since every new call looks for an open one (`ClosedSessionsAreFinal`). `OneSessionAtATime` adds that the
  check-in in flight found no open session (`CheckInsAreFree`).
- *Desktop.* Every step of the agent is a step of Attendance or leaves its variables alone
  (`AgentUsesAttendance`), so the server's invariants carry over. What a call at the server has read still
  holds when it writes (`ServerInv`); the idle charged so far fits what has passed of the session (`SpentInv`). For
  `WorkIsNeverIdle`: each moment of work that no heartbeat will bring is paid for by one stop or flush, the one
  in flight included (`LossInv`), a stretch charged as idle has a tick at which nobody worked (`GapInv`),
  and an idle gap has more ticks than there were stops and flushes.
- *Workdays.* `OnceInv`: a handler with work still to apply holds the claim on a request that is APPROVED and has not
  taken effect, no two hold the same, and a pending request has no effect. `FrozenInv`: while a clean
  month stays locked, no handler carries a write into it except marks that are already there and deductions
  already in order, because each asked for the lock; one whose lock is older carries its number.
  `IdleInv`: the stretches of a session do not overlap, and a credit in flight returns what its session was charged for
  the stretches it cuts, less what is left of them, if they are still there when it writes. `TimesInv`: sessions lie within
  the instants considered, and so does what a request may make of them; merging leaves stretches apart from each other that cover the same
  instants and begin with one of the spans (`MergeCovers`), so each has the day's shift end, and their lengths add up to the instants covered (`SizesAdd`).
- *Sessions.* What a fill or the cache holds of an account was true when it was read, so what ended
  after that ended later than the reading (`ReadingsHold`); a socket is let in by such a reading and looked
  at again within a sweep (`SocketsHold`). A client that is away is signed in with a timer
  armed, or a renewal under way (`SocketsInv`). Refresh: a cookie's replacement is there only if an answer was lost, and
  has been used only if two were; no two devices share one, and a token still being made is
  nobody's (`TokensInv`). A rotation stays in its family, so a session that is over has no live token a retry, the grace
or a late write could go on from (`FamiliesInv`); with the bound on requests this is what `RevocationIsBounded` says. Managers: a walk knows that whoever it passed leads on to where it is,
  so a walk that ended proves the chain closed and free of the employee (`ChainsRead`).
- *Chat.* A pass about to post is the only one that won the claim on its slot (`OneSender`), and no two handlers
  hold the id of one message (`IdsAreOwn`). Until a fault, a claimed slot has a pass at work
  that knows how far it came, or is settled one way (`TendedInv`). The page's properties speak of moments when nothing is on
  its way; `PageInv` says what is in between: while a message is written and told nothing else is under way, each of
  the newest messages is on the screen as it is or its event or the fetch that brings it is coming, and whoever is about to move the read
  pointer has had every newest message of others before a looking eye, but for those posted since the call was sent. A screen in order by time is the set sorted by rank (`InTimeSorts`).
- *Portal.* An available version's stored ETag is that of a content ClamAV passed (`VersionsInv`);
  what is under a key is not among what was replaced there (`StoreInv`); a worker with a verdict scanned the content
  whose ETag it read, unless that was replaced since, which its second look then sees (`ScansInv`); a
  link handed out holds the clean ETag it compared, and what is there later differs only if the upload link still worked at the
  check (`DownloadsInv`). A version under scan is
  with a finalize, a job or a worker, whose tries are not spent (`UnderwayInv`). Tenants: projects a call is
  about to bind are nobody's or raced, whatever is granted is within its client or being bound to it, or raced, and what is shown was
  granted (`TenantInv`); only two handlers write a project's organization, each after it has read the project as nobody's, so one that is bound, and
  that no call is about to bind, stays bound.

`ChargesOnce`, `OneSessionAtATime`, `DraftsHoldNoMoney`, `CallsStayLegal`, `BalanceIsSound` and the type
invariants are proved and not run by themselves. Only checked by TLC:

- liveness (`OverdueIsEscalated`, `ApprovalIsCharged`, `OverdueIsFlagged`, `EveryChaseLands`): fairness and ENABLED are
  beyond the prover;
- `MarksAreCurrent` and `DeductionsMatchLates`, which are no invariants of every instance: a power-cut window may cross
  midnight, and the credit re-marks the day of the request only; a correction approved on its own day may deduct for a lateness that
  the day's session, when it ends, takes away (section 5).

## 5. What the models found

As findings, each with a run that shows it: an employee deactivated while a link's password
is hashed is active again (`auth.service.ts:430`, LeaversReturn); an onboarding whose name is taken
leaves the invited account without an organization (`client-admin.service.ts:261`, Onboarding).

Also seen, on variants of the same instances or while translating:

- *Leave.* A cancel overwrites a decision (`leave.service.ts:225`). Two submissions of one person both
  pass the overlap check. Two approvers at once overdraw; two admin calls at once refund a day twice. A holiday
  declared while a request is pending is charged; a sweep that read before a decision escalates it; a lock
  between check and claim does not stop the change (`leave.service.ts:276`); days split against one leave
  year and charged in the next come off a balance nobody compared them with; a refund in a year whose balance row is not there yet creates it with nothing used and
  writes the refund to the ledger only (`leave.service.ts:706`), and a second refund to one person for one date (the holiday removed and declared again, or two admins at once)
  finds its ledger key taken after the balance has moved; two accrual runs at once lose a credit; an accrual that died after
  its ledger row is not made up.
- *Tasks.* A stale transition moves a task illegally (`tasks.service.ts:622`). A parent closes with an open
  subtask when the pool return revives a cancelled one, or one is created under it. An assignment
  racing a deactivation leaves an open task with a leaver.
- *Reminders.* The stamps are not cleared when a deadline moves. A missed-deadline notice may go to a deactivated
  manager alone, and "soon" goes to the assignee of the snapshot. The pool return stamps neither
  `statusChangedAt` nor `lastClientUpdateAt`. A deadline notice may repeat once per failed sweep.
- *Invoices.* Two payments at once exceed a total (`invoices.service.ts:352`); a sweep that read an invoice before
  its final payment writes OVERDUE over PAID (`invoices.service.ts:410`), and over CANCELLED if it was cancelled meanwhile; reversing a payment of a cancelled invoice revives it, and a payment can be reversed
  repeatedly; two reissues both succeed; a reissue drops the tax split.
- *Attendance.* With two calls of one employee at once, two check-ins both insert, a heartbeat writes after a
  check-out, two heartbeats charge one silence: what had read the session open still lands on it after it is closed
  (`attendance.service.ts:199`), and nothing else does. A night without the nightly job locks the
  employee out of check-in, while `today()` says they are not checked in.
- *Desktop, by adversity.* `"web"`: a browser heartbeat that gets through before the agent's replay makes the
  server discard the outage. `"poll"`: a status poll that fails after a check-in leaves "checked out",
  and moments are not queued. `"flap"`: the flush fails, the check-out does not, and the outage is
  charged. Each makes `WorkIsNotIdle` fail. `"lateNight"` makes `IdleFitsSession` fail, and so does `"overlap"`: a check-out
  sent beside a heartbeat (`ipc-handlers.ts:55`, `idle-tracker.ts:43`) and handled beside it doubles a stretch, or charges the closed session.
- *Workdays.* `applyThreeLatesRule` asks for no lock; HR's re-run of an earlier, missed date deducts too
  much; a deduction stays on a day whose late mark a later night removes; a holiday declared for a passed day
  re-marks nothing; two computations of one day at once can leave the older marks. A holiday declared in
  a locked month, or within leave that reaches into one, moves the exported figures (`leave.service.ts:513`), as does
  the nightly deduction rule in a month locked before it is over. A power-cut window across
  midnight credits the next day's session and re-marks the request's day only (`regularization.service.ts:304`). `orderly`
  and `clean` in the module, and the instance's empty `RerunDays`, except these.
- *Sessions.* `revokeAllForUser` says it ends every session (`auth.service.ts:223`), but a refresh that read its token before
  the revocation and inserts after it leaves a live refresh token and, if it answers after the stamp, an access token the guard accepts: the session
  goes on. So does a new one whose password was verified before (`auth.service.ts:94`). Three overlapping refreshes, or two losses in a row within the grace, end a session. A
  deactivation that dies half way is not completed by a retry (`employees.service.ts:260`). Two editors at once
  close a cycle of managers.
- *Sockets.* A client that leaves during the handshake's awaits is kept in the gateway's list
  (`presence.gateway.ts:128`); after a refused renewal the agent may use a socket it has cleared (`chat-watcher.ts:105`).
- *Chat.* A restart between the claim and the post of a scheduled message loses it without a word. A failed
  mention after the post reports "not sent" of a message that was. The schema's comment applies the flood limit
  to scheduled messages, the code does not. A late answer may replace a deleted message's
  placeholder by its text. A tab returned to while disconnected, and a room opened with more than a page unread, mark
  messages read that were not shown. A message posted between the page's decision to mark the room read and the server's now (`chat.service.ts:989`) is
  read unseen, as is one posted just before one's own post. An edit or deletion that arrives while a refetch is under way is overwritten by the
  older copy it brings (`page.tsx:189`). A reconnect fetches the newest 50 only (`page.tsx:434`), though the
  comment above it says otherwise.
- *Portal.* The grant race: `grantAccess` checks and then acts, so two grants, or a grant and an update,
  bind one project in turn to two clients, and the person of the first keeps the grant; a grant that dies before binding leaves the project open to another.
  A client user can be attached to an organization just deactivated, and a deactivation that dies is never
  completed. A project whose creation dies keeps its reservation.
- *Files.* The download's link outlives its check (`files.service.ts:261`): with an upload link that still works
  (`files.service.ts:43`) the clean bytes can be replaced under it by unscanned ones. A `finalize` cut off between SCANNING and the queue strands the
  version, as does a last attempt that fails outside the guarded part, at its first queries (`scan.service.ts:26`, `:38`), at the write of
  ERROR (`:49`, `:58`) or after its verdict. A cleanup that read before a late finalize
  removes an available file (`scan.service.ts:102`). A notice that fails after a quarantine makes the retry
  turn INFECTED into ERROR.

## 6. The plan

Done: the stateful core, in the order of what an error costs: leave balances, the task machine, money,
attendance and its agent, what a day becomes and payroll, sessions and sockets, chat, the tenants'
boundary and files, reminders.

Next, were it continued:

1. *Proofs.* `MarksAreCurrent` for power-cut windows within a day.
2. *The bell and company notices.* A page's list of notices loses or doubles one that is pushed while the list
   is loading (there is no merging by id), and "mark all read" hides one that arrives meanwhile.
3. *Settings and the AI summary.* Two editors of the settings each write back what they read with their change;
   two first requests of a day's team summary both pay for one, and the second fails on the unique index.
4. *Sessions as an abstract specification* of what a revocation promises, with the rotation shown to implement it.

**Not modelled, and why** (per component in `PROJECT.json`): read-only views, reports and search; single-row
writes nothing else depends on (teams, profile fields, comments, checklists, pins, reactions, preferences);
controllers, DTOs and permission tables, which appear as guards and constants; presentation, by far the largest
share of the source, which fetches, shows and posts; migrations, seeds and verification scripts, which
run outside the system; and the external services (PostgreSQL, Redis, MinIO, ClamAV, mail, the language
model), which appear as far as the code relies on them. The definitions map to about an eighth of the
repository's lines: most of the rest is of these kinds.
