------------------------------- MODULE Leave -------------------------------
(***************************************************************************)
(* Leave management (apps/api/src/leave/leave.service.ts).                 *)
(*                                                                         *)
(* The API is a Node process over Postgres: no leave handler opens a       *)
(* transaction, so every awaited query is a step of its own and another    *)
(* handler may run between any two of them.  call[p] is the handler that   *)
(* activation p is executing: the query it is about to make (at) and the   *)
(* values it has read and still holds.  The other variables are rows of    *)
(* the database, except today, which is the server's clock.                *)
(*                                                                         *)
(* Days 1..NumDays are the working weekdays of a calendar horizon; weekly  *)
(* offs, second Saturdays and half days are left out.  One                 *)
(* accruing leave type stands for CASUAL and EARNED, whose balances never  *)
(* meet.                                                                   *)
(***************************************************************************)
EXTENDS Integers, FiniteSets, Sequences

CONSTANTS
  Users,          \* active staff
  Internal,       \* those whose resourceType is INTERNAL: they take and accrue leave
  NoOne,          \* a null user id
  HRStaff,        \* users whose role is HR
  Admins,         \* users whose role is SUPER_ADMIN
  TeamLead,       \* [Users -> Users \cup {NoOne}]: the lead of a user's team
  ReportsTo,      \* [Users -> Users \cup {NoOne}]: a user's reporting manager
  Requests,       \* row ids of leave_requests
  NoRequest,      \* a null request id
  Owner,          \* [Requests -> Users]: who files the request
  AskedTypes,     \* bound: the leave types that are asked for
  NumDays,        \* bound: the calendar horizon
  DaysPerMonth,   \* working days in a month
  MonthsPerYear,  \* months in a leave year
  PerMonth,       \* quota accrualPerMonth
  Cap,            \* quota daysPerYear
  EmployeeCalls,  \* bound: concurrent create and cancel calls
  ApproverCalls,  \* bound: concurrent decide calls
  AdminCalls,     \* bound: concurrent holiday calls
  FinanceCalls,   \* bound: concurrent payroll-lock calls
  JobCalls,       \* bound: concurrent runs of the scheduled jobs
  Jobs,           \* bound: which of them run, of {"accrual", "escalation"}
  MaxHolidayAdds, \* bound on addHoliday calls
  MaxFailures     \* bound on handlers that die between two queries

ASSUME PeopleAssumption ==
  /\ NoOne \notin Users /\ NoRequest \notin Requests
  /\ Internal \subseteq Users /\ HRStaff \subseteq Users /\ Admins \subseteq Users
  /\ {TeamLead, ReportsTo} \subseteq [Users -> Users \cup {NoOne}]
  /\ Owner \in [Requests -> Users]
  /\ AskedTypes \subseteq {"ACCRUING", "UNPAID"}

ASSUME QuantityAssumption ==
  /\ NumDays \in Nat \ {0} /\ DaysPerMonth \in Nat \ {0} /\ MonthsPerYear \in Nat \ {0}
  /\ PerMonth \in Nat \ {0} /\ Cap \in Nat
  /\ MaxHolidayAdds \in Nat /\ MaxFailures \in Nat

VARIABLES
  today,        \* the server's date
  request,      \* leave_requests
  balance,      \* leave_balances of the accruing type, per user and year
  ledger,       \* leave_ledger rows in insertion order
  holidays,     \* dates in the holidays table
  lockedMonths, \* payroll_months with status LOCKED
  call,         \* the handler each activation is executing
  holidayAdds,  \* addHoliday calls made
  failures      \* handlers that have died

vars == <<today, request, balance, ledger, holidays, lockedMonths, call,
          holidayAdds, failures>>
database == <<request, balance, ledger, holidays, lockedMonths>>
counters == <<today, holidayAdds, failures>>

-----------------------------------------------------------------------------
\* Types

Days == 1 .. NumDays
MonthOf(d) == (d - 1) \div DaysPerMonth + 1
YearOfMonth(m) == (m - 1) \div MonthsPerYear + 1
YearOf(d) == YearOfMonth(MonthOf(d))
Months == 1 .. NumDays
Years == 1 .. NumDays

Types == {"ACCRUING", "UNPAID"}
Statuses == {"none", "PENDING", "APPROVED", "REJECTED", "CANCELLED"}
Levels == {"TEAM_LEAD", "HR"}
Calls == EmployeeCalls \cup ApproverCalls \cup AdminCalls \cup FinanceCalls \cup JobCalls

RequestRow ==
  [status : Statuses, type : Types, span : SUBSET Days, total : Nat, paid : Nat,
   unpaid : Nat, level : Levels, approver : Users \cup {NoOne}, due : BOOLEAN,
   reviewer : Users \cup {NoOne}]
BalanceRow == [exists : BOOLEAN, accrued : Nat, used : Int]
LedgerRow ==
  [user : Users, entry : {"ACCRUAL", "USAGE", "REFUND"}, days : Int,
   request : Requests \cup {NoRequest}, key : Nat]

Idle == [at |-> "idle"]
Split == [paid : Nat, unpaid : Nat]

\* A handler and what it holds while it waits for its next query.
InsertCall == [at : {"insert"}, user : Users, type : Types, span : SUBSET Days]
CancelCall == [at : {"cancel"}, request : Requests]
SplitCall == [at : {"split"}, request : Requests, caller : Users, total : Nat]
ClaimCall ==
  [at : {"claim"}, request : Requests, caller : Users, verdict : {"APPROVED", "REJECTED"},
   paid : Nat, unpaid : Nat]
ChargeCall == [at : {"charge", "chargeRow"}, request : Requests, days : Nat]
SnapshotCall == [at : {"snapshot"}, date : Days]
RecomputeCall ==
  [at : {"recompute"}, date : Days, todo : SUBSET Requests, seen : [Requests -> Split]]
RefundCall ==
  [at : {"shrink", "refund", "refundRow"}, date : Days, todo : SUBSET Requests,
   seen : [Requests -> Split], request : Requests, total : Nat, paid : Nat, days : Nat]
AccrueCall == [at : {"accrue"}, month : Months, staff : SUBSET Users]
CreditCall == [at : {"credit"}, month : Months, staff : SUBSET Users, user : Users]
CreditWriteCall ==
  [at : {"creditWrite"}, month : Months, staff : SUBSET Users, user : Users, accrued : Nat]
EscalateCall == [at : {"escalate"}, todo : SUBSET Requests, seen : [Requests -> Levels]]

CallState ==
  {Idle} \cup InsertCall \cup CancelCall \cup SplitCall \cup ClaimCall \cup ChargeCall
    \cup SnapshotCall \cup RecomputeCall \cup RefundCall
    \cup AccrueCall \cup CreditCall \cup CreditWriteCall \cup EscalateCall

-----------------------------------------------------------------------------
\* Helpers of the handlers

Least(a, b) == IF a <= b THEN a ELSE b
NonNegative(n) == IF n < 0 THEN 0 ELSE n

Spans == {a .. b : a, b \in Days} \ {{}}

\* countWorkingDays over a full-day span.
CountWorkingDays(span, off) == Cardinality(span \ off)

\* availableDays for the accruing type: a missing row counts as zero.
Available(u) == LET row == balance[u][YearOf(today)] IN row.accrued - row.used

\* splitPaidUnpaid against the current balance.
PaidPartOfTotal(type, total, u) == IF type = "UNPAID" THEN 0 ELSE total
PaidPart(type, total, u) ==
  IF type = "UNPAID" THEN 0 ELSE NonNegative(Least(total, Available(u)))

Clashes(u, span) ==
  \E r \in Requests :
    /\ Owner[r] = u /\ request[r].status \in {"PENDING", "APPROVED"}
    /\ request[r].span \cap span # {}

\* The where-clause of decide's updateMany.
ClaimableInAnyStatus(r) == request[r].status # "none"
Claimable(r) == request[r].status = "PENDING"

\* The where-clause of recomputeApprovedLeaveForHoliday.
AffectedIncludingPending(d) ==
  {r \in Requests : /\ request[r].status \in {"PENDING", "APPROVED"}
                    /\ request[r].type # "UNPAID" /\ d \in request[r].span}
Affected(d) ==
  {r \in Requests : /\ request[r].status = "APPROVED"
                    /\ request[r].type # "UNPAID" /\ d \in request[r].span}

\* Paid days left when the total shrinks: only the paid portion is refunded.
PaidAfter(was, total) == NonNegative(Least(was.paid, total - was.unpaid))

\* One month's credit on top of the accrued days, up to the yearly quota.
Credited(accrued) == Least(Cap, accrued + PerMonth)

\* resolveApproverForLevel(userId, 'HR'): any HR user but the requester.
IsHRApprover(a, u) ==
  \/ a \in HRStaff \ {u}
  \/ a = NoOne /\ HRStaff \subseteq {u}

\* resolveInitialApprover.
LeadsATeam(u) == \E v \in Users : TeamLead[v] = u
IsInitialApprover(level, a, u) ==
  IF TeamLead[u] \notin {NoOne, u} /\ ~LeadsATeam(u)
    THEN level = "TEAM_LEAD" /\ a = TeamLead[u]
    ELSE level = "HR" /\ IsHRApprover(a, u)

\* assertCanApprove: never one's own; HR and Super Admin anything; a lead or a manager what is
\* routed to them or filed in their scope (teamScopeUserIds).
CanApprove(a, r) ==
  /\ a # Owner[r]
  /\ \/ a \in HRStaff \cup Admins
     \/ request[r].approver = a
     \/ a \in {TeamLead[Owner[r]], ReportsTo[Owner[r]]}

MonthsOf(span) == {MonthOf(d) : d \in span}

\* The routing an escalation below HR writes, and the deadline it resets.
EscalatedKeepingLevel(row, a) == [row EXCEPT !.approver = a, !.due = FALSE]
Escalated(row, a) == [row EXCEPT !.level = "HR", !.approver = a, !.due = FALSE]

\* @@unique([userId, type, entryType, periodKey]); USAGE rows have a null key.
KeyNeverTaken(u, entry, key) == FALSE
KeyTaken(u, entry, key) ==
  \E i \in DOMAIN ledger :
    ledger[i].user = u /\ ledger[i].entry = entry /\ ledger[i].key = key

LedgerEntry(u, entry, days, r, key) ==
  [user |-> u, entry |-> entry, days |-> days, request |-> r, key |-> key]

\* The balance half of applyUsage: an upsert on the CURRENT year's row, which
\* a missing row turns into a create that drops a negative amount.
ApplyUsageReplacing(u, days) ==
  balance' = [balance EXCEPT ![u][YearOf(today)] = [@ EXCEPT !.exists = TRUE, !.used = days]]
ApplyUsage(u, days) ==
  LET y == YearOf(today)
      row == balance[u][y]
  IN balance' = [balance EXCEPT ![u][y] =
       IF row.exists THEN [row EXCEPT !.used = row.used + days]
                     ELSE [exists |-> TRUE, accrued |-> 0, used |-> NonNegative(days)]]

Become(p, next) == call' = [call EXCEPT ![p] = next]

-----------------------------------------------------------------------------
Init ==
  /\ today = 1
  /\ request = [r \in Requests |->
       [status |-> "none", type |-> "UNPAID", span |-> {}, total |-> 0, paid |-> 0,
        unpaid |-> 0, level |-> "HR", approver |-> NoOne, due |-> FALSE, reviewer |-> NoOne]]
  /\ balance = [u \in Users |-> [y \in Years |-> [exists |-> FALSE, accrued |-> 0, used |-> 0]]]
  /\ ledger = <<>>
  /\ holidays = {}
  /\ lockedMonths = {}
  /\ call = [p \in Calls |-> Idle]
  /\ holidayAdds = 0
  /\ failures = 0

-----------------------------------------------------------------------------
\* Employee: create, cancel

\* create, first query: the self-overlap check.
CreateCheck(p) ==
  /\ p \in EmployeeCalls /\ call[p] = Idle
  /\ \E u \in Internal, type \in AskedTypes, span \in Spans :
       /\ \A d \in span : d >= today
       /\ ~Clashes(u, span)
       /\ Become(p, [at |-> "insert", user |-> u, type |-> type, span |-> span])
  /\ UNCHANGED <<database, counters>>

\* create, the rest: count the working days, split, route, insert.  What is
\* read here only fixes the values inserted, so the reads are one step.
CreateInsert(p) ==
  /\ p \in EmployeeCalls /\ call[p].at = "insert"
  /\ LET total == CountWorkingDays(call[p].span, holidays)
         paid == PaidPart(call[p].type, total, call[p].user)
     IN \/ total = 0 /\ UNCHANGED request
        \/ /\ total > 0
           /\ \E r \in Requests, level \in Levels, a \in Users \cup {NoOne} :
                /\ request[r].status = "none" /\ Owner[r] = call[p].user
                /\ IsInitialApprover(level, a, call[p].user)
                /\ request' = [request EXCEPT ![r] =
                     [status |-> "PENDING", type |-> call[p].type, span |-> call[p].span,
                      total |-> total, paid |-> paid, unpaid |-> total - paid,
                      level |-> level, approver |-> a, due |-> FALSE, reviewer |-> NoOne]]
  /\ Become(p, Idle)
  /\ UNCHANGED <<balance, ledger, holidays, lockedMonths, counters>>

\* cancel, first query: only the owner's PENDING request.
CancelCheck(p) ==
  /\ p \in EmployeeCalls /\ call[p] = Idle
  /\ \E r \in Requests :
       /\ request[r].status = "PENDING"
       /\ Become(p, [at |-> "cancel", request |-> r])
  /\ UNCHANGED <<database, counters>>

\* cancel, second query: update by id, whatever the status is by now.
CancelWrite(p) ==
  /\ p \in EmployeeCalls /\ call[p].at = "cancel"
  /\ request' = [request EXCEPT ![call[p].request].status = "CANCELLED"]
  /\ Become(p, Idle)
  /\ UNCHANGED <<balance, ledger, holidays, lockedMonths, counters>>

-----------------------------------------------------------------------------
\* Approver: decide

\* decide, up to the payroll check.
DecideCheck(p) ==
  /\ p \in ApproverCalls /\ call[p] = Idle
  /\ \E r \in Requests, a \in Users :
       /\ request[r].status = "PENDING"
       /\ CanApprove(a, r)
       /\ \/ /\ MonthsOf(request[r].span) \cap lockedMonths = {}
             /\ Become(p, [at |-> "split", request |-> r, caller |-> a,
                           total |-> request[r].total])
          \/ Become(p, [at |-> "claim", request |-> r, caller |-> a, verdict |-> "REJECTED",
                        paid |-> request[r].paid, unpaid |-> request[r].unpaid])
  /\ UNCHANGED <<database, counters>>

\* decide: re-split the total it read against the balance of this moment.
DecideSplit(p) ==
  /\ p \in ApproverCalls /\ call[p].at = "split"
  /\ LET r == call[p].request
         paid == PaidPart(request[r].type, call[p].total, Owner[r])
     IN Become(p, [at |-> "claim", request |-> r, caller |-> call[p].caller,
                   verdict |-> "APPROVED", paid |-> paid, unpaid |-> call[p].total - paid])
  /\ UNCHANGED <<database, counters>>

\* decide: the conditional updateMany.  A lost claim is a 409.
DecideClaim(p) ==
  /\ p \in ApproverCalls /\ call[p].at = "claim"
  /\ LET c == call[p]
         won == Claimable(c.request)
         charged == c.verdict = "APPROVED" /\ c.paid > 0 /\ request[c.request].type # "UNPAID"
     IN /\ request' = IF won
             THEN [request EXCEPT ![c.request] =
                    [@ EXCEPT !.status = c.verdict, !.reviewer = c.caller, !.paid = c.paid,
                              !.unpaid = c.unpaid, !.approver = NoOne]]
             ELSE request
        /\ Become(p, IF won /\ charged
                       THEN [at |-> "charge", request |-> c.request, days |-> c.paid]
                       ELSE Idle)
  /\ UNCHANGED <<balance, ledger, holidays, lockedMonths, counters>>

\* applyUsage(+paidDays): the balance, then the ledger row.
ChargeBalance(p) ==
  /\ p \in ApproverCalls /\ call[p].at = "charge"
  /\ ApplyUsage(Owner[call[p].request], call[p].days)
  /\ Become(p, [call[p] EXCEPT !.at = "chargeRow"])
  /\ UNCHANGED <<request, ledger, holidays, lockedMonths, counters>>

ChargeRowDropped(p) ==
  /\ p \in ApproverCalls /\ call[p].at = "chargeRow"
  /\ Become(p, Idle)
  /\ UNCHANGED <<request, balance, ledger, holidays, lockedMonths, counters>>

ChargeRow(p) ==
  /\ p \in ApproverCalls /\ call[p].at = "chargeRow"
  /\ ledger' = Append(ledger, LedgerEntry(Owner[call[p].request], "USAGE", call[p].days,
                                          call[p].request, 0))
  /\ Become(p, Idle)
  /\ UNCHANGED <<request, balance, holidays, lockedMonths, counters>>

-----------------------------------------------------------------------------
\* Admin: addHoliday, deleteHoliday; Finance: payroll lock and unlock

\* addHoliday: the unique date makes lookup and insert one step.
AddHoliday(p) ==
  /\ p \in AdminCalls /\ call[p] = Idle /\ holidayAdds < MaxHolidayAdds
  /\ \E d \in Days \ holidays :
       /\ holidays' = holidays \cup {d}
       /\ Become(p, [at |-> "snapshot", date |-> d])
  /\ holidayAdds' = holidayAdds + 1
  /\ UNCHANGED <<request, balance, ledger, lockedMonths, today, failures>>

Continue(p, todo) ==
  Become(p, IF todo = {} THEN Idle
            ELSE [at |-> "recompute", date |-> call[p].date, todo |-> todo, seen |-> call[p].seen])

\* recomputeApprovedLeaveForHoliday: read the affected requests once.
HolidaySnapshot(p) ==
  /\ p \in AdminCalls /\ call[p].at = "snapshot"
  /\ LET affected == Affected(call[p].date)
         seen == [r \in Requests |->
                   IF r \in affected THEN [paid |-> request[r].paid, unpaid |-> request[r].unpaid]
                                     ELSE [paid |-> 0, unpaid |-> 0]]
     IN Become(p, IF affected = {} THEN Idle
                  ELSE [at |-> "recompute", date |-> call[p].date, todo |-> affected,
                        seen |-> seen])
  /\ UNCHANGED <<database, counters>>

\* Per request: recount against the holidays of this moment, and compare with
\* the paid days of the snapshot.  No refund: on to the next one.
HolidayRecount(p) ==
  /\ p \in AdminCalls /\ call[p].at = "recompute"
  /\ \E r \in call[p].todo :
       LET total == CountWorkingDays(request[r].span, holidays)
           was == call[p].seen[r]
           paid == PaidAfter(was, total)
           rest == call[p].todo \ {r}
       IN IF paid >= was.paid THEN Continue(p, rest)
          ELSE Become(p, [at |-> "shrink", date |-> call[p].date, todo |-> rest,
                          seen |-> call[p].seen, request |-> r, total |-> total,
                          paid |-> paid, days |-> was.paid - paid])
  /\ UNCHANGED <<database, counters>>

HolidayShrink(p) ==
  /\ p \in AdminCalls /\ call[p].at = "shrink"
  /\ request' = [request EXCEPT ![call[p].request] =
                  [@ EXCEPT !.total = call[p].total, !.paid = call[p].paid]]
  /\ Become(p, [call[p] EXCEPT !.at = "refund"])
  /\ UNCHANGED <<balance, ledger, holidays, lockedMonths, counters>>

\* applyUsage(-refund, 'REFUND', date).
RefundBalance(p) ==
  /\ p \in AdminCalls /\ call[p].at = "refund"
  /\ ApplyUsage(Owner[call[p].request], - call[p].days)
  /\ Become(p, [call[p] EXCEPT !.at = "refundRow"])
  /\ UNCHANGED <<request, ledger, holidays, lockedMonths, counters>>

\* The REFUND row is keyed by the holiday: a second one for the same user and
\* date violates the unique index, and the handler dies with its loop unfinished.
RefundRow(p) ==
  /\ p \in AdminCalls /\ call[p].at = "refundRow"
  /\ LET u == Owner[call[p].request]
     IN IF KeyTaken(u, "REFUND", call[p].date)
          THEN Become(p, Idle) /\ UNCHANGED ledger
          ELSE /\ ledger' = Append(ledger, LedgerEntry(u, "REFUND", - call[p].days,
                                                       call[p].request, call[p].date))
               /\ Continue(p, call[p].todo)
  /\ UNCHANGED <<request, balance, holidays, lockedMonths, counters>>

DeleteHoliday(p) ==
  /\ p \in AdminCalls /\ call[p] = Idle
  /\ \E d \in holidays : holidays' = holidays \ {d}
  /\ UNCHANGED <<request, balance, ledger, lockedMonths, call, counters>>

\* PayrollService.lock and unlock, as leave sees them.
LockMonth(p) ==
  /\ p \in FinanceCalls /\ call[p] = Idle
  /\ \E d \in Days : lockedMonths' = lockedMonths \cup {MonthOf(d)}
  /\ UNCHANGED <<request, balance, ledger, holidays, call, counters>>

UnlockMonth(p) ==
  /\ p \in FinanceCalls /\ call[p] = Idle
  /\ \E m \in lockedMonths : lockedMonths' = lockedMonths \ {m}
  /\ UNCHANGED <<request, balance, ledger, holidays, call, counters>>

-----------------------------------------------------------------------------
\* Jobs: runAccrual, runEscalationSweep

\* The monthly cron runs it for the current month, HR for any date.
AccrualStart(p) ==
  /\ p \in JobCalls /\ call[p] = Idle /\ "accrual" \in Jobs /\ Internal # {}
  /\ \E d \in Days : Become(p, [at |-> "accrue", month |-> MonthOf(d), staff |-> Internal])
  /\ UNCHANGED <<database, counters>>

NextStaff(p, staff) ==
  Become(p, IF staff = {} THEN Idle
            ELSE [at |-> "accrue", month |-> call[p].month, staff |-> staff])

\* The ledger row is the idempotency key: a duplicate skips the user.
AccrualRow(p) ==
  /\ p \in JobCalls /\ call[p].at = "accrue"
  /\ \E u \in call[p].staff :
       LET m == call[p].month
           rest == call[p].staff \ {u}
       IN IF KeyTaken(u, "ACCRUAL", m)
            THEN NextStaff(p, rest) /\ UNCHANGED ledger
            ELSE /\ ledger' = Append(ledger, LedgerEntry(u, "ACCRUAL", PerMonth, NoRequest, m))
                 /\ Become(p, [at |-> "credit", month |-> m, staff |-> rest, user |-> u])
  /\ UNCHANGED <<request, balance, holidays, lockedMonths, counters>>

\* Upsert the year's balance row and read it.
AccrualRead(p) ==
  /\ p \in JobCalls /\ call[p].at = "credit"
  /\ LET u == call[p].user
         y == YearOfMonth(call[p].month)
     IN /\ balance' = [balance EXCEPT ![u][y].exists = TRUE]
        /\ Become(p, [at |-> "creditWrite", month |-> call[p].month, staff |-> call[p].staff,
                      user |-> u, accrued |-> Credited(balance[u][y].accrued)])
  /\ UNCHANGED <<request, ledger, holidays, lockedMonths, counters>>

AccrualWrite(p) ==
  /\ p \in JobCalls /\ call[p].at = "creditWrite"
  /\ balance' = [balance EXCEPT ![call[p].user][YearOfMonth(call[p].month)].accrued =
                   call[p].accrued]
  /\ NextStaff(p, call[p].staff)
  /\ UNCHANGED <<request, ledger, holidays, lockedMonths, counters>>

\* The sweep reads every due PENDING request once.
SweepRead(p) ==
  /\ p \in JobCalls /\ call[p] = Idle
  /\ LET overdue == {r \in Requests : request[r].status = "PENDING" /\ request[r].due}
     IN /\ overdue # {}
        /\ Become(p, [at |-> "escalate", todo |-> overdue,
                      seen |-> [r \in Requests |->
                                 IF r \in overdue THEN request[r].level ELSE "HR"]])
  /\ UNCHANGED <<database, counters>>

\* ... and updates each by id: at HR only the deadline, below HR the routing.
SweepWrite(p) ==
  /\ p \in JobCalls /\ call[p].at = "escalate"
  /\ \E r \in call[p].todo :
       /\ \/ /\ call[p].seen[r] = "HR"
             /\ request' = [request EXCEPT ![r].due = FALSE]
          \/ /\ call[p].seen[r] # "HR"
             /\ \E a \in Users \cup {NoOne} :
                  /\ IsHRApprover(a, Owner[r])
                  /\ request' = [request EXCEPT ![r] = Escalated(@, a)]
       /\ Become(p, IF call[p].todo = {r} THEN Idle
                    ELSE [call[p] EXCEPT !.todo = @ \ {r}])
  /\ UNCHANGED <<balance, ledger, holidays, lockedMonths, counters>>

-----------------------------------------------------------------------------
\* Environment

AdvanceDay ==
  /\ today < NumDays
  /\ today' = today + 1
  /\ UNCHANGED <<database, call, holidayAdds, failures>>

\* escalationHours pass without a decision.
BecomeDue(r) ==
  /\ "escalation" \in Jobs /\ request[r].status = "PENDING" /\ ~request[r].due
  /\ request' = [request EXCEPT ![r].due = TRUE]
  /\ UNCHANGED <<balance, ledger, holidays, lockedMonths, call, counters>>

\* A query throws, or the process restarts: the handler is gone and what it
\* had written stays.
Fail(p) ==
  /\ call[p] # Idle /\ failures < MaxFailures
  /\ Become(p, Idle)
  /\ failures' = failures + 1
  /\ UNCHANGED <<database, today, holidayAdds>>

EmployeeStep(p) == CreateCheck(p) \/ CreateInsert(p) \/ CancelCheck(p) \/ CancelWrite(p)
ApproverStep(p) ==
  \/ DecideCheck(p) \/ DecideSplit(p) \/ DecideClaim(p) \/ ChargeBalance(p) \/ ChargeRow(p)
HolidayStep(p) ==
  \/ HolidaySnapshot(p) \/ HolidayRecount(p) \/ HolidayShrink(p)
  \/ RefundBalance(p) \/ RefundRow(p)
AdminStep(p) == AddHoliday(p) \/ HolidayStep(p) \/ DeleteHoliday(p)
FinanceStep(p) == LockMonth(p) \/ UnlockMonth(p)
JobStep(p) ==
  \/ AccrualStart(p) \/ AccrualRow(p) \/ AccrualRead(p) \/ AccrualWrite(p)
  \/ SweepRead(p) \/ SweepWrite(p)
Environment == AdvanceDay \/ (\E r \in Requests : BecomeDue(r))

Next ==
  \/ \E p \in Calls : \/ EmployeeStep(p) \/ ApproverStep(p) \/ AdminStep(p)
                      \/ FinanceStep(p) \/ JobStep(p) \/ Fail(p)
  \/ Environment

Spec == Init /\ [][Next]_vars
=============================================================================
