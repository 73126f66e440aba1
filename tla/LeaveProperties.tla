-------------------------- MODULE LeaveProperties --------------------------
(***************************************************************************)
(* What Leave should guarantee, as invariants, action properties, liveness *)
(* properties and a refinement.                                            *)
(***************************************************************************)
EXTENDS Leave, FiniteSetsExt

\* Type invariant: every row and every handler has the shape the schema and
\* the code give it.
TypeOK ==
  /\ today \in Days
  /\ request \in [Requests -> RequestRow]
  /\ balance \in [Users -> [Years -> BalanceRow]]
  /\ ledger \in Seq(LedgerRow)
  /\ holidays \in SUBSET Days
  /\ lockedMonths \in SUBSET Months
  /\ call \in [Calls -> CallState]
  /\ holidayAdds \in Nat
  /\ failures \in Nat

-----------------------------------------------------------------------------
\* Decisions

\* decide: once a reviewer is recorded, no later call changes who decided or
\* turns an approval into a rejection ("first write wins").  A racing cancel
\* may still overwrite the status: see CancelOnlyPending.
FirstDecisionStands ==
  [][\A r \in Requests : request[r].reviewer # NoOne =>
       /\ request'[r].reviewer = request[r].reviewer
       /\ request'[r].status \in {request[r].status, "CANCELLED"}]_vars

-----------------------------------------------------------------------------
\* Charges and refunds

Charging(p) == call[p].at \in {"charge", "chargeRow"}
Refunding(p) == call[p].at \in {"refund", "refundRow"}

IsUsage(i) == ledger[i].entry = "USAGE"
RowsOf(r) == {i \in DOMAIN ledger : ledger[i].request = r}
LedgerDays(rows) == MapThenSumSet(LAMBDA i : ledger[i].days, rows)

\* decide: however many approvers race, a request reaches the ledger as usage
\* at most once, and only after somebody claimed it.
ChargedOnce ==
  /\ \A i, j \in DOMAIN ledger :
       (IsUsage(i) /\ IsUsage(j) /\ ledger[i].request = ledger[j].request) => i = j
  /\ \A i \in DOMAIN ledger : IsUsage(i) => request[ledger[i].request].reviewer # NoOne

Deciding(p) == call[p].at \in {"split", "claim"}

\* The inductive invariant behind the decision properties: an undecided
\* request has no reviewer; a handler that charges a request works for its one
\* winning claim, which the ledger does not know yet; and nobody on the way to
\* a claim decides their own request.
DecisionInv ==
  /\ \A r \in Requests : request[r].status \in {"none", "PENDING"} => request[r].reviewer = NoOne
  /\ \A p \in Calls : Charging(p) => request[call[p].request].reviewer # NoOne
  /\ \A p \in Calls : Charging(p) =>
       \A i \in DOMAIN ledger : IsUsage(i) => ledger[i].request # call[p].request
  /\ \A p, q \in Calls :
       (Charging(p) /\ Charging(q) /\ call[p].request = call[q].request) => p = q
  /\ \A p \in Calls : Deciding(p) => call[p].caller # Owner[call[p].request]
  /\ \A i \in DOMAIN ledger : IsUsage(i) => ledger[i].request \in Requests
  /\ ChargedOnce

Busy(r) ==
  \E p \in Calls :
    \/ Charging(p) /\ call[p].request = r
    \/ Refunding(p) /\ call[p].request = r

\* decide and addHoliday: between handlers, what the ledger charged a decided
\* request, less what it gave back, is the paidDays of its row, as long as no
\* handler died on the way.
LedgerMatchesPaid ==
  failures = 0 => \A r \in Requests :
    (request[r].reviewer # NoOne /\ request[r].type # "UNPAID" /\ ~Busy(r)
       /\ request[r].status = "APPROVED")
      => LedgerDays(RowsOf(r)) = request[r].paid

\* applyUsage: "append-only ledger backing every balance change": a person's
\* used days are the ledger's usage less its refunds, once the row that follows
\* each balance write is counted, unless a handler died between the two.
UsedIsBackedByLedger ==
  failures = 0 => \A u \in Users :
    LET rows == {i \in DOMAIN ledger : ledger[i].user = u /\ ledger[i].entry # "ACCRUAL"}
        unwritten(p) == IF call[p].at = "chargeRow" /\ Owner[call[p].request] = u
                          THEN call[p].days
                        ELSE IF call[p].at = "refundRow" /\ Owner[call[p].request] = u
                          THEN - call[p].days
                        ELSE 0
    IN MapThenSumSet(LAMBDA y : balance[u][y].used, Years)
         = LedgerDays(rows) + MapThenSumSet(unwritten, Calls)

\* decide: the balance check at approval keeps a person's used days within the
\* accrued ones.
NeverOverdrawn ==
  \A u \in Users, y \in Years : balance[u][y].used <= balance[u][y].accrued

-----------------------------------------------------------------------------
\* Accrual

MonthsAccrued(u, y) ==
  {ledger[i].key : i \in {j \in DOMAIN ledger : ledger[j].user = u /\ ledger[j].entry = "ACCRUAL"}}
    \cap {m \in Months : YearOfMonth(m) = y}

\* runAccrual: re-run, run twice at once or killed half way, it never credits
\* more than one PerMonth for a month, nor more than the yearly quota.
AccruedWithinLedger ==
  \A u \in Users, y \in Years :
    balance[u][y].accrued <= Least(Cap, PerMonth * Cardinality(MonthsAccrued(u, y)))

-----------------------------------------------------------------------------
\* Refinement and liveness

UsageRows == {i \in DOMAIN ledger : IsUsage(i)}

Decision == INSTANCE LeaveDecision WITH
  decidedBy <- [r \in Requests |-> request[r].reviewer],
  charges <- {[row |-> i, request |-> ledger[i].request] : i \in UsageRows}

\* The leave handlers, interleaved query by query, implement LeaveDecision.
ImplementsDecision == Decision!Spec

\* The event loop resumes a handler whose query has answered; BullMQ's worker
\* takes the hourly sweep off its queue however often other jobs are queued.
Fairness ==
  /\ \A p \in ApproverCalls :
       WF_vars(DecideSplit(p) \/ DecideClaim(p) \/ ChargeBalance(p) \/ ChargeRow(p))
  /\ \A p \in JobCalls : /\ WF_vars(AccrualRow(p) \/ AccrualRead(p) \/ AccrualWrite(p)
                                      \/ SweepWrite(p))
                         /\ SF_vars(SweepRead(p))

FairSpec == Spec /\ Fairness

\* runEscalationSweep: a request nobody acts on in escalationHours leaves the
\* team lead's level.
OverdueIsEscalated ==
  \A r \in Requests :
    (request[r].status = "PENDING" /\ request[r].due /\ request[r].level = "TEAM_LEAD")
      ~> (request[r].status # "PENDING" \/ request[r].level = "HR")

\* decide: an approval that pays days is in the ledger in the end, unless its
\* handler dies: nothing retries it.
ApprovalIsCharged ==
  \A r \in Requests :
    (\E p \in ApproverCalls : Charging(p) /\ call[p].request = r)
      ~> \/ failures > 0
         \/ \E i \in DOMAIN ledger : IsUsage(i) /\ ledger[i].request = r
=============================================================================
