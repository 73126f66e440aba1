---------------------------- MODULE MCLeaveBooks ----------------------------
(***************************************************************************)
(* The run LeaveBooks explores two families of behaviours of that instance: *)
(* in "deciding" two approvers work on two requests, in "booking" one       *)
(* request meets holidays and accruals over three days.                     *)
(***************************************************************************)
EXTENDS MCLeave

CONSTANTS a1, j1

VARIABLE mode

Filed == {r \in Requests : request[r].status # "none"}
Accruals == {i \in DOMAIN ledger : ledger[i].entry = "ACCRUAL"}
OnlyOneOf(calls, one) == \A p \in calls : call[p].at # "idle" => p = one

\* Two requests within one month, no holiday, one accrual run for that month, which no approver
\* overlaps (in "booking" one does).
InDeciding ==
  /\ today <= 2 /\ failures = 0 /\ holidayAdds = 0
  /\ \A r \in Filed : request[r].span \subseteq {1, 2}
  /\ \A p \in Calls : call[p].at = "insert" => call[p].span \subseteq {1, 2}
  /\ OnlyOneOf(JobCalls, j1) /\ \A i \in Accruals : ledger[i].key = 1
  /\ \A p \in JobCalls : call[p].at # "idle" =>
       call[p].month = 1 /\ \A q \in ApproverCalls : call[q].at = "idle"

OneAccrual == failures = 0 /\ OnlyOneOf(JobCalls, j1) /\ Cardinality(Accruals) <= 1

\* Once a request is filed or a holiday added, one accrual run for one month is
\* enough; two runs at once, several months and a run that died are explored
\* without them: a month is credited the same way whoever is on leave.  The
\* second holiday meets no accrual in flight.
InBooking ==
  /\ OnlyOneOf(ApproverCalls, a1) /\ Cardinality(Filed) <= 1
  /\ Filed # {} \/ holidayAdds > 0 => OneAccrual
  /\ Filed # {} /\ holidayAdds = 2 => today = 1 /\ \A p \in JobCalls : call[p].at = "idle"

MCInit == Init /\ mode \in {"deciding", "booking"}
MCNext ==
  /\ Next
  /\ UNCHANGED mode
  /\ (mode = "deciding" => InDeciding') /\ (mode = "booking" => InBooking')
MCSpec == MCInit /\ [][MCNext]_<<vars, mode>>

\* What an approved leave is charged in the ledger is what its row says is paid
\* (addHoliday's refunds included), while one approver works.
BookedIsCharged == mode = "booking" => LedgerMatchesPaid

\* A balance is never overdrawn while one approver works: decide splits against
\* the balance it then charges.
OneApproverStaysWithin == mode = "booking" => NeverOverdrawn
=============================================================================
