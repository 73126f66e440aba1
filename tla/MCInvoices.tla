----------------------------- MODULE MCInvoices -----------------------------
(***************************************************************************)
(* A small instance of Invoices, in two families.  In the "racing" one two *)
(* staff calls interleave on one day; in the "serial" one they take turns  *)
(* while the overdue sweep runs, over several days and totals.  Invoice a   *)
(* is created first.                                                       *)
(***************************************************************************)
EXTENDS InvoicesProperties, TLC

CONSTANTS a, b, s1

VARIABLES
  mode,
  straddled   \* history, of the serial family: invoices paid in full while a sweep under way had
              \* read them as past due and had not written them yet

Turns == \A p \in StaffCalls : call[p] # Idle => p = s1
Family ==
  /\ mode = "serial" => Turns
  /\ mode = "racing" => today = 1 /\ \A i \in Ids : Used(i) => inv[i].total = 2 /\ inv[i].due = 1
  /\ Used(b) => Used(a)

Straddling ==
  {i \in Ids : /\ Used(i) /\ inv[i].paid >= inv[i].total
               /\ \E p \in SweepCalls : call[p].at = "sweep" /\ i \in call[p].todo}

MCInit == Init /\ mode \in {"serial", "racing"} /\ straddled = {}
MCNext ==
  /\ Next /\ UNCHANGED mode /\ Family'
  /\ straddled' = IF mode = "serial" THEN straddled \cup Straddling' ELSE straddled
MCSpec == MCInit /\ [][MCNext]_<<vars, mode, straddled>> /\ Fairness

\* An invoice that says OVERDUE still owes something, unless it was paid in full between the
\* read and the write of one sweep (sweepOverdue writes by id what it read, and reads no more).
OverdueOwes ==
  \A i \in Ids : inv[i].status = "OVERDUE" => inv[i].paid < inv[i].total \/ i \in straddled

\* One staff call at a time, the sweep running: the payments, the balance and the status of
\* every invoice agree, but for one case: the sweep a full payment overtakes leaves OVERDUE on it.
SerialMoney ==
  mode = "serial" => PaidIsAllPayments /\ PaidWithinTotal /\ SettledIsPaid /\ OverdueOwes

\* One staff call at a time: once sent, an invoice keeps its content.
SerialFrozen == [][mode = "serial" => StaysFrozen]_vars
=============================================================================
