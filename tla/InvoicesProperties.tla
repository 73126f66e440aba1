------------------------- MODULE InvoicesProperties -------------------------
(***************************************************************************)
(* What Invoices should guarantee.                                         *)
(***************************************************************************)
EXTENDS Invoices, FiniteSetsExt

\* Type invariant: every row and every call has the shape the schema gives it.
TypeOK ==
  /\ inv \in [Ids -> InvoiceRow \cup {Unused}]
  /\ lastSeq \in [Years -> Nat]
  /\ payments \in Seq(PaymentRow)
  /\ today \in Nat
  /\ call \in [Calls -> CallState]

\* create, reissue, cancel: the numbers of a year are 1 .. lastSeq without a gap
\* and without a repeat, cancelled invoices included, however the calls race.
GaplessNumbers ==
  /\ \A y \in Years :
       {inv[i].number.seq : i \in {j \in Ids : Used(j) /\ inv[j].number.year = y}} = 1 .. lastSeq[y]
  /\ \A i, j \in Ids :
       (Used(i) /\ Used(j) /\ inv[i].number = inv[j].number) => i = j

\* recordPayment, reversePayment: no race puts money on an invoice that is still
\* a draft, and none turns an invoice with money back into a draft.
NoMoneyOnDrafts ==
  /\ \A i \in Ids : inv[i].status = "DRAFT" =>
       inv[i].paid = 0 /\ \A n \in DOMAIN payments : payments[n].invoice # i
  /\ \A p \in Calls : call[p].at = "money" =>
       inv[call[p].payment.invoice].status \notin {"none", "DRAFT"}

PaymentsOf(i) == {n \in DOMAIN payments : payments[n].invoice = i}
SumOf(rows) == MapThenSumSet(LAMBDA n : payments[n].amount, rows)

\* One staff call at a time, the sweep running: amountPaid is the sum of all the
\* invoice's payment rows, reversals included.
PaidIsAllPayments == \A i \in Ids : Used(i) => inv[i].paid = SumOf(PaymentsOf(i))

\* One staff call at a time: nobody pays more than the total.
PaidWithinTotal == \A i \in Ids : Used(i) => inv[i].paid <= inv[i].total

\* One staff call at a time: PAID, PARTIALLY_PAID and SENT agree with the money (OVERDUE: see
\* OverdueOwes of MCInvoices; CANCELLED keeps what was paid).
SettledIsPaid ==
  \A i \in Ids :
    /\ inv[i].status = "SENT" => inv[i].paid <= 0
    /\ inv[i].status = "PAID" => inv[i].paid = inv[i].total
    /\ inv[i].status = "PARTIALLY_PAID" => inv[i].paid > 0 /\ inv[i].paid < inv[i].total

\* updateDraft, send: a step that leaves every invoice once sent its content.
StaysFrozen ==
  \A i \in Ids : inv[i].status \notin {"none", "DRAFT"} =>
    /\ inv'[i].total = inv[i].total /\ inv'[i].due = inv[i].due
    /\ inv'[i].issued = inv[i].issued /\ inv'[i].number = inv[i].number

\* sweepOverdue: an unpaid invoice past its due date is flagged, unless it is
\* paid, cancelled or changed first.
Flaggable(i) ==
  inv[i].status \in {"SENT", "PARTIALLY_PAID"} /\ inv[i].due < today /\ inv[i].paid < inv[i].total
OverdueIsFlagged == \A i \in Ids : Flaggable(i) ~> ~ Flaggable(i)

=============================================================================
