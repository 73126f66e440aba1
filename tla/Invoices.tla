------------------------------ MODULE Invoices ------------------------------
(***************************************************************************)
(* Invoices, their numbers and their payments                              *)
(* (apps/api/src/finance/invoices.service.ts).                             *)
(*                                                                         *)
(* Every handler but create reads the invoice, decides, and later writes   *)
(* by id what it decided: call[p] is what activation p carries in between. *)
(* Lines are reduced to their total, the three tax columns to whether they *)
(* add up to the tax (split).  Amounts are in paise.                       *)
(***************************************************************************)
EXTENDS Integers, Sequences, FiniteSets

CONSTANTS
  Ids,          \* row ids of invoices
  NoInvoice,    \* a null invoice id
  Years,        \* years an invoice may be issued in
  Totals,       \* totals an invoice may have
  Amounts,      \* amounts a payment may have
  LastDay,      \* bound on the calendar
  StaffCalls,   \* bound: concurrent calls of the finance staff
  SweepCalls,   \* the daily overdue job and the sweep on demand
  MaxPayments   \* bound on payment rows a call still loads

ASSUME BillingAssumption ==
  /\ NoInvoice \notin Ids
  /\ Years \subseteq Nat /\ Totals \subseteq Nat /\ Amounts \subseteq Nat \ {0}
  /\ LastDay \in Nat /\ MaxPayments \in Nat
  /\ StaffCalls \cap SweepCalls = {}

VARIABLES
  inv,        \* [Ids -> invoice row, or Unused]
  lastSeq,    \* [Years -> InvoiceSequence.lastSeq]
  payments,   \* rows of Payment; a row's id is its position
  today,
  call

vars == <<inv, lastSeq, payments, today, call>>
database == <<inv, lastSeq, payments>>

-----------------------------------------------------------------------------
Statuses == {"DRAFT", "SENT", "PARTIALLY_PAID", "PAID", "OVERDUE", "CANCELLED"}
Days == 1 .. LastDay
Calls == StaffCalls \cup SweepCalls

Number == [year : Years, seq : Nat \ {0}]
InvoiceRow ==
  [number : Number, status : Statuses, issued : Years, due : Days, total : Totals, paid : Int,
   split : BOOLEAN, reissuedFrom : Ids \cup {NoInvoice}]
Unused == [status |-> "none"]
PaymentRow == [invoice : Ids, amount : Int, isReversal : BOOLEAN]

Used(i) == inv[i] # Unused

\* Decisions a call carries to its write.
Idle == [at |-> "idle"]
ById == [at : {"send", "cancel"}, id : Ids]
Edit == [at : {"edit"}, id : Ids, issued : Years, due : Days, total : Totals]
Copy == [at : {"reissue"}, id : Ids, row : InvoiceRow]
Money == [at : {"money"}, payment : PaymentRow, status : Statuses \ {"DRAFT"}, paid : Int]
Sweep == [at : {"sweep"}, todo : SUBSET Ids]
CallState == {Idle} \cup ById \cup Edit \cup Copy \cup Money \cup Sweep

-----------------------------------------------------------------------------
\* nextNumber: increments the year's counter in the caller's transaction.
NextNumberByCount(year) ==
  [year |-> year,
   seq |-> 1 + Cardinality({i \in Ids : /\ Used(i) /\ inv[i].number.year = year
                                        /\ inv[i].status # "CANCELLED"})]
NextNumber(year) == [year |-> year, seq |-> lastSeq[year] + 1]

\* statusFor.
StatusFor(current, total, paid) ==
  CASE paid >= total -> "PAID"
    [] paid < total /\ current = "OVERDUE" -> "OVERDUE"
    [] paid < total /\ current # "OVERDUE" /\ paid > 0 -> "PARTIALLY_PAID"
    [] OTHER -> "SENT"

Become(p, next) == call' = [call EXCEPT ![p] = next]

\* A new row takes the next number of its year, in one transaction.
Insert(i, row) ==
  /\ inv[i] = Unused
  /\ inv' = [inv EXCEPT ![i] = row]
  /\ lastSeq' = [lastSeq EXCEPT ![row.number.year] = row.number.seq]

Draft(number, issued, due, total, split, from) ==
  [number |-> number, status |-> "DRAFT", issued |-> issued, due |-> due, total |-> total,
   paid |-> 0, split |-> split, reissuedFrom |-> from]

\* What a staff call reads before it decides.
Loads(p) == p \in StaffCalls /\ call[p] = Idle /\ UNCHANGED <<inv, lastSeq, payments, today>>

\* How it ends.
Writes(p, kind) == p \in StaffCalls /\ call[p].at = kind /\ Become(p, Idle) /\ UNCHANGED today

-----------------------------------------------------------------------------
Init ==
  /\ inv = [i \in Ids |-> Unused]
  /\ lastSeq = [y \in Years |-> 0]
  /\ payments = <<>>
  /\ today = 1
  /\ call = [p \in Calls |-> Idle]

\* create, createFromProject.
Create(p) ==
  /\ p \in StaffCalls /\ call[p] = Idle
  /\ \E i \in Ids, y \in Years, due \in Days, total \in Totals :
       Insert(i, Draft(NextNumber(y), y, due, total, TRUE, NoInvoice))
  /\ UNCHANGED <<payments, today, call>>

EditableUntilPaid(i) == inv[i].status \notin {"none", "PAID", "CANCELLED"}
Editable(i) == inv[i].status = "DRAFT"

EditLoad(p) ==
  /\ Loads(p)
  /\ \E i \in Ids, y \in Years, due \in Days, total \in Totals :
       /\ Editable(i)
       /\ Become(p, [at |-> "edit", id |-> i, issued |-> y, due |-> due, total |-> total])

\* updateDraft overwrites the content and leaves number, status and amountPaid.
EditWrite(p) ==
  /\ Writes(p, "edit")
  /\ LET c == call[p]
     IN inv' = [inv EXCEPT ![c.id] =
          [inv[c.id] EXCEPT !.issued = c.issued, !.due = c.due, !.total = c.total, !.split = TRUE]]
  /\ UNCHANGED <<lastSeq, payments>>

SendLoad(p) ==
  /\ Loads(p)
  /\ \E i \in Ids : inv[i].status = "DRAFT" /\ Become(p, [at |-> "send", id |-> i])

CancelLoad(p) ==
  /\ Loads(p)
  /\ \E i \in Ids : Used(i) /\ inv[i].status # "PAID" /\ Become(p, [at |-> "cancel", id |-> i])

SetStatus(p, kind, status) ==
  /\ Writes(p, kind)
  /\ inv' = [inv EXCEPT ![call[p].id] = [inv[call[p].id] EXCEPT !.status = status]]
  /\ UNCHANGED <<lastSeq, payments>>

SendWrite(p) == SetStatus(p, "send", "SENT")
CancelWrite(p) == SetStatus(p, "cancel", "CANCELLED")

ReissueLoad(p) ==
  /\ Loads(p)
  /\ \E i \in Ids :
       /\ Used(i) /\ inv[i].status \notin {"PAID", "CANCELLED"}
       /\ Become(p, [at |-> "reissue", id |-> i, row |-> inv[i]])

\* The copy leaves out the tax columns.
ReissueWrite(p) ==
  /\ Writes(p, "reissue")
  /\ LET c == call[p]
     IN \E i \in Ids \ {c.id} :
          /\ inv[i] = Unused
          /\ LET number == NextNumber(c.row.issued)
             IN /\ inv' = [inv EXCEPT ![c.id] = [inv[c.id] EXCEPT !.status = "CANCELLED"],
                                      ![i] = Draft(number, c.row.issued, c.row.due, c.row.total,
                                                   FALSE, c.id)]
                /\ lastSeq' = [lastSeq EXCEPT ![number.year] = number.seq]
  /\ UNCHANGED payments

Payable(i) == inv[i].status \notin {"none", "DRAFT", "CANCELLED"}

WithinTotal(i, amount) == amount <= inv[i].total
WithinBalance(i, amount) == amount <= inv[i].total - inv[i].paid

PayLoad(p) ==
  /\ Loads(p)
  /\ Len(payments) < MaxPayments
  /\ \E i \in Ids, amount \in Amounts :
       /\ Payable(i) /\ WithinBalance(i, amount)
       /\ LET paid == inv[i].paid + amount
          IN Become(p, [at |-> "money",
                        payment |-> [invoice |-> i, amount |-> amount, isReversal |-> FALSE],
                        status |-> StatusFor(inv[i].status, inv[i].total, paid),
                        paid |-> paid])

\* reversePayment, up to its transaction.
ReverseLoad(p) ==
  /\ Loads(p)
  /\ Len(payments) < MaxPayments
  /\ \E n \in DOMAIN payments :
       /\ ~ payments[n].isReversal
       /\ LET i == payments[n].invoice
              paid == inv[i].paid - payments[n].amount
          IN Become(p, [at |-> "money",
                        payment |-> [invoice |-> i, amount |-> - payments[n].amount,
                                     isReversal |-> TRUE],
                        status |-> StatusFor(inv[i].status, inv[i].total, paid),
                        paid |-> paid])

\* Both transactions: the payment row, and the balance and status computed before.
MoneyWrite(p) ==
  /\ Writes(p, "money")
  /\ LET c == call[p]
     IN /\ payments' = Append(payments, c.payment)
        /\ inv' = [inv EXCEPT ![c.payment.invoice] =
             [inv[c.payment.invoice] EXCEPT !.paid = c.paid, !.status = c.status]]
  /\ UNCHANGED lastSeq

-----------------------------------------------------------------------------
\* sweepOverdue: a snapshot, then one write by id for each.
PastDueSentOnly(i) == inv[i].status = "SENT" /\ inv[i].due < today /\ inv[i].paid < inv[i].total
PastDue(i) ==
  inv[i].status \in {"SENT", "PARTIALLY_PAID"} /\ inv[i].due < today /\ inv[i].paid < inv[i].total

SweepRead(p) ==
  /\ p \in SweepCalls /\ call[p] = Idle
  /\ LET found == {i \in Ids : PastDue(i)}
     IN found # {} /\ Become(p, [at |-> "sweep", todo |-> found])
  /\ UNCHANGED <<inv, lastSeq, payments, today>>

SweepWrite(p) ==
  /\ p \in SweepCalls /\ call[p].at = "sweep"
  /\ \E i \in call[p].todo :
       /\ inv' = [inv EXCEPT ![i] = [inv[i] EXCEPT !.status = "OVERDUE"]]
       /\ Become(p, IF call[p].todo = {i} THEN Idle
                    ELSE [at |-> "sweep", todo |-> call[p].todo \ {i}])
  /\ UNCHANGED <<lastSeq, payments, today>>

NextDay ==
  /\ today < LastDay /\ today' = today + 1
  /\ UNCHANGED <<inv, lastSeq, payments, call>>

-----------------------------------------------------------------------------
StaffStep(p) ==
  \/ Create(p)
  \/ EditLoad(p) \/ EditWrite(p)
  \/ SendLoad(p) \/ SendWrite(p)
  \/ CancelLoad(p) \/ CancelWrite(p)
  \/ ReissueLoad(p) \/ ReissueWrite(p)
  \/ PayLoad(p) \/ ReverseLoad(p) \/ MoneyWrite(p)
SweepStep(p) == SweepRead(p) \/ SweepWrite(p)

Next == NextDay \/ \E p \in Calls : StaffStep(p) \/ SweepStep(p)

Spec == Init /\ [][Next]_vars

\* The daily job runs, and retries what the queue still holds.
Fairness == \A p \in SweepCalls : WF_vars(SweepStep(p))

FairSpec == Spec /\ Fairness
=============================================================================
