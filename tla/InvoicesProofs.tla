--------------------------- MODULE InvoicesProofs ---------------------------
(***************************************************************************)
(* What InvoicesProperties states, proved for any invoices, years, amounts *)
(* and number of concurrent calls; and, while the staff's calls take turns *)
(* beside the sweep, what keeps the content and the balance.               *)
(***************************************************************************)
EXTENDS MCInvoices, FiniteSetTheorems, WellFoundedInduction, TLAPS

\* Every call and every payment names an invoice that exists.
NamesExist ==
  /\ \A p \in Calls :
       /\ call[p].at \in {"send", "cancel", "edit", "reissue"} => Used(call[p].id)
       /\ call[p].at = "money" => Used(call[p].payment.invoice)
       /\ call[p].at = "sweep" => \A i \in call[p].todo : Used(i)
  /\ \A n \in DOMAIN payments : Used(payments[n].invoice)

Typed == TypeOK /\ NamesExist

-----------------------------------------------------------------------------
\* Rows

LEMMA UsedIsTyped ==
  ASSUME TypeOK, NEW i \in Ids
  PROVE  /\ Used(i) <=> inv[i] \in InvoiceRow
         /\ inv[i].status \in Statuses \cup {"none"}
         /\ Used(i) <=> inv[i].status # "none"
  <1>1. Unused \notin InvoiceRow /\ Unused.status = "none" /\ "none" \notin Statuses
    BY DEF Unused, InvoiceRow, Statuses
  <1>2. \A row \in InvoiceRow : row.status \in Statuses
    BY DEF InvoiceRow
  <1>3. inv[i] \in InvoiceRow \cup {Unused}
    BY DEF TypeOK
  <1> QED
    BY <1>1, <1>2, <1>3 DEF Used

LEMMA RowEdits ==
  ASSUME NEW row \in InvoiceRow
  PROVE  /\ \A s \in Statuses :
              LET new == [row EXCEPT !.status = s]
              IN /\ new \in InvoiceRow /\ new.status = s
                 /\ new.number = row.number /\ new.paid = row.paid /\ new.total = row.total
                 /\ new.due = row.due /\ new.issued = row.issued
         /\ \A s \in Statuses, m \in Int :
              LET new == [row EXCEPT !.paid = m, !.status = s]
              IN /\ new \in InvoiceRow /\ new.status = s /\ new.paid = m
                 /\ new.number = row.number /\ new.total = row.total
                 /\ new.due = row.due /\ new.issued = row.issued
         /\ \A y \in Years, d \in Days, t \in Totals :
              LET new == [row EXCEPT !.issued = y, !.due = d, !.total = t, !.split = TRUE]
              IN /\ new \in InvoiceRow /\ new.status = row.status /\ new.paid = row.paid
                 /\ new.number = row.number /\ new.total = t
  BY DEF InvoiceRow

LEMMA DraftIsRow ==
  ASSUME NEW number \in Number, NEW y \in Years, NEW d \in Days, NEW t \in Totals,
         NEW split \in BOOLEAN, NEW from \in Ids \cup {NoInvoice}
  PROVE  /\ Draft(number, y, d, t, split, from) \in InvoiceRow
         /\ Draft(number, y, d, t, split, from).number = number
         /\ Draft(number, y, d, t, split, from).status = "DRAFT"
         /\ Draft(number, y, d, t, split, from).paid = 0
         /\ Draft(number, y, d, t, split, from).total = t
  BY DEF Draft, InvoiceRow, Statuses

LEMMA NextNumberIsNew ==
  ASSUME TypeOK, NEW y \in Years
  PROVE  /\ NextNumber(y) \in Number /\ NextNumber(y).year = y
         /\ NextNumber(y).seq = lastSeq[y] + 1 /\ lastSeq[y] \in Nat
  BY DEF NextNumber, Number, TypeOK

LEMMA StatusForTyped ==
  ASSUME NEW s, NEW t \in Int, NEW m \in Int PROVE StatusFor(s, t, m) \in Statuses \ {"DRAFT"}
  BY DEF StatusFor, Statuses

LEMMA CallShapes ==
  ASSUME TypeOK, NEW p \in Calls
  PROVE  /\ call[p].at \in {"send", "cancel"} => call[p] \in ById
         /\ call[p].at = "edit" => call[p] \in Edit
         /\ call[p].at = "reissue" => call[p] \in Copy
         /\ call[p].at = "money" => call[p] \in Money
         /\ call[p].at = "sweep" => call[p] \in Sweep
  BY DEF TypeOK, CallState, Idle, ById, Edit, Copy, Money, Sweep

LEMMA PaymentsTyped ==
  ASSUME TypeOK, NEW n \in DOMAIN payments
  PROVE  /\ payments[n] \in PaymentRow
         /\ payments[n].invoice \in Ids /\ payments[n].amount \in Int
  <1>1. payments[n] \in PaymentRow
    BY DEF TypeOK
  <1> QED
    BY <1>1 DEF PaymentRow

-----------------------------------------------------------------------------
\* The three ways a step changes the invoices

\* One used row changes and keeps its number.
LEMMA Touch ==
  ASSUME TypeOK, NEW i \in Ids, Used(i), NEW row \in InvoiceRow, row.number = inv[i].number,
         inv' = [inv EXCEPT ![i] = row], lastSeq' = lastSeq
  PROVE  /\ inv' \in [Ids -> InvoiceRow \cup {Unused}] /\ lastSeq' \in [Years -> Nat]
         /\ inv'[i] = row /\ \A j \in Ids \ {i} : inv'[j] = inv[j]
         /\ \A j \in Ids : Used(j)' <=> Used(j)
         /\ GaplessNumbers => GaplessNumbers'
  <1>1. inv' \in [Ids -> InvoiceRow \cup {Unused}] /\ lastSeq' \in [Years -> Nat]
    BY DEF TypeOK
  <1>2. inv'[i] = row /\ \A j \in Ids \ {i} : inv'[j] = inv[j]
    BY DEF TypeOK
  <1>3. Unused \notin InvoiceRow
    BY DEF Unused, InvoiceRow, Statuses
  <1>4. ASSUME NEW j \in Ids PROVE (Used(j)' <=> Used(j)) /\ inv'[j].number = inv[j].number
    <2>1. CASE j = i
      BY <1>2, <1>3, <2>1 DEF Used
    <2>2. CASE j # i
      BY <1>2, <2>2 DEF Used
    <2> QED
      BY <2>1, <2>2
  <1>5. ASSUME GaplessNumbers PROVE GaplessNumbers'
    <2>1. ASSUME NEW y \in Years
          PROVE  {inv[j].number.seq : j \in {k \in Ids : Used(k) /\ inv[k].number.year = y}}'
                   = {inv[j].number.seq : j \in {k \in Ids : Used(k) /\ inv[k].number.year = y}}
      BY <1>4
    <2> QED
      BY <1>4, <1>5, <2>1 DEF GaplessNumbers
  <1> QED
    BY <1>1, <1>2, <1>4, <1>5

\* A new row takes the next number; used rows keep theirs.
LEMMA Enter ==
  ASSUME TypeOK, NEW i \in Ids, ~ Used(i), NEW y \in Years, NEW row \in InvoiceRow,
         row.number = NextNumber(y), inv' \in [Ids -> InvoiceRow \cup {Unused}],
         inv'[i] = row, lastSeq' = [lastSeq EXCEPT ![y] = lastSeq[y] + 1],
         \A j \in Ids \ {i} : (Used(j)' <=> Used(j)) /\ inv'[j].number = inv[j].number
  PROVE  /\ lastSeq' \in [Years -> Nat] /\ Used(i)'
         /\ GaplessNumbers => GaplessNumbers'
  <1>1. lastSeq' \in [Years -> Nat] /\ lastSeq'[y] = lastSeq[y] + 1 /\ lastSeq[y] \in Nat
        /\ \A z \in Years \ {y} : lastSeq'[z] = lastSeq[z]
    BY DEF TypeOK
  <1>2. Used(i)'
    BY DEF Used, Unused, InvoiceRow, Statuses
  <1>3. row.number.year = y /\ row.number.seq = lastSeq[y] + 1
    BY NextNumberIsNew
  <1>4. ASSUME GaplessNumbers PROVE GaplessNumbers'
    <2> DEFINE Of(z) == {k \in Ids : Used(k) /\ inv[k].number.year = z}
               Seqs(z) == {inv[j].number.seq : j \in Of(z)}
    <2>1. \A z \in Years : Seqs(z) = 1 .. lastSeq[z]
      BY <1>4 DEF GaplessNumbers
    <2>2. Of(y)' = Of(y) \cup {i}
      BY <1>2, <1>3
    <2>3. \A z \in Years \ {y} : Of(z)' = Of(z)
      BY <1>2, <1>3
    <2>4. i \notin Of(y) /\ \A z \in Years : i \notin Of(z)
      OBVIOUS
    <2>5. Seqs(y)' = Seqs(y) \cup {lastSeq[y] + 1}
      BY <1>3, <2>2, <2>4
    <2>6. \A z \in Years \ {y} : Seqs(z)' = Seqs(z)
      BY <2>3, <2>4
    <2>7. \A z \in Years : Seqs(z)' = 1 .. lastSeq'[z]
      <3>1. 1 .. lastSeq'[y] = (1 .. lastSeq[y]) \cup {lastSeq[y] + 1}
        BY <1>1
      <3>2. Seqs(y)' = 1 .. lastSeq'[y]
        BY <2>1, <2>5, <3>1
      <3>3. ASSUME NEW z \in Years \ {y} PROVE Seqs(z)' = 1 .. lastSeq'[z]
        BY <1>1, <2>1, <2>6, <3>3
      <3> QED
        BY <3>2, <3>3
    <2>8. ASSUME NEW j \in Ids, NEW k \in Ids, Used(j)', Used(k)', inv'[j].number = inv'[k].number
          PROVE  j = k
      <3>1. ASSUME NEW m \in Ids \ {i}, Used(m), inv[m].number = row.number PROVE FALSE
        <4>1. inv[m].number.seq \in Seqs(y)
          BY <1>3, <3>1
        <4> QED
          BY <1>1, <1>3, <2>1, <3>1, <4>1
      <3>2. CASE j # i /\ k # i
        BY <1>4, <2>8, <3>2 DEF GaplessNumbers
      <3>3. CASE j = i /\ k # i
        BY <2>8, <3>1, <3>3
      <3>4. CASE j # i /\ k = i
        BY <2>8, <3>1, <3>4
      <3> QED
        BY <3>2, <3>3, <3>4
    <2> QED
      BY <2>7, <2>8 DEF GaplessNumbers
  <1> QED
    BY <1>1, <1>2, <1>4

-----------------------------------------------------------------------------
\* The calls

LEMMA BecomeTyped ==
  ASSUME TypeOK, NEW p \in Calls, NEW next \in CallState, Become(p, next)
  PROVE  /\ call' \in [Calls -> CallState] /\ call'[p] = next
         /\ \A q \in Calls \ {p} : call'[q] = call[q]
  BY DEF TypeOK, Become

\* What a call may be about, in the state it is read in and ever after.
Names(c) ==
  /\ c.at \in {"send", "cancel", "edit", "reissue"} => Used(c.id)
  /\ c.at = "money" => Used(c.payment.invoice)
  /\ c.at = "sweep" => \A i \in c.todo : Used(i)

\* A call that only reads.
LEMMA Reading ==
  ASSUME Typed, NEW p \in Calls, NEW next \in CallState, Become(p, next), Names(next),
         UNCHANGED <<inv, lastSeq, payments, today>>
  PROVE  Typed'
  <1>1. /\ call' \in [Calls -> CallState] /\ call'[p] = next
        /\ \A q \in Calls \ {p} : call'[q] = call[q]
    BY BecomeTyped DEF Typed
  <1>2. TypeOK'
    BY <1>1 DEF Typed, TypeOK
  <1>3. \A i : Used(i)' <=> Used(i)
    BY DEF Used
  <1>4. NamesExist'
    BY <1>1, <1>3 DEF Typed, NamesExist, Names
  <1> QED
    BY <1>2, <1>4 DEF Typed

LEMMA NamesLast ==
  ASSUME NEW c \in CallState, Names(c), \A i \in Ids : Used(i) => Used(i)' PROVE Names(c)'
  <1>1. c.at \in {"send", "cancel", "edit", "reissue"} => c.id \in Ids
    BY DEF CallState, Idle, ById, Edit, Copy, Money, Sweep
  <1>2. c.at = "money" => c.payment.invoice \in Ids
    BY DEF CallState, Idle, ById, Edit, Copy, Money, Sweep, PaymentRow
  <1>3. c.at = "sweep" => c.todo \subseteq Ids
    BY DEF CallState, Idle, ById, Edit, Copy, Money, Sweep
  <1> QED
    BY <1>1, <1>2, <1>3 DEF Names

\* A call that writes leaves every used row used.
LEMMA Writing ==
  ASSUME Typed, NEW p \in Calls, NEW next \in CallState, Become(p, next), Names(next),
         inv' \in [Ids -> InvoiceRow \cup {Unused}], lastSeq' \in [Years -> Nat],
         payments' \in Seq(PaymentRow), today' = today,
         \A i \in Ids : Used(i) => Used(i)',
         (\A n \in DOMAIN payments : Used(payments[n].invoice))'
  PROVE  Typed'
  <1>1. /\ call' \in [Calls -> CallState] /\ call'[p] = next
        /\ \A q \in Calls \ {p} : call'[q] = call[q]
    BY BecomeTyped DEF Typed
  <1>2. TypeOK'
    BY <1>1 DEF Typed, TypeOK
  <1>4. ASSUME NEW q \in Calls PROVE Names(call[q])'
    <2>1. PICK c : c = call'[q]
      OBVIOUS
    <2>2. c \in CallState /\ Names(c)
      BY <1>1, <2>1 DEF Typed, TypeOK, NamesExist, Names
    <2>3. Names(c)'
      BY <2>2, NamesLast
    <2> QED
      BY <2>1, <2>3 DEF Names
  <1>5. NamesExist'
    BY <1>4 DEF NamesExist, Names
  <1> QED
    BY <1>2, <1>5 DEF Typed

-----------------------------------------------------------------------------
\* One lemma per action

\* What a step owes the invariants.
Issued(i) == inv[i].status \notin {"none", "DRAFT"}
Owed ==
  /\ Typed'
  /\ GaplessNumbers => GaplessNumbers'
  /\ \A i \in Ids : Issued(i) => Issued(i)'
  /\ \A i \in Ids : inv'[i].status = "DRAFT" =>
       \/ inv[i].status = "DRAFT" /\ inv'[i].paid = inv[i].paid
       \/ ~ Used(i) /\ inv'[i].paid = 0

LEMMA SameBooks ==
  ASSUME Typed, Typed', UNCHANGED <<inv, lastSeq>> PROVE Owed
  <1>1. GaplessNumbers => GaplessNumbers'
    BY DEF GaplessNumbers, Used
  <1>2. \A i \in Ids : Issued(i) => Issued(i)'
    BY DEF Issued
  <1> QED
    BY <1>1, <1>2 DEF Owed

LEMMA TouchOwes ==
  ASSUME Typed, Typed', NEW i \in Ids, Used(i), NEW row \in InvoiceRow, row.number = inv[i].number,
         inv' = [inv EXCEPT ![i] = row], lastSeq' = lastSeq,
         \/ row.status # "DRAFT"
         \/ row.status = inv[i].status /\ row.paid = inv[i].paid
  PROVE  Owed
  <1>1. /\ inv'[i] = row /\ \A j \in Ids \ {i} : inv'[j] = inv[j]
        /\ GaplessNumbers => GaplessNumbers'
    BY Touch DEF Typed
  <1>2. row.status # "none"
    BY DEF InvoiceRow, Statuses
  <1>3. \A j \in Ids : Issued(j) => Issued(j)'
    BY <1>1, <1>2 DEF Issued
  <1>4. \A j \in Ids : inv'[j].status = "DRAFT" =>
           inv[j].status = "DRAFT" /\ inv'[j].paid = inv[j].paid
    BY <1>1
  <1> QED
    BY <1>1, <1>3, <1>4 DEF Owed

LEMMA IdleNames == Idle \in CallState /\ Names(Idle)
  BY DEF CallState, Idle, Names

LEMMA CreateStep == ASSUME Typed, NEW p \in Calls, Create(p) PROVE Owed
  <1>1. PICK i \in Ids, y \in Years, due \in Days, total \in Totals :
          Insert(i, Draft(NextNumber(y), y, due, total, TRUE, NoInvoice))
    BY DEF Create
  <1> DEFINE row == Draft(NextNumber(y), y, due, total, TRUE, NoInvoice)
  <1>2. NextNumber(y) \in Number /\ NextNumber(y).year = y /\ NextNumber(y).seq = lastSeq[y] + 1
    BY NextNumberIsNew DEF Typed
  <1>3. row \in InvoiceRow /\ row.number = NextNumber(y) /\ row.status = "DRAFT" /\ row.paid = 0
    BY <1>2 DEF Draft, InvoiceRow, Statuses
  <1> HIDE DEF row
  <1>4. /\ inv[i] = Unused /\ inv' = [inv EXCEPT ![i] = row]
        /\ lastSeq' = [lastSeq EXCEPT ![y] = lastSeq[y] + 1]
    BY <1>1, <1>2, <1>3 DEF Insert, row
  <1>5. /\ inv' \in [Ids -> InvoiceRow \cup {Unused}] /\ inv'[i] = row
        /\ \A j \in Ids \ {i} : inv'[j] = inv[j]
    BY <1>3, <1>4 DEF Typed, TypeOK
  <1>6. \A j \in Ids \ {i} : (Used(j)' <=> Used(j)) /\ inv'[j].number = inv[j].number
    BY <1>5 DEF Used
  <1>7. ~ Used(i)
    BY <1>4 DEF Used
  <1>8. lastSeq' \in [Years -> Nat] /\ Used(i)' /\ (GaplessNumbers => GaplessNumbers')
    BY <1>3, <1>4, <1>5, <1>6, <1>7, Enter DEF Typed
  <1>9. Typed'
    <2>1. TypeOK'
      BY <1>5, <1>8 DEF Typed, TypeOK, Create
    <2>2. \A j \in Ids : Used(j) => Used(j)'
      BY <1>6, <1>8
    <2>3. ASSUME NEW q \in Calls PROVE Names(call[q])'
      <3>1. PICK c : c = call[q]
        OBVIOUS
      <3>2. c \in CallState /\ Names(c) /\ c = call'[q]
        BY <3>1 DEF Create, Typed, TypeOK, NamesExist, Names
      <3>3. Names(c)'
        BY <2>2, <3>2, NamesLast
      <3> QED
        BY <3>2, <3>3 DEF Names
    <2>4. (\A n \in DOMAIN payments : Used(payments[n].invoice))'
      <3>1. ASSUME NEW n \in DOMAIN payments PROVE Used(payments[n].invoice)'
        <4>1. PICK j : j = payments[n].invoice
          OBVIOUS
        <4>2. j \in Ids /\ Used(j) /\ payments' = payments
          BY <4>1, PaymentsTyped DEF Create, Typed, NamesExist
        <4> QED
          BY <2>2, <4>1, <4>2 DEF Used
      <3> QED
        BY <3>1 DEF Create
    <2> QED
      BY <2>1, <2>3, <2>4 DEF Typed, NamesExist, Names
  <1>10. \A j \in Ids : Issued(j) => Issued(j)'
    BY <1>4, <1>5 DEF Issued, Unused
  <1>11. \A j \in Ids : inv'[j].status = "DRAFT" =>
            \/ inv[j].status = "DRAFT" /\ inv'[j].paid = inv[j].paid
            \/ ~ Used(j) /\ inv'[j].paid = 0
    BY <1>3, <1>5, <1>7
  <1> QED
    BY <1>8, <1>9, <1>10, <1>11 DEF Owed

LEMMA ReadOwes ==
  ASSUME Typed, NEW p \in Calls, NEW next \in CallState, Become(p, next), Names(next),
         UNCHANGED <<inv, lastSeq, payments, today>>
  PROVE  Owed
  BY Reading, SameBooks

LEMMA EditLoadStep == ASSUME Typed, NEW p \in Calls, EditLoad(p) PROVE Owed
  <1>1. PICK i \in Ids, y \in Years, due \in Days, total \in Totals :
          /\ Editable(i)
          /\ Become(p, [at |-> "edit", id |-> i, issued |-> y, due |-> due, total |-> total])
    BY DEF EditLoad
  <1> DEFINE next == [at |-> "edit", id |-> i, issued |-> y, due |-> due, total |-> total]
  <1>2. next \in CallState
    BY DEF CallState, Edit
  <1>3. Names(next)
    BY <1>1, UsedIsTyped DEF Names, Editable, Typed
  <1> QED
    BY <1>1, <1>2, <1>3, ReadOwes DEF EditLoad, Loads

LEMMA SendLoadStep == ASSUME Typed, NEW p \in Calls, SendLoad(p) PROVE Owed
  <1>1. PICK i \in Ids : inv[i].status = "DRAFT" /\ Become(p, [at |-> "send", id |-> i])
    BY DEF SendLoad
  <1>2. [at |-> "send", id |-> i] \in CallState /\ Names([at |-> "send", id |-> i])
    BY <1>1, UsedIsTyped DEF Names, Typed, CallState, ById
  <1> QED
    BY <1>1, <1>2, ReadOwes DEF SendLoad, Loads

LEMMA CancelLoadStep == ASSUME Typed, NEW p \in Calls, CancelLoad(p) PROVE Owed
  <1>1. PICK i \in Ids : Used(i) /\ Become(p, [at |-> "cancel", id |-> i])
    BY DEF CancelLoad
  <1>2. [at |-> "cancel", id |-> i] \in CallState /\ Names([at |-> "cancel", id |-> i])
    BY <1>1 DEF Names, CallState, ById
  <1> QED
    BY <1>1, <1>2, ReadOwes DEF CancelLoad, Loads

LEMMA ReissueLoadStep == ASSUME Typed, NEW p \in Calls, ReissueLoad(p) PROVE Owed
  <1>1. PICK i \in Ids : Used(i) /\ Become(p, [at |-> "reissue", id |-> i, row |-> inv[i]])
    BY DEF ReissueLoad
  <1>2. PICK row : row = inv[i]
    OBVIOUS
  <1>3. row \in InvoiceRow
    BY <1>1, <1>2, UsedIsTyped DEF Typed
  <1>4. [at |-> "reissue", id |-> i, row |-> row] \in CallState
    BY <1>3 DEF CallState, Copy
  <1>5. Names([at |-> "reissue", id |-> i, row |-> row])
    BY <1>1 DEF Names
  <1> QED
    BY <1>1, <1>2, <1>4, <1>5, ReadOwes DEF ReissueLoad, Loads

LEMMA MoneyLoads ==
  ASSUME Typed, NEW p \in Calls, NEW i \in Ids, Used(i), NEW amount \in Int,
         NEW reversal \in BOOLEAN, NEW paid \in Int,
         Become(p, [at |-> "money",
                    payment |-> [invoice |-> i, amount |-> amount, isReversal |-> reversal],
                    status |-> StatusFor(inv[i].status, inv[i].total, paid), paid |-> paid]),
         UNCHANGED <<inv, lastSeq, payments, today>>
  PROVE  Owed
  <1>1. inv[i] \in InvoiceRow
    BY UsedIsTyped DEF Typed
  <1>2. inv[i].total \in Int
    <2>1. PICK t : t = inv[i].total
      OBVIOUS
    <2>2. t \in Totals
      BY <1>1, <2>1 DEF InvoiceRow
    <2>3. Totals \subseteq Int
      BY BillingAssumption
    <2> QED
      BY <2>1, <2>2, <2>3
  <1>3. PICK s : s = StatusFor(inv[i].status, inv[i].total, paid)
    OBVIOUS
  <1>4. s \in Statuses \ {"DRAFT"}
    BY <1>2, <1>3, StatusForTyped
  <1> DEFINE next == [at |-> "money",
                      payment |-> [invoice |-> i, amount |-> amount, isReversal |-> reversal],
                      status |-> s, paid |-> paid]
  <1>5. next \in CallState
    BY <1>4 DEF CallState, Money, PaymentRow
  <1>6. Names(next)
    BY DEF Names
  <1> QED
    BY <1>3, <1>5, <1>6, ReadOwes

LEMMA PayLoadStep == ASSUME Typed, NEW p \in Calls, PayLoad(p) PROVE Owed
  <1>1. PICK i \in Ids, amount \in Amounts :
          /\ Payable(i)
          /\ Become(p, [at |-> "money",
                        payment |-> [invoice |-> i, amount |-> amount, isReversal |-> FALSE],
                        status |-> StatusFor(inv[i].status, inv[i].total, inv[i].paid + amount),
                        paid |-> inv[i].paid + amount])
    BY DEF PayLoad
  <1>2. Used(i)
    BY <1>1, UsedIsTyped DEF Payable, Typed
  <1>3. inv[i].paid \in Int
    BY <1>2, UsedIsTyped DEF Typed, InvoiceRow
  <1>4. amount \in Int /\ inv[i].paid + amount \in Int
    BY <1>3, BillingAssumption
  <1> QED
    BY <1>1, <1>2, <1>4, MoneyLoads DEF PayLoad, Loads

LEMMA ReverseLoadStep == ASSUME Typed, NEW p \in Calls, ReverseLoad(p) PROVE Owed
  <1>1. PICK n \in DOMAIN payments :
          LET i == payments[n].invoice
              paid == inv[i].paid - payments[n].amount
          IN Become(p, [at |-> "money",
                        payment |-> [invoice |-> i, amount |-> - payments[n].amount,
                                     isReversal |-> TRUE],
                        status |-> StatusFor(inv[i].status, inv[i].total, paid), paid |-> paid])
    BY DEF ReverseLoad
  <1>2. PICK i : i = payments[n].invoice
    OBVIOUS
  <1>3. i \in Ids /\ Used(i) /\ payments[n].amount \in Int
    BY <1>2, PaymentsTyped DEF Typed, NamesExist
  <1>4. inv[i].paid \in Int
    BY <1>3, UsedIsTyped DEF Typed, InvoiceRow
  <1>5. - payments[n].amount \in Int /\ inv[i].paid - payments[n].amount \in Int
    BY <1>3, <1>4
  <1> QED
    BY <1>1, <1>2, <1>3, <1>5, MoneyLoads DEF ReverseLoad, Loads

\* A write of one row that leaves the payments alone.
LEMMA WriteOwes ==
  ASSUME Typed, NEW p \in Calls, NEW next \in CallState, Become(p, next), Names(next),
         NEW i \in Ids, Used(i), NEW row \in InvoiceRow, row.number = inv[i].number,
         inv' = [inv EXCEPT ![i] = row], UNCHANGED <<lastSeq, today>>,
         payments' \in Seq(PaymentRow),
         (\A n \in DOMAIN payments : Used(payments[n].invoice))',
         \/ row.status # "DRAFT"
         \/ row.status = inv[i].status /\ row.paid = inv[i].paid
  PROVE  Owed
  <1>1. /\ inv' \in [Ids -> InvoiceRow \cup {Unused}] /\ lastSeq' \in [Years -> Nat]
        /\ \A j \in Ids : Used(j)' <=> Used(j)
    BY Touch DEF Typed
  <1>2. Typed'
    BY <1>1, Writing
  <1> QED
    BY <1>2, TouchOwes

\* The payments named before still name invoices.
LEMMA PaymentsStay ==
  ASSUME Typed, UNCHANGED payments, \A j \in Ids : Used(j)' <=> Used(j)
  PROVE  payments' \in Seq(PaymentRow) /\ (\A n \in DOMAIN payments : Used(payments[n].invoice))'
  <1>1. ASSUME NEW n \in DOMAIN payments PROVE Used(payments[n].invoice)'
    <2>1. PICK j : j = payments[n].invoice
      OBVIOUS
    <2>2. j \in Ids /\ Used(j)
      BY <2>1, PaymentsTyped DEF Typed, NamesExist
    <2> QED
      BY <2>1, <2>2 DEF Used
  <1> QED
    BY <1>1 DEF Typed, TypeOK

LEMMA EditWriteStep == ASSUME Typed, NEW p \in Calls, EditWrite(p) PROVE Owed
  <1> DEFINE c == call[p]
  <1>1. c \in Edit /\ Used(c.id)
    BY CallShapes DEF EditWrite, Writes, Typed, NamesExist
  <1>2. c.id \in Ids /\ c.issued \in Years /\ c.due \in Days /\ c.total \in Totals
    BY <1>1 DEF Edit
  <1>3. inv[c.id] \in InvoiceRow
    BY <1>1, <1>2, UsedIsTyped DEF Typed
  <1> DEFINE row == [inv[c.id] EXCEPT !.issued = c.issued, !.due = c.due, !.total = c.total,
                                     !.split = TRUE]
  <1>4. /\ row \in InvoiceRow /\ row.number = inv[c.id].number
        /\ row.status = inv[c.id].status /\ row.paid = inv[c.id].paid
    BY <1>2, <1>3 DEF InvoiceRow
  <1>5. inv' = [inv EXCEPT ![c.id] = row] /\ Become(p, Idle) /\ UNCHANGED <<lastSeq, payments, today>>
    BY DEF EditWrite, Writes
  <1> HIDE DEF row
  <1>6. \A j \in Ids : Used(j)' <=> Used(j)
    BY <1>1, <1>2, <1>4, <1>5, Touch DEF Typed
  <1> QED
    BY <1>1, <1>2, <1>4, <1>5, <1>6, PaymentsStay, IdleNames, WriteOwes

LEMMA SetStatusStep ==
  ASSUME Typed, NEW p \in Calls, NEW kind \in {"send", "cancel"}, NEW s \in Statuses \ {"DRAFT"},
         SetStatus(p, kind, s)
  PROVE  Owed
  <1> DEFINE c == call[p]
             row == [inv[c.id] EXCEPT !.status = s]
  <1>1. c \in ById /\ Used(c.id)
    BY CallShapes DEF SetStatus, Writes, Typed, NamesExist
  <1>2. c.id \in Ids
    BY <1>1 DEF ById
  <1>3. inv[c.id] \in InvoiceRow
    BY <1>1, <1>2, UsedIsTyped DEF Typed
  <1>4. row \in InvoiceRow /\ row.number = inv[c.id].number /\ row.status = s
    BY <1>3, RowEdits
  <1>5. inv' = [inv EXCEPT ![c.id] = row] /\ Become(p, Idle) /\ UNCHANGED <<lastSeq, payments, today>>
    BY DEF SetStatus, Writes
  <1> HIDE DEF row
  <1>6. \A j \in Ids : Used(j)' <=> Used(j)
    BY <1>1, <1>2, <1>4, <1>5, Touch DEF Typed
  <1> QED
    BY <1>1, <1>2, <1>4, <1>5, <1>6, PaymentsStay, IdleNames, WriteOwes

LEMMA MoneyWriteStep == ASSUME Typed, NEW p \in Calls, MoneyWrite(p) PROVE Owed
  <1> DEFINE c == call[p]
             i == c.payment.invoice
             row == [inv[i] EXCEPT !.paid = c.paid, !.status = c.status]
  <1>1. c \in Money /\ Used(i)
    BY CallShapes DEF MoneyWrite, Writes, Typed, NamesExist
  <1>2. i \in Ids /\ c.paid \in Int /\ c.status \in Statuses \ {"DRAFT"} /\ c.payment \in PaymentRow
    BY <1>1 DEF Money, PaymentRow
  <1>3. inv[i] \in InvoiceRow
    BY <1>1, <1>2, UsedIsTyped DEF Typed
  <1>4. row \in InvoiceRow /\ row.number = inv[i].number /\ row.status = c.status
    BY <1>2, <1>3 DEF InvoiceRow
  <1>5. /\ inv' = [inv EXCEPT ![i] = row] /\ Become(p, Idle) /\ UNCHANGED <<lastSeq, today>>
        /\ payments' = Append(payments, c.payment)
    BY DEF MoneyWrite, Writes
  <1> HIDE DEF row
  <1>6. \A j \in Ids : Used(j)' <=> Used(j)
    BY <1>1, <1>2, <1>4, <1>5, Touch DEF Typed
  <1>7. payments \in Seq(PaymentRow)
    BY DEF Typed, TypeOK
  <1>8. payments' \in Seq(PaymentRow)
    BY <1>2, <1>5, <1>7
  <1>9. (\A n \in DOMAIN payments : Used(payments[n].invoice))'
    <2>1. ASSUME NEW n \in DOMAIN payments' PROVE Used(payments[n].invoice)'
      <3>1. PICK j : j = payments'[n].invoice
        OBVIOUS
      <3>2. CASE n = Len(payments) + 1
        <4>1. j = i
          BY <1>2, <1>5, <1>7, <3>1, <3>2
        <4> QED
          BY <1>1, <1>2, <1>6, <3>1, <4>1 DEF Used
      <3>3. CASE n # Len(payments) + 1
        <4>1. n \in DOMAIN payments /\ j = payments[n].invoice
          BY <1>2, <1>5, <1>7, <2>1, <3>1, <3>3
        <4>2. j \in Ids /\ Used(j)
          BY <4>1, PaymentsTyped DEF Typed, NamesExist
        <4> QED
          BY <1>6, <3>1, <4>2 DEF Used
      <3> QED
        BY <3>2, <3>3
    <2> QED
      BY <2>1
  <1> QED
    BY <1>1, <1>2, <1>4, <1>5, <1>6, <1>8, <1>9, IdleNames, WriteOwes

LEMMA ReissueWriteStep == ASSUME Typed, NEW p \in Calls, ReissueWrite(p) PROVE Owed
  <1> DEFINE c == call[p]
             y == c.row.issued
             number == NextNumber(y)
             old == [inv[c.id] EXCEPT !.status = "CANCELLED"]
             new == Draft(number, y, c.row.due, c.row.total, FALSE, c.id)
  <1>1. PICK i \in Ids \ {c.id} :
          /\ inv[i] = Unused
          /\ inv' = [inv EXCEPT ![c.id] = old, ![i] = new]
          /\ lastSeq' = [lastSeq EXCEPT ![number.year] = number.seq]
    BY DEF ReissueWrite
  <1>2. Become(p, Idle) /\ UNCHANGED <<payments, today>>
    BY DEF ReissueWrite, Writes
  <1>3. c \in Copy /\ Used(c.id)
    BY CallShapes DEF ReissueWrite, Writes, Typed, NamesExist
  <1>4. c.id \in Ids /\ c.row \in InvoiceRow
    BY <1>3 DEF Copy
  <1>5. y \in Years /\ c.row.due \in Days /\ c.row.total \in Totals
    BY <1>4 DEF InvoiceRow
  <1>6. number \in Number /\ number.year = y /\ number.seq = lastSeq[y] + 1
    BY <1>5, NextNumberIsNew DEF Typed
  <1> HIDE DEF y, number
  <1>7. new \in InvoiceRow /\ new.number = number /\ new.status = "DRAFT" /\ new.paid = 0
    BY <1>4, <1>5, <1>6 DEF Draft, InvoiceRow, Statuses
  <1>8. inv[c.id] \in InvoiceRow
    BY <1>3, <1>4, UsedIsTyped DEF Typed
  <1>9. old \in InvoiceRow /\ old.number = inv[c.id].number /\ old.status = "CANCELLED"
    BY <1>8, RowEdits DEF Statuses
  <1> HIDE DEF old, new
  <1>10. /\ inv' \in [Ids -> InvoiceRow \cup {Unused}] /\ inv'[i] = new /\ inv'[c.id] = old
         /\ \A j \in Ids \ {i, c.id} : inv'[j] = inv[j]
    BY <1>1, <1>4, <1>7, <1>9 DEF Typed, TypeOK
  <1>11. \A j \in Ids \ {i} : (Used(j)' <=> Used(j)) /\ inv'[j].number = inv[j].number
    <2>1. old # Unused
      BY <1>9 DEF Unused
    <2> QED
      BY <1>3, <1>9, <1>10, <2>1 DEF Used
  <1>12. ~ Used(i)
    BY <1>1 DEF Used
  <1>13. lastSeq' = [lastSeq EXCEPT ![y] = lastSeq[y] + 1]
    BY <1>1, <1>6
  <1>14. lastSeq' \in [Years -> Nat] /\ Used(i)' /\ (GaplessNumbers => GaplessNumbers')
    BY <1>5, <1>7, <1>10, <1>11, <1>12, <1>13, Enter DEF Typed, number
  <1>15. Typed'
    <2>1. \A j \in Ids : Used(j) => Used(j)'
      BY <1>11, <1>14
    <2>2. payments' \in Seq(PaymentRow) /\ (\A n \in DOMAIN payments : Used(payments[n].invoice))'
      <3>1. ASSUME NEW n \in DOMAIN payments PROVE Used(payments[n].invoice)'
        <4>1. PICK j : j = payments[n].invoice
          OBVIOUS
        <4>2. j \in Ids /\ Used(j)
          BY <4>1, PaymentsTyped DEF Typed, NamesExist
        <4> QED
          BY <1>2, <2>1, <4>1, <4>2 DEF Used
      <3> QED
        BY <1>2, <3>1 DEF Typed, TypeOK
    <2> QED
      BY <1>2, <1>10, <1>14, <2>1, <2>2, IdleNames, Writing
  <1>16. \A j \in Ids : Issued(j) => Issued(j)'
    <2>1. ~ Issued(i)
      BY <1>1 DEF Issued, Unused
    <2> QED
      BY <1>9, <1>10, <2>1 DEF Issued
  <1>17. \A j \in Ids : inv'[j].status = "DRAFT" =>
            \/ inv[j].status = "DRAFT" /\ inv'[j].paid = inv[j].paid
            \/ ~ Used(j) /\ inv'[j].paid = 0
    BY <1>7, <1>9, <1>10, <1>12
  <1> QED
    BY <1>14, <1>15, <1>16, <1>17 DEF Owed

LEMMA SweepReadStep == ASSUME Typed, NEW p \in Calls, SweepRead(p) PROVE Owed
  <1> DEFINE found == {i \in Ids : PastDue(i)}
  <1>1. Become(p, [at |-> "sweep", todo |-> found]) /\ UNCHANGED <<inv, lastSeq, payments, today>>
    BY DEF SweepRead
  <1>2. [at |-> "sweep", todo |-> found] \in CallState
    BY DEF CallState, Sweep
  <1>3. \A i \in found : Used(i)
    BY UsedIsTyped DEF PastDue, Typed
  <1> HIDE DEF found
  <1>4. Names([at |-> "sweep", todo |-> found])
    BY <1>3 DEF Names
  <1> QED
    BY <1>1, <1>2, <1>4, ReadOwes

LEMMA SweepWriteStep == ASSUME Typed, NEW p \in Calls, SweepWrite(p) PROVE Owed
  <1>1. call[p] \in Sweep /\ \A j \in call[p].todo : Used(j)
    BY CallShapes DEF SweepWrite, Typed, NamesExist
  <1>2. PICK i \in call[p].todo :
          /\ inv' = [inv EXCEPT ![i] = [inv[i] EXCEPT !.status = "OVERDUE"]]
          /\ Become(p, IF call[p].todo = {i} THEN Idle
                       ELSE [at |-> "sweep", todo |-> call[p].todo \ {i}])
    BY DEF SweepWrite
  <1> DEFINE row == [inv[i] EXCEPT !.status = "OVERDUE"]
             rest == [at |-> "sweep", todo |-> call[p].todo \ {i}]
             next == IF call[p].todo = {i} THEN Idle ELSE rest
  <1>3. i \in Ids /\ Used(i)
    BY <1>1, <1>2 DEF Sweep
  <1>4. inv[i] \in InvoiceRow
    BY <1>3, UsedIsTyped DEF Typed
  <1>5. row \in InvoiceRow /\ row.number = inv[i].number /\ row.status = "OVERDUE"
    BY <1>4, RowEdits DEF Statuses
  <1>6. rest \in CallState /\ Names(rest)
    BY <1>1 DEF CallState, Sweep, Names
  <1>7. next \in CallState /\ Names(next) /\ Become(p, next)
    BY <1>2, <1>6, IdleNames
  <1>8. inv' = [inv EXCEPT ![i] = row] /\ UNCHANGED <<lastSeq, payments, today>>
    BY <1>2 DEF SweepWrite
  <1> HIDE DEF row, next
  <1>9. \A j \in Ids : Used(j)' <=> Used(j)
    BY <1>3, <1>5, <1>8, Touch DEF Typed
  <1> QED
    BY <1>3, <1>5, <1>7, <1>8, <1>9, PaymentsStay, WriteOwes

LEMMA NextDayStep == ASSUME Typed, NextDay PROVE Owed
  <1>1. TypeOK'
    BY DEF Typed, TypeOK, NextDay
  <1>2. NamesExist'
    BY DEF Typed, NamesExist, NextDay, Used
  <1> QED
    BY <1>1, <1>2, SameBooks DEF Typed, NextDay

LEMMA EveryStep == ASSUME Typed, [Next]_vars PROVE Owed
  <1>1. ASSUME NEW p \in Calls, StaffStep(p) PROVE Owed
    <2>1. CASE SendWrite(p)
      BY <2>1, SetStatusStep DEF SendWrite, Statuses
    <2>2. CASE CancelWrite(p)
      BY <2>2, SetStatusStep DEF CancelWrite, Statuses
    <2> QED
      BY <1>1, <2>1, <2>2, CreateStep, EditLoadStep, EditWriteStep, SendLoadStep, CancelLoadStep,
         ReissueLoadStep, ReissueWriteStep, PayLoadStep, ReverseLoadStep, MoneyWriteStep
         DEF StaffStep
  <1>2. ASSUME NEW p \in Calls, SweepStep(p) PROVE Owed
    BY <1>2, SweepReadStep, SweepWriteStep DEF SweepStep
  <1>3. CASE UNCHANGED vars
    <2>1. TypeOK'
      BY <1>3 DEF Typed, TypeOK, vars
    <2>2. NamesExist'
      BY <1>3 DEF Typed, NamesExist, vars, Used
    <2> QED
      BY <1>3, <2>1, <2>2, SameBooks DEF Typed, vars
  <1> QED
    BY <1>1, <1>2, <1>3, NextDayStep DEF Next

-----------------------------------------------------------------------------
\* Money and issued invoices

\* Money, received or on its way, is always about an invoice that has left DRAFT.
MoneyIsIssued ==
  /\ \A i \in Ids : inv[i].status = "DRAFT" => inv[i].paid = 0
  /\ \A n \in DOMAIN payments : Issued(payments[n].invoice)
  /\ \A q \in Calls : call[q].at = "money" => Issued(call[q].payment.invoice)

\* Where a step takes a payment from: a call in flight; and a money call: from an
\* invoice that can be paid, or from a payment.
MoneyFollows ==
  /\ \/ payments' = payments
     \/ \E q \in Calls : call[q].at = "money" /\ payments' = Append(payments, call[q].payment)
  /\ \A q \in Calls : call'[q].at = "money" =>
       \/ call'[q] = call[q]
       \/ Payable(call'[q].payment.invoice)
       \/ \E n \in DOMAIN payments : call'[q].payment.invoice = payments[n].invoice

LEMMA OneCallMoves ==
  ASSUME Typed, NEW p \in Calls, NEW next, Become(p, next),
         next.at = "money" => \/ Payable(next.payment.invoice)
                              \/ \E n \in DOMAIN payments : next.payment.invoice = payments[n].invoice,
         \/ payments' = payments
         \/ call[p].at = "money" /\ payments' = Append(payments, call[p].payment)
  PROVE  MoneyFollows
  <1>1. call'[p] = next /\ \A q \in Calls \ {p} : call'[q] = call[q]
    BY DEF Typed, TypeOK, Become
  <1> QED
    BY <1>1 DEF MoneyFollows

LEMMA MoneyIsTraced == ASSUME Typed, [Next]_vars PROVE MoneyFollows
  <1>1. CASE UNCHANGED <<payments, call>>
    BY <1>1 DEF MoneyFollows
  <1>2. ASSUME NEW p \in Calls, PayLoad(p) PROVE MoneyFollows
    <2>1. PICK next : Become(p, next) /\ Payable(next.payment.invoice)
      <3>1. PICK i \in Ids, amount \in Amounts :
              /\ Payable(i)
              /\ \E next : Become(p, next) /\ next.payment.invoice = i
        BY <1>2 DEF PayLoad
      <3> QED
        BY <3>1
    <2> QED
      BY <1>2, <2>1, OneCallMoves DEF PayLoad, Loads
  <1>3. ASSUME NEW p \in Calls, ReverseLoad(p) PROVE MoneyFollows
    <2>1. PICK next :
            /\ Become(p, next)
            /\ \E n \in DOMAIN payments : next.payment.invoice = payments[n].invoice
      <3>1. PICK n \in DOMAIN payments :
              \E next : Become(p, next) /\ next.payment.invoice = payments[n].invoice
        BY <1>3 DEF ReverseLoad
      <3> QED
        BY <3>1
    <2> QED
      BY <1>3, <2>1, OneCallMoves DEF ReverseLoad, Loads
  <1>4. ASSUME NEW p \in Calls, MoneyWrite(p) PROVE MoneyFollows
    BY <1>4, OneCallMoves DEF MoneyWrite, Writes, Idle
  <1>5. ASSUME NEW p \in Calls, NEW next, Become(p, next), next.at # "money", payments' = payments
        PROVE  MoneyFollows
    BY <1>5, OneCallMoves
  <1>6. ASSUME NEW p \in Calls, StaffStep(p) PROVE MoneyFollows
    <2>1. CASE Create(p)
      BY <1>1, <2>1 DEF Create
    <2>2. CASE EditLoad(p) \/ SendLoad(p) \/ CancelLoad(p) \/ ReissueLoad(p)
      BY <1>5, <2>2 DEF EditLoad, SendLoad, CancelLoad, ReissueLoad, Loads
    <2>3. CASE EditWrite(p) \/ SendWrite(p) \/ CancelWrite(p) \/ ReissueWrite(p)
      BY <1>5, <2>3 DEF EditWrite, SendWrite, CancelWrite, SetStatus, ReissueWrite, Writes, Idle
    <2> QED
      BY <1>2, <1>3, <1>4, <1>6, <2>1, <2>2, <2>3 DEF StaffStep
  <1>7. ASSUME NEW p \in Calls, SweepStep(p) PROVE MoneyFollows
    <2>1. PICK next : Become(p, next) /\ next.at # "money" /\ payments' = payments
      BY <1>7 DEF SweepStep, SweepRead, SweepWrite, Idle
    <2> QED
      BY <1>5, <2>1
  <1>8. CASE NextDay
    BY <1>1, <1>8 DEF NextDay
  <1>9. CASE UNCHANGED vars
    BY <1>1, <1>9 DEF vars
  <1> QED
    BY <1>6, <1>7, <1>8, <1>9 DEF Next

LEMMA MoneyStaysIssued == ASSUME Typed, MoneyIsIssued, [Next]_vars PROVE MoneyIsIssued'
  <1>1. /\ Typed' /\ \A i \in Ids : Issued(i) => Issued(i)'
        /\ \A i \in Ids : inv'[i].status = "DRAFT" =>
              \/ inv[i].status = "DRAFT" /\ inv'[i].paid = inv[i].paid
              \/ ~ Used(i) /\ inv'[i].paid = 0
    BY EveryStep DEF Owed
  <1>2. MoneyFollows
    BY MoneyIsTraced
  <1>3. \A i \in Ids : inv'[i].status = "DRAFT" => inv'[i].paid = 0
    BY <1>1 DEF MoneyIsIssued
  <1>4. ASSUME NEW n \in DOMAIN payments' PROVE inv'[payments'[n].invoice].status \notin {"none", "DRAFT"}
    <2>1. PICK i : i = payments'[n].invoice
      OBVIOUS
    <2>2. i \in Ids /\ Issued(i)
      <3>1. ASSUME NEW m \in DOMAIN payments PROVE payments[m].invoice \in Ids /\ Issued(payments[m].invoice)
        BY PaymentsTyped DEF Typed, MoneyIsIssued
      <3>2. ASSUME NEW q \in Calls, call[q].at = "money", payments' = Append(payments, call[q].payment)
            PROVE  i \in Ids /\ Issued(i)
        <4>1. PICK row : row = call[q].payment
          OBVIOUS
        <4>2. row \in PaymentRow /\ row.invoice \in Ids /\ Issued(row.invoice)
          BY <3>2, <4>1, CallShapes DEF Typed, MoneyIsIssued, Money, PaymentRow
        <4>3. payments \in Seq(PaymentRow) /\ payments' = Append(payments, row)
          BY <3>2, <4>1 DEF Typed, TypeOK
        <4>4. CASE n = Len(payments) + 1
          BY <2>1, <4>2, <4>3, <4>4
        <4>5. CASE n # Len(payments) + 1
          <5>1. n \in DOMAIN payments /\ i = payments[n].invoice
            BY <2>1, <4>3, <4>5
          <5> QED
            BY <3>1, <5>1
        <4> QED
          BY <4>4, <4>5
      <3> QED
        BY <1>2, <2>1, <3>1, <3>2 DEF MoneyFollows
    <2> QED
      BY <1>1, <2>1, <2>2 DEF Issued
  <1>5. ASSUME NEW q \in Calls, call'[q].at = "money"
        PROVE  inv'[call'[q].payment.invoice].status \notin {"none", "DRAFT"}
    <2>1. PICK i : i = call'[q].payment.invoice
      OBVIOUS
    <2>2. i \in Ids
      <3>1. PICK c : c = call'[q]
        OBVIOUS
      <3>2. c \in CallState /\ c.at = "money"
        BY <1>1, <1>5, <3>1 DEF Typed, TypeOK
      <3>3. c.payment.invoice \in Ids
        BY <3>2 DEF CallState, Idle, ById, Edit, Copy, Money, Sweep, PaymentRow
      <3> QED
        BY <2>1, <3>1, <3>3
    <2>3. Issued(i)
      <3>1. CASE call'[q] = call[q]
        BY <1>5, <2>1, <3>1 DEF MoneyIsIssued
      <3>2. CASE Payable(i)
        BY <3>2 DEF Payable, Issued
      <3>3. CASE \E n \in DOMAIN payments : i = payments[n].invoice
        BY <3>3 DEF MoneyIsIssued
      <3> QED
        BY <1>2, <1>5, <2>1, <3>1, <3>2, <3>3 DEF MoneyFollows
    <2> QED
      BY <1>1, <2>1, <2>2, <2>3 DEF Issued
  <1> QED
    BY <1>3, <1>4, <1>5 DEF MoneyIsIssued, Issued

\* The inductive invariant of every interleaving.
InvoicesInv == Typed /\ GaplessNumbers /\ MoneyIsIssued

-----------------------------------------------------------------------------
\* One staff call at a time

\* The finance staff's calls take turns; the sweep runs when it runs.
OneStaffCall == \A p, q \in StaffCalls : call[p] # Idle /\ call[q] # Idle => p = q

\* An edit or a send in flight is of a draft, and the sweep is at work on invoices that have been issued.
EditsHold == \A p \in Calls : call[p].at \in {"edit", "send"} => inv[call[p].id].status = "DRAFT"
SweepsAreIssued == \A p \in Calls : call[p].at = "sweep" => \A i \in call[p].todo : Issued(i)

SameContent(i) ==
  /\ inv'[i].total = inv[i].total /\ inv'[i].due = inv[i].due
  /\ inv'[i].issued = inv[i].issued /\ inv'[i].number = inv[i].number

Swept(i) == \E q \in SweepCalls : call[q].at = "sweep" /\ i \in call[q].todo

\* How a step may treat an invoice: leave it, enter it, edit a draft, give it another status,
\* or book money on it.
Entered(i) == ~ Used(i) /\ inv'[i].status = "DRAFT" /\ inv'[i].paid = 0
Edited(i) == inv[i].status = "DRAFT" /\ inv'[i].status = "DRAFT" /\ inv'[i].paid = inv[i].paid
Restated(i) ==
  /\ Used(i) /\ SameContent(i) /\ inv'[i].paid = inv[i].paid
  /\ \/ inv'[i].status = "SENT" /\ inv[i].status = "DRAFT"
     \/ inv'[i].status = "CANCELLED"
     \/ inv'[i].status = "OVERDUE" /\ Swept(i)
  /\ Issued(i) \/ \E q \in StaffCalls : call[q].at # "idle" /\ call'[q] = Idle
Booked(i) ==
  \E p \in Calls :
    /\ MoneyWrite(p) /\ call[p].at = "money" /\ call[p].payment.invoice = i
    /\ SameContent(i) /\ inv'[i].paid = call[p].paid /\ inv'[i].status = call[p].status
RowMoves(i) == inv'[i] = inv[i] \/ Entered(i) \/ Edited(i) \/ Restated(i) \/ Booked(i)

LEMMA RestateMoves ==
  ASSUME Typed, NEW i \in Ids, Used(i), NEW s \in {"SENT", "CANCELLED", "OVERDUE"},
         inv'[i] = [inv[i] EXCEPT !.status = s],
         s = "SENT" => inv[i].status = "DRAFT", s = "OVERDUE" => Swept(i),
         Issued(i) \/ \E q \in StaffCalls : call[q].at # "idle" /\ call'[q] = Idle
  PROVE  Restated(i)
  <1>1. PICK row \in InvoiceRow : row = inv[i]
    BY UsedIsTyped DEF Typed
  <1>2. /\ inv'[i].status = s /\ inv'[i].paid = row.paid /\ inv'[i].total = row.total
        /\ inv'[i].due = row.due /\ inv'[i].issued = row.issued /\ inv'[i].number = row.number
    BY <1>1 DEF InvoiceRow
  <1> QED
    BY <1>1, <1>2 DEF Restated, SameContent

LEMMA RowsMove ==
  ASSUME Typed, EditsHold, SweepsAreIssued, [Next]_vars
  PROVE  \A i \in Ids : RowMoves(i)
  <1> SUFFICES ASSUME NEW i \in Ids PROVE RowMoves(i)
    OBVIOUS
  <1>0. inv \in [Ids -> InvoiceRow \cup {Unused}]
    BY DEF Typed, TypeOK
  <1>1. CASE UNCHANGED inv
    BY <1>1 DEF RowMoves
  <1>2. ASSUME NEW p \in Calls, Create(p) PROVE RowMoves(i)
    <2>1. PICK j \in Ids, y \in Years, due \in Days, total \in Totals :
            Insert(j, Draft(NextNumber(y), y, due, total, TRUE, NoInvoice))
      BY <1>2 DEF Create
    <2>2. PICK row : row = Draft(NextNumber(y), y, due, total, TRUE, NoInvoice)
      OBVIOUS
    <2>3. row.status = "DRAFT" /\ row.paid = 0
      BY <2>2 DEF Draft
    <2>4. inv[j] = Unused /\ inv' = [inv EXCEPT ![j] = row]
      BY <2>1, <2>2 DEF Insert
    <2> QED
      BY <1>0, <2>3, <2>4 DEF RowMoves, Entered, Used
  <1>3. ASSUME NEW p \in Calls, EditWrite(p) PROVE RowMoves(i)
    <2>1. PICK c \in Edit : c = call[p]
      BY <1>3, CallShapes DEF EditWrite, Writes, Typed
    <2>2. inv[c.id].status = "DRAFT" /\ c.id \in Ids
      BY <2>1 DEF EditsHold, Edit
    <2>3. inv' = [inv EXCEPT ![c.id] =
             [inv[c.id] EXCEPT !.issued = c.issued, !.due = c.due, !.total = c.total, !.split = TRUE]]
      BY <1>3, <2>1 DEF EditWrite
    <2>4. inv[c.id] \in InvoiceRow
      BY <2>2, UsedIsTyped DEF Typed
    <2>5. inv'[c.id].status = inv[c.id].status /\ inv'[c.id].paid = inv[c.id].paid
      BY <1>0, <2>2, <2>3, <2>4 DEF InvoiceRow
    <2> QED
      BY <1>0, <2>2, <2>3, <2>5 DEF RowMoves, Edited
  <1>4. ASSUME NEW p \in StaffCalls, NEW kind \in {"send", "cancel"}, NEW s \in {"SENT", "CANCELLED"},
               SetStatus(p, kind, s), s = "SENT" => kind = "send"
        PROVE  RowMoves(i)
    <2>1. PICK c \in ById : /\ c = call[p] /\ Used(c.id)
                            /\ s = "SENT" => inv[c.id].status = "DRAFT"
      BY <1>4, CallShapes DEF SetStatus, Writes, Typed, NamesExist, EditsHold, Calls
    <2>2. c.id \in Ids
      BY DEF ById
    <2>3. inv' = [inv EXCEPT ![c.id] = [inv[c.id] EXCEPT !.status = s]]
      BY <1>4, <2>1 DEF SetStatus
    <2>4. call[p].at # "idle" /\ call'[p] = Idle
      BY <1>4 DEF SetStatus, Writes, Become, Typed, TypeOK, Calls
    <2>5. Restated(c.id)
      BY <1>0, <2>1, <2>2, <2>3, <2>4, RestateMoves
    <2> QED
      BY <1>0, <2>2, <2>3, <2>5 DEF RowMoves
  <1>5. ASSUME NEW p \in StaffCalls, ReissueWrite(p) PROVE RowMoves(i)
    <2>1. PICK c \in Copy : c = call[p] /\ Used(c.id)
      BY <1>5, CallShapes DEF ReissueWrite, Writes, Typed, NamesExist, Calls
    <2>2. c.id \in Ids
      BY DEF Copy
    <2>3. PICK j \in Ids \ {c.id} : \E new :
            /\ inv[j] = Unused /\ new.status = "DRAFT" /\ new.paid = 0
            /\ inv' = [inv EXCEPT ![c.id] = [inv[c.id] EXCEPT !.status = "CANCELLED"], ![j] = new]
      <3>1. PICK j \in Ids \ {c.id} :
              /\ inv[j] = Unused
              /\ inv' = [inv EXCEPT ![c.id] = [inv[c.id] EXCEPT !.status = "CANCELLED"],
                                    ![j] = Draft(NextNumber(c.row.issued), c.row.issued, c.row.due,
                                                 c.row.total, FALSE, c.id)]
        BY <1>5, <2>1 DEF ReissueWrite
      <3> QED
        BY <3>1 DEF Draft
    <2>4. call[p].at # "idle" /\ call'[p] = Idle
      BY <1>5 DEF ReissueWrite, Writes, Become, Typed, TypeOK, Calls
    <2>5. inv'[c.id] = [inv[c.id] EXCEPT !.status = "CANCELLED"]
      BY <1>0, <2>2, <2>3
    <2>6. Restated(c.id)
      BY <2>1, <2>2, <2>4, <2>5, RestateMoves
    <2>7. Entered(j)
      BY <1>0, <2>2, <2>3 DEF Entered, Used
    <2>8. \A k \in Ids : k # j /\ k # c.id => inv'[k] = inv[k]
      BY <1>0, <2>2, <2>3
    <2> QED
      BY <2>6, <2>7, <2>8 DEF RowMoves
  <1>6. ASSUME NEW p \in Calls, MoneyWrite(p) PROVE RowMoves(i)
    <2>1. PICK c \in Money : c = call[p] /\ Used(c.payment.invoice)
      BY <1>6, CallShapes DEF MoneyWrite, Writes, Typed, NamesExist
    <2>2. PICK j \in Ids : j = c.payment.invoice
      BY DEF Money, PaymentRow
    <2>3. inv' = [inv EXCEPT ![j] = [inv[j] EXCEPT !.paid = c.paid, !.status = c.status]]
      BY <1>6, <2>1, <2>2 DEF MoneyWrite
    <2>4. PICK row \in InvoiceRow : row = inv[j]
      BY <2>1, <2>2, UsedIsTyped DEF Typed
    <2>5. inv'[j] = [row EXCEPT !.paid = c.paid, !.status = c.status]
      BY <1>0, <2>3, <2>4
    <2>6. SameContent(j) /\ inv'[j].paid = c.paid /\ inv'[j].status = c.status
      BY <2>4, <2>5 DEF SameContent, InvoiceRow
    <2>7. call[p].at = "money"
      BY <1>6 DEF MoneyWrite, Writes
    <2>8. Booked(j)
      BY <1>6, <2>1, <2>2, <2>6, <2>7 DEF Booked
    <2> QED
      BY <1>0, <2>3, <2>8 DEF RowMoves
  <1>7. ASSUME NEW p \in Calls, SweepWrite(p) PROVE RowMoves(i)
    <2>1. call[p] \in Sweep
      BY <1>7, CallShapes DEF SweepWrite, Typed
    <2>2. PICK j \in call[p].todo : inv' = [inv EXCEPT ![j] = [inv[j] EXCEPT !.status = "OVERDUE"]]
      BY <1>7 DEF SweepWrite
    <2>3. j \in Ids /\ Issued(j) /\ Swept(j)
      BY <1>7, <2>1, <2>2 DEF Sweep, SweepsAreIssued, SweepWrite, Swept
    <2>4. Used(j)
      BY <2>3, UsedIsTyped DEF Issued, Typed
    <2>5. Restated(j)
      BY <1>0, <2>2, <2>3, <2>4, RestateMoves
    <2> QED
      BY <1>0, <2>2, <2>5 DEF RowMoves
  <1>8. ASSUME NEW p \in Calls, StaffStep(p) PROVE RowMoves(i)
    <2>1. CASE EditLoad(p) \/ SendLoad(p) \/ CancelLoad(p) \/ ReissueLoad(p) \/ PayLoad(p) \/ ReverseLoad(p)
      BY <1>1, <2>1 DEF EditLoad, SendLoad, CancelLoad, ReissueLoad, PayLoad, ReverseLoad, Loads
    <2>2. CASE SendWrite(p) \/ CancelWrite(p)
      <3>1. p \in StaffCalls
        BY <2>2 DEF SendWrite, CancelWrite, SetStatus, Writes
      <3> QED
        BY <1>4, <2>2, <3>1 DEF SendWrite, CancelWrite
    <2>3. CASE ReissueWrite(p)
      BY <1>5, <2>3 DEF ReissueWrite, Writes
    <2> QED
      BY <1>2, <1>3, <1>6, <1>8, <2>1, <2>2, <2>3 DEF StaffStep
  <1>9. ASSUME NEW p \in Calls, SweepStep(p) PROVE RowMoves(i)
    BY <1>1, <1>7, <1>9 DEF SweepStep, SweepRead
  <1>10. CASE NextDay \/ UNCHANGED vars
    BY <1>1, <1>10 DEF NextDay, vars
  <1> QED
    BY <1>8, <1>9, <1>10 DEF Next

\* What a call may become: it is left, it ends, or it carries what it has just read.
Loaded(c) ==
  /\ UNCHANGED inv
  /\ c.at \in {"edit", "send"} => inv[c.id].status = "DRAFT"
  /\ c.at = "sweep" => \A i \in c.todo : Issued(i)
CallMoves(p) ==
  \/ call'[p] = call[p]
  \/ call'[p].at \notin {"edit", "send", "sweep", "money"}
  \/ Loaded(call'[p]) /\ call'[p].at # "money"
  \/ call'[p].at = "money" /\ UNCHANGED inv /\ (PayLoad(p) \/ ReverseLoad(p))
  \/ call[p].at = "sweep" /\ call'[p].at = "sweep" /\ call'[p].todo \subseteq call[p].todo

LEMMA CallsMove ==
  ASSUME Typed, [Next]_vars, NEW p \in Calls
  PROVE  CallMoves(p)
  <1>0. call = [q \in Calls |-> call[q]]
    BY DEF Typed, TypeOK
  <1>1. ASSUME NEW q \in Calls, NEW next, Become(q, next), next.at \notin {"edit", "send", "sweep", "money"}
        PROVE  CallMoves(p)
    BY <1>0, <1>1 DEF Become, CallMoves
  <1>2. CASE UNCHANGED call
    BY <1>2 DEF CallMoves
  <1>3. ASSUME NEW q \in Calls, StaffStep(q) PROVE CallMoves(p)
    <2>1. CASE Create(q)
      BY <1>2, <2>1 DEF Create
    <2>2. CASE EditLoad(q)
      <3>1. PICK i \in Ids, y \in Years, due \in Days, total \in Totals :
              /\ Editable(i)
              /\ Become(q, [at |-> "edit", id |-> i, issued |-> y, due |-> due, total |-> total])
        BY <2>2 DEF EditLoad
      <3>2. PICK next : /\ next = [at |-> "edit", id |-> i, issued |-> y, due |-> due, total |-> total]
                        /\ Become(q, next)
        BY <3>1
      <3>3. Loaded(next) /\ next.at = "edit"
        BY <2>2, <3>1, <3>2 DEF EditLoad, Loads, Loaded, Editable
      <3> QED
        BY <1>0, <3>2, <3>3 DEF Become, CallMoves, Loaded
    <2>3. CASE SendLoad(q)
      <3>1. PICK i \in Ids : inv[i].status = "DRAFT" /\ Become(q, [at |-> "send", id |-> i])
        BY <2>3 DEF SendLoad
      <3>2. PICK next : next = [at |-> "send", id |-> i] /\ Become(q, next)
        BY <3>1
      <3>3. Loaded(next) /\ next.at = "send"
        BY <2>3, <3>1, <3>2 DEF SendLoad, Loads, Loaded
      <3> QED
        BY <1>0, <3>2, <3>3 DEF Become, CallMoves, Loaded
    <2>7. CASE CancelLoad(q)
      <3>1. PICK i \in Ids : Become(q, [at |-> "cancel", id |-> i])
        BY <2>7 DEF CancelLoad
      <3> QED
        BY <1>1, <3>1
    <2>4. CASE ReissueLoad(q)
      <3>1. PICK i \in Ids : Become(q, [at |-> "reissue", id |-> i, row |-> inv[i]])
        BY <2>4 DEF ReissueLoad
      <3> QED
        BY <1>1, <3>1
    <2>5. CASE PayLoad(q) \/ ReverseLoad(q)
      <3>1. UNCHANGED inv
        BY <2>5 DEF PayLoad, ReverseLoad, Loads
      <3>2. PICK next : Become(q, next) /\ next.at = "money"
        <4>1. CASE PayLoad(q)
          <5>1. PICK i \in Ids, amount \in Amounts : \E next : Become(q, next) /\ next.at = "money"
            BY <4>1 DEF PayLoad
          <5> QED
            BY <5>1
        <4>2. CASE ReverseLoad(q)
          <5>1. PICK n \in DOMAIN payments : \E next : Become(q, next) /\ next.at = "money"
            BY <4>2 DEF ReverseLoad
          <5> QED
            BY <5>1
        <4> QED
          BY <2>5, <4>1, <4>2
      <3> QED
        BY <1>0, <2>5, <3>1, <3>2 DEF Become, CallMoves
    <2>6. CASE EditWrite(q) \/ SendWrite(q) \/ CancelWrite(q) \/ ReissueWrite(q) \/ MoneyWrite(q)
      <3>1. Become(q, Idle)
        BY <2>6 DEF EditWrite, SendWrite, CancelWrite, SetStatus, ReissueWrite, MoneyWrite, Writes
      <3>2. Idle.at = "idle"
        BY DEF Idle
      <3> QED
        BY <1>1, <3>1, <3>2
    <2> QED
      BY <1>3, <2>1, <2>2, <2>3, <2>4, <2>5, <2>6, <2>7 DEF StaffStep
  <1>4. ASSUME NEW q \in Calls, SweepRead(q) PROVE CallMoves(p)
    <2>1. PICK next : next = [at |-> "sweep", todo |-> {i \in Ids : PastDue(i)}] /\ Become(q, next)
      BY <1>4 DEF SweepRead
    <2>2. Loaded(next) /\ next.at = "sweep"
      BY <1>4, <2>1 DEF SweepRead, Loaded, PastDue, Issued
    <2> QED
      BY <1>0, <2>1, <2>2 DEF Become, CallMoves, Loaded
  <1>5. ASSUME NEW q \in Calls, SweepWrite(q) PROVE CallMoves(p)
    <2>1. PICK i \in call[q].todo :
            Become(q, IF call[q].todo = {i} THEN Idle
                      ELSE [at |-> "sweep", todo |-> call[q].todo \ {i}])
      BY <1>5 DEF SweepWrite
    <2>2. call[q].at = "sweep"
      BY <1>5 DEF SweepWrite
    <2> QED
      BY <1>0, <2>1, <2>2 DEF Become, CallMoves, Idle
  <1>6. CASE NextDay \/ UNCHANGED vars
    BY <1>2, <1>6 DEF NextDay, vars
  <1> QED
    BY <1>3, <1>4, <1>5, <1>6 DEF Next, SweepStep

\* Only staff calls edit: the sweep sweeps.
SweepsSweep == \A p \in SweepCalls : call[p].at \in {"idle", "sweep"}

LEMMA SweepsStay == ASSUME Typed, SweepsSweep, [Next]_vars PROVE SweepsSweep'
  <1>0. call = [q \in Calls |-> call[q]]
    BY DEF Typed, TypeOK
  <1>1. ASSUME NEW q \in Calls, StaffStep(q) PROVE SweepsSweep'
    <2>1. q \in StaffCalls
      BY <1>1 DEF StaffStep, Create, EditLoad, SendLoad, CancelLoad, ReissueLoad, PayLoad, ReverseLoad,
         Loads, EditWrite, SendWrite, CancelWrite, SetStatus, ReissueWrite, MoneyWrite, Writes
    <2>2. UNCHANGED call \/ \E next : Become(q, next)
      BY <1>1 DEF StaffStep, Create, EditLoad, SendLoad, CancelLoad, ReissueLoad, PayLoad, ReverseLoad,
         EditWrite, SendWrite, CancelWrite, SetStatus, ReissueWrite, MoneyWrite, Writes
    <2>3. \A p \in SweepCalls : call'[p] = call[p]
      BY <1>0, <2>1, <2>2, BillingAssumption DEF Become, Calls
    <2> QED
      BY <2>3 DEF SweepsSweep
  <1>2. ASSUME NEW q \in Calls, SweepStep(q) PROVE SweepsSweep'
    <2>1. PICK next : Become(q, next) /\ next.at \in {"idle", "sweep"}
      <3>1. CASE SweepRead(q)
        BY <3>1 DEF SweepRead
      <3>2. CASE SweepWrite(q)
        BY <3>2 DEF SweepWrite, Idle
      <3> QED
        BY <1>2, <3>1, <3>2 DEF SweepStep
    <2> QED
      BY <1>0, <2>1 DEF Become, SweepsSweep, Calls
  <1>3. CASE NextDay \/ UNCHANGED vars
    BY <1>3 DEF NextDay, vars, SweepsSweep
  <1> QED
    BY <1>1, <1>2, <1>3 DEF Next

\* While staff calls take turns, the invoice an edit has loaded stays a draft.
LEMMA EditsStay ==
  ASSUME InvoicesInv, EditsHold, SweepsAreIssued, SweepsSweep, OneStaffCall, [Next]_vars
  PROVE  EditsHold' /\ SweepsAreIssued'
  <1>0. Typed /\ \A i \in Ids : RowMoves(i)
    BY RowsMove DEF InvoicesInv
  <1>1. Typed' /\ \A i \in Ids : Issued(i) => Issued(i)'
    BY EveryStep DEF InvoicesInv, Owed
  <1>2. ASSUME NEW p \in Calls, call'[p].at \in {"edit", "send"}
        PROVE  inv'[call'[p].id].status = "DRAFT"
    <2>1. CASE call'[p] = call[p]
      <3>1. PICK i \in Ids : i = call[p].id /\ Used(i) /\ call[p].at \in {"edit", "send"}
        BY <1>0, <1>2, <2>1, CallShapes DEF Typed, NamesExist, Edit, ById
      <3>2. inv[i].status = "DRAFT"
        BY <3>1 DEF EditsHold
      <3>3. p \in StaffCalls
        BY <3>1 DEF SweepsSweep, Calls
      <3>4. ~ Booked(i)
        BY <3>2 DEF Booked, InvoicesInv, MoneyIsIssued, Issued
      <3>5. ~ Restated(i)
        <4>1. ASSUME NEW q \in StaffCalls, call[q].at # "idle", call'[q] = Idle PROVE FALSE
          <5>1. call[q] # Idle /\ call[p] # Idle
            BY <3>1, <4>1 DEF Idle
          <5>2. q = p
            BY <3>3, <4>1, <5>1 DEF OneStaffCall
          <5> QED
            BY <1>2, <4>1, <5>2 DEF Idle
        <4> QED
          BY <3>2, <4>1 DEF Restated, Issued
      <3>6. inv'[i].status = "DRAFT"
        BY <1>0, <3>1, <3>2, <3>4, <3>5 DEF RowMoves, Entered, Edited
      <3> QED
        BY <2>1, <3>1, <3>6
    <2>2. CASE Loaded(call'[p])
      BY <1>2, <2>2 DEF Loaded
    <2> QED
      BY <1>0, <1>2, <2>1, <2>2, CallsMove DEF CallMoves
  <1>3. ASSUME NEW p \in Calls, call'[p].at = "sweep", NEW i \in call'[p].todo PROVE Issued(i)'
    <2>1. i \in Ids
      <3>1. PICK c : c = call'[p]
        OBVIOUS
      <3>2. c \in CallState
        BY <1>1, <3>1 DEF Typed, TypeOK
      <3> QED
        BY <1>3, <3>1, <3>2 DEF CallState, Idle, ById, Edit, Copy, Money, Sweep
    <2>2. Issued(i)
      BY <1>0, <1>3, CallsMove DEF CallMoves, Loaded, SweepsAreIssued
    <2> QED
      BY <1>1, <2>1, <2>2
  <1> QED
    BY <1>2, <1>3 DEF EditsHold, SweepsAreIssued

\* An issued row's content is not touched.
LEMMA FrozenStep ==
  ASSUME InvoicesInv, EditsHold, SweepsAreIssued, [Next]_vars
  PROVE  StaysFrozen
  <1> SUFFICES ASSUME NEW i \in Ids, Issued(i) PROVE SameContent(i)
    BY DEF StaysFrozen, Issued, SameContent
  <1>1. RowMoves(i)
    BY RowsMove DEF InvoicesInv
  <1>2. Used(i)
    BY UsedIsTyped DEF InvoicesInv, Typed, Issued
  <1>3. ~ Entered(i) /\ ~ Edited(i)
    BY <1>2 DEF Entered, Edited, Issued
  <1> QED
    BY <1>1, <1>3 DEF RowMoves, Restated, Booked, SameContent

-----------------------------------------------------------------------------
\* The balance, while staff calls take turns

\* What the money of an invoice and its status say of each other.
Balanced(total, paid, status) ==
  /\ paid <= total
  /\ status = "PAID" => paid = total
  /\ status = "PARTIALLY_PAID" => 0 < paid /\ paid < total
  /\ status = "SENT" => paid <= 0
Owes(total, paid, status) == status = "OVERDUE" => paid < total
RowsBalance == \A i \in Ids : Used(i) => Balanced(inv[i].total, inv[i].paid, inv[i].status)

\* A call that carries money decided for the total the invoice still has.
CallBalances(c) ==
  c.at = "money" => /\ Balanced(inv[c.payment.invoice].total, c.paid, c.status)
                    /\ Owes(inv[c.payment.invoice].total, c.paid, c.status)
CallsBalance == \A p \in Calls : CallBalances(call[p])

\* What can be reversed is money that came in.
Positive(payment) == payment.amount \in Int /\ (payment.isReversal \/ payment.amount > 0)
MoneyComesIn ==
  /\ \A n \in DOMAIN payments : Positive(payments[n])
  /\ \A p \in Calls : call[p].at = "money" => Positive(call[p].payment)

BalanceInv == RowsBalance /\ CallsBalance /\ MoneyComesIn

\* It carries what the invoice has been paid, with its own payment.
CallAdds(c) == c.at = "money" => c.paid = inv[c.payment.invoice].paid + c.payment.amount

LEMMA StatusForBalances ==
  ASSUME NEW total \in Int, NEW paid \in Int, paid <= total, NEW current
  PROVE  /\ Balanced(total, paid, StatusFor(current, total, paid))
         /\ Owes(total, paid, StatusFor(current, total, paid))
  BY DEF Balanced, Owes, StatusFor

LEMMA RowNumbers ==
  ASSUME TypeOK, NEW i \in Ids, Used(i)
  PROVE  inv[i].total \in Nat /\ inv[i].paid \in Int
  <1>1. PICK row \in InvoiceRow : row = inv[i]
    BY UsedIsTyped
  <1>2. row.total \in Totals /\ row.paid \in Int
    BY DEF InvoiceRow
  <1> QED
    BY <1>1, <1>2, BillingAssumption

\* What a call that loads money carries.
LEMMA LoadsBalance ==
  ASSUME Typed, RowsBalance, MoneyComesIn, NEW p \in Calls, PayLoad(p) \/ ReverseLoad(p)
  PROVE  /\ call'[p].at = "money" /\ CallBalances(call'[p]) /\ Positive(call'[p].payment)
         /\ CallAdds(call'[p])
  <1>0. call = [q \in Calls |-> call[q]]
    BY DEF Typed, TypeOK
  <1>1. ASSUME NEW i \in Ids, Used(i), NEW m \in Int, NEW reversal \in BOOLEAN, NEW paid \in Int,
               paid <= inv[i].total, paid = inv[i].paid + m, reversal \/ m > 0,
               Become(p, [at |-> "money",
                          payment |-> [invoice |-> i, amount |-> m, isReversal |-> reversal],
                          status |-> StatusFor(inv[i].status, inv[i].total, paid), paid |-> paid])
        PROVE  /\ call'[p].at = "money" /\ CallBalances(call'[p]) /\ Positive(call'[p].payment)
               /\ CallAdds(call'[p])
    <2>1. PICK status : status = StatusFor(inv[i].status, inv[i].total, paid)
      OBVIOUS
    <2>2. PICK total \in Int : total = inv[i].total
      BY <1>1, RowNumbers DEF Typed
    <2>3. Balanced(total, paid, status) /\ Owes(total, paid, status)
      BY <1>1, <2>1, <2>2, StatusForBalances
    <2>4. call'[p] = [at |-> "money",
                      payment |-> [invoice |-> i, amount |-> m, isReversal |-> reversal],
                      status |-> status, paid |-> paid]
      BY <1>0, <1>1, <2>1 DEF Become
    <2>5. PICK c : c = call'[p]
      OBVIOUS
    <2>6. CallBalances(c) /\ Positive(c.payment) /\ c.at = "money"
      BY <1>1, <2>2, <2>3, <2>4, <2>5 DEF CallBalances, Positive
    <2>7. CallAdds(c)
      BY <1>1, <2>4, <2>5 DEF CallAdds
    <2> QED
      BY <2>5, <2>6, <2>7
  <1>2. CASE PayLoad(p)
    <2>1. PICK i \in Ids, m \in Amounts :
            /\ Payable(i) /\ WithinBalance(i, m)
            /\ Become(p, [at |-> "money",
                          payment |-> [invoice |-> i, amount |-> m, isReversal |-> FALSE],
                          status |-> StatusFor(inv[i].status, inv[i].total, inv[i].paid + m),
                          paid |-> inv[i].paid + m])
      BY <1>2 DEF PayLoad
    <2>2. Used(i)
      BY <2>1, UsedIsTyped DEF Payable, Typed
    <2>3. PICK total \in Int, before \in Int : total = inv[i].total /\ before = inv[i].paid
      BY <2>2, RowNumbers DEF Typed
    <2>4. m \in Int /\ m > 0
      BY BillingAssumption
    <2>5. before + m \in Int /\ before + m <= total
      BY <2>1, <2>3, <2>4 DEF WithinBalance
    <2> QED
      BY <1>1, <2>1, <2>2, <2>3, <2>4, <2>5
  <1>3. CASE ReverseLoad(p)
    <2>1. PICK n \in DOMAIN payments :
            /\ ~ payments[n].isReversal
            /\ LET i == payments[n].invoice
                   paid == inv[i].paid - payments[n].amount
               IN Become(p, [at |-> "money",
                             payment |-> [invoice |-> i, amount |-> - payments[n].amount,
                                          isReversal |-> TRUE],
                             status |-> StatusFor(inv[i].status, inv[i].total, paid), paid |-> paid])
      BY <1>3 DEF ReverseLoad
    <2>2. PICK i \in Ids, m \in Int : i = payments[n].invoice /\ m = payments[n].amount /\ Used(i) /\ m > 0
      BY <2>1, PaymentsTyped DEF Typed, NamesExist, MoneyComesIn, Positive
    <2>3. PICK total \in Int, before \in Int : total = inv[i].total /\ before = inv[i].paid
      BY <2>2, RowNumbers DEF Typed
    <2>4. before <= total
      BY <2>2, <2>3 DEF RowsBalance, Balanced
    <2>5. before - m \in Int /\ before - m <= total /\ - m \in Int /\ before - m = before + (- m)
      BY <2>2, <2>3, <2>4
    <2>6. Become(p, [at |-> "money",
                     payment |-> [invoice |-> i, amount |-> - m, isReversal |-> TRUE],
                     status |-> StatusFor(inv[i].status, inv[i].total, before - m), paid |-> before - m])
      BY <2>1, <2>2, <2>3
    <2> QED
      BY <1>1, <2>2, <2>3, <2>5, <2>6
  <1> QED
    BY <1>2, <1>3

LEMMA BalanceStays ==
  ASSUME InvoicesInv, EditsHold, SweepsAreIssued, BalanceInv, [Next]_vars
  PROVE  BalanceInv'
  <1>0. /\ Typed /\ MoneyIsIssued /\ Typed'
        /\ \A i \in Ids : RowMoves(i)
    BY RowsMove, EveryStep DEF InvoicesInv, Owed
  <1>1. ASSUME NEW i \in Ids, Used(i)'
        PROVE  Balanced(inv'[i].total, inv'[i].paid, inv'[i].status)
    <2>1. PICK row \in InvoiceRow : row = inv'[i]
      <3>1. inv' \in [Ids -> InvoiceRow \cup {Unused}] /\ inv'[i] # Unused
        BY <1>0, <1>1 DEF Typed, TypeOK, Used
      <3> QED
        BY <3>1
    <2>2. row.total \in Nat
      BY BillingAssumption DEF InvoiceRow
    <2>3. CASE inv'[i] = inv[i]
      BY <1>1, <2>3 DEF Used, BalanceInv, RowsBalance
    <2>4. CASE Entered(i)
      BY <2>1, <2>2, <2>4 DEF Entered, Balanced
    <2>5. CASE Edited(i)
      <3>1. row.paid = 0 /\ row.status = "DRAFT"
        BY <1>0, <2>1, <2>5 DEF Edited, MoneyIsIssued
      <3> QED
        BY <2>1, <2>2, <3>1 DEF Balanced
    <2>6. CASE Restated(i)
      <3>1. Balanced(inv[i].total, inv[i].paid, inv[i].status)
        BY <2>6 DEF Restated, BalanceInv, RowsBalance
      <3>2. inv'[i].status = "SENT" => inv[i].paid = 0
        BY <1>0, <2>6 DEF Restated, MoneyIsIssued
      <3> QED
        BY <2>6, <3>1, <3>2 DEF Restated, SameContent, Balanced
    <2>7. CASE Booked(i)
      <3>1. PICK p \in Calls : /\ call[p].at = "money" /\ call[p].payment.invoice = i
                               /\ SameContent(i) /\ inv'[i].paid = call[p].paid
                               /\ inv'[i].status = call[p].status
        BY <2>7 DEF Booked
      <3>2. Balanced(inv[i].total, call[p].paid, call[p].status)
        BY <3>1 DEF BalanceInv, CallsBalance, CallBalances
      <3> QED
        BY <3>1, <3>2 DEF SameContent
    <2> QED
      BY <1>0, <2>3, <2>4, <2>5, <2>6, <2>7 DEF RowMoves
  <1>2. ASSUME NEW i \in Ids, Issued(i) PROVE inv'[i].total = inv[i].total
    BY <1>2, FrozenStep DEF StaysFrozen, Issued
  <1>3. ASSUME NEW p \in Calls, call'[p].at = "money"
        PROVE  /\ Balanced(inv'[call'[p].payment.invoice].total, call'[p].paid, call'[p].status)
               /\ Owes(inv'[call'[p].payment.invoice].total, call'[p].paid, call'[p].status)
               /\ Positive(call'[p].payment)
    <2>1. CASE call'[p] = call[p]
      <3>1. PICK c : c = call[p] /\ c = call'[p]
        BY <2>1
      <3>2. c.payment.invoice \in Ids
        BY <1>0, <1>3, <3>1, CallShapes DEF Typed, Money, PaymentRow
      <3>3. Issued(c.payment.invoice)
        BY <1>0, <1>3, <3>1 DEF MoneyIsIssued
      <3>4. /\ Balanced(inv[c.payment.invoice].total, c.paid, c.status)
            /\ Owes(inv[c.payment.invoice].total, c.paid, c.status) /\ Positive(c.payment)
        BY <1>3, <3>1 DEF BalanceInv, CallsBalance, CallBalances, MoneyComesIn
      <3> QED
        BY <1>2, <3>1, <3>2, <3>3, <3>4
    <2>2. CASE UNCHANGED inv /\ (PayLoad(p) \/ ReverseLoad(p))
      BY <1>0, <1>3, <2>2, LoadsBalance DEF BalanceInv, CallBalances
    <2> QED
      BY <1>0, <1>3, <2>1, <2>2, CallsMove DEF CallMoves
  <1>4. ASSUME NEW n \in DOMAIN payments' PROVE Positive(payments'[n])
    <2>1. payments \in Seq(PaymentRow)
      BY <1>0 DEF Typed, TypeOK
    <2>2. CASE payments' = payments
      BY <1>4, <2>2 DEF BalanceInv, MoneyComesIn
    <2>3. ASSUME NEW p \in Calls, call[p].at = "money", payments' = Append(payments, call[p].payment)
          PROVE  Positive(payments'[n])
      <3>1. PICK new : new = call[p].payment
        OBVIOUS
      <3>2. Positive(new) /\ \A m \in DOMAIN payments : Positive(payments[m])
        BY <2>3, <3>1 DEF BalanceInv, MoneyComesIn
      <3>3. payments' = Append(payments, new)
        BY <2>3, <3>1
      <3>4. payments'[n] = new \/ (n \in DOMAIN payments /\ payments'[n] = payments[n])
        BY <1>4, <2>1, <3>3
      <3> QED
        BY <3>2, <3>4
    <2> QED
      BY <1>0, <2>2, <2>3, MoneyIsTraced DEF MoneyFollows
  <1> QED
    BY <1>1, <1>3, <1>4 DEF BalanceInv, RowsBalance, CallsBalance, CallBalances, MoneyComesIn

-----------------------------------------------------------------------------
\* Sums over a finite set

\* The element a sum takes next; g, which gives the sum of F over every subset of S, whatever
\* the order; i, which follows the recursion of the community module's fold.
Pick(s) == CHOOSE x \in s : TRUE
Sums(g, F, S) ==
  /\ g \in [SUBSET S -> Int]
  /\ g[{}] = 0
  /\ \A s \in SUBSET S : \A x \in s : g[s] = F[x] + g[s \ {x}]
Recurses(i, F, S) ==
  i = [s \in SUBSET S |-> IF s = {} THEN 0 ELSE F[Pick(s)] + i[s \ {Pick(s)}]]
Total(F, S) == MapThenSumSet(LAMBDA x : F[x], S)

\* Induction over the subsets of a finite set: one that is in T is there without needing a
\* smaller one.
LEMMA SmallestSubset ==
  ASSUME NEW S, IsFiniteSet(S), NEW T \in SUBSET SUBSET S, T # {}
  PROVE  \E s \in T : \A x \in s : s \ {x} \notin T
  <1>1. IsWellFoundedOn(StrictSubsetOrdering(S), SUBSET S)
    BY FS_StrictSubsetOrderingWellFounded, FS_FiniteSubsetsOfFinite
  <1>2. PICK s \in T : \A t \in T : <<t, s>> \notin StrictSubsetOrdering(S)
    BY <1>1, WFMin
  <1>3. ASSUME NEW x \in s, s \ {x} \in T
        PROVE  <<s \ {x}, s>> \in StrictSubsetOrdering(S)
    BY <1>2, <1>3 DEF StrictSubsetOrdering
  <1> QED
    BY <1>2, <1>3

LEMMA SumsExtend ==
  ASSUME NEW S, NEW e \in S, NEW F \in [S -> Int], NEW h, Sums(h, F, S \ {e})
  PROVE  \E g : Sums(g, F, S)
  <1> DEFINE g == [s \in SUBSET S |-> h[s \ {e}] + (IF e \in s THEN F[e] ELSE 0)]
  <1>1. \A s \in SUBSET S : s \ {e} \in SUBSET (S \ {e})
    OBVIOUS
  <1>2. g \in [SUBSET S -> Int]
    BY <1>1 DEF Sums
  <1>3. g[{}] = 0
    <2>1. {} \ {e} = {} /\ {} \in SUBSET S
      OBVIOUS
    <2> QED
      BY <2>1 DEF Sums
  <1>4. ASSUME NEW s \in SUBSET S, NEW x \in s
        PROVE  g[s] = F[x] + g[s \ {x}]
    <2>1. s \ {x} \in SUBSET S /\ F[x] \in Int /\ F[e] \in Int
      OBVIOUS
    <2>2. h[s \ {e}] \in Int /\ h[(s \ {x}) \ {e}] \in Int
      BY <1>1, <2>1 DEF Sums
    <2>3. CASE x = e
      <3>1. (s \ {x}) \ {e} = s \ {e}
        BY <2>3
      <3>2. g[s] = h[s \ {e}] + F[e] /\ g[s \ {x}] = h[s \ {e}] + 0
        BY <2>1, <2>3, <3>1
      <3> QED
        BY <2>1, <2>2, <2>3, <3>2
    <2>4. CASE x # e
      <3>1. x \in s \ {e} /\ (s \ {e}) \ {x} = (s \ {x}) \ {e} /\ (e \in s \ {x} <=> e \in s)
        BY <2>4
      <3>2. h[s \ {e}] = F[x] + h[(s \ {x}) \ {e}]
        <4>1. PICK t \in SUBSET (S \ {e}) : t = s \ {e}
          BY <1>1
        <4>2. h[t] = F[x] + h[t \ {x}]
          BY <3>1, <4>1 DEF Sums
        <4> QED
          BY <3>1, <4>1, <4>2
      <3>3. PICK more \in Int : more = IF e \in s THEN F[e] ELSE 0
        BY <2>1
      <3>4. g[s] = h[s \ {e}] + more /\ g[s \ {x}] = h[(s \ {x}) \ {e}] + more
        BY <2>1, <3>1, <3>3
      <3> HIDE DEF g
      <3>5. PICK n \in Int, f \in Int : n = h[(s \ {x}) \ {e}] /\ f = F[x]
        BY <2>1, <2>2
      <3>6. g[s] = (f + n) + more /\ g[s \ {x}] = n + more
        BY <3>2, <3>4, <3>5
      <3>7. (f + n) + more = f + (n + more)
        BY <3>3, <3>5
      <3> QED
        BY <3>5, <3>6, <3>7
    <2> QED
      BY <2>3, <2>4
  <1> HIDE DEF g
  <1> QED
    BY <1>2, <1>3, <1>4 DEF Sums

LEMMA SumsExist ==
  ASSUME NEW S, IsFiniteSet(S), NEW F \in [S -> Int]
  PROVE  \E g : Sums(g, F, S)
  <1> DEFINE T == {s \in SUBSET S : ~ \E g : Sums(g, [x \in s |-> F[x]], s)}
  <1>1. ASSUME NEW s \in T, \A x \in s : s \ {x} \notin T
        PROVE  FALSE
    <2>1. CASE s = {}
      <3>1. Sums([t \in SUBSET s |-> 0], [x \in s |-> F[x]], s)
        BY <2>1 DEF Sums
      <3> QED
        BY <3>1
    <2>2. CASE s # {}
      <3>1. PICK e \in s : TRUE
        BY <2>2
      <3>2. PICK h : Sums(h, [x \in s \ {e} |-> F[x]], s \ {e})
        BY <1>1
      <3>3. Sums(h, [x \in s |-> F[x]], s \ {e})
        BY <3>2 DEF Sums
      <3>4. [x \in s |-> F[x]] \in [s -> Int]
        OBVIOUS
      <3> QED
        BY <3>3, <3>4, SumsExtend
    <2> QED
      BY <2>1, <2>2
  <1> HIDE DEF T
  <1>2. T = {}
    <2>1. T \in SUBSET SUBSET S
      BY DEF T
    <2> QED
      BY <1>1, <2>1, SmallestSubset
  <1>3. [x \in S |-> F[x]] = F
    OBVIOUS
  <1> QED
    BY <1>2, <1>3 DEF T

\* The fold computes that sum.
LEMMA FoldIsSum ==
  ASSUME NEW S, IsFiniteSet(S), NEW F, NEW g, Sums(g, F, S)
  PROVE  /\ Recurses(g, F, S)
         /\ \A i : Recurses(i, F, S) => \A s \in SUBSET S : i[s] = g[s]
  <1>1. \A s \in SUBSET S : s # {} => Pick(s) \in s
    BY DEF Pick
  <1>2. Recurses(g, F, S)
    BY <1>1 DEF Recurses, Sums
  <1>3. ASSUME NEW i, Recurses(i, F, S)
        PROVE  \A s \in SUBSET S : i[s] = g[s]
    <2> DEFINE T == {s \in SUBSET S : i[s] # g[s]}
    <2>1. ASSUME NEW s \in T, \A x \in s : s \ {x} \notin T
          PROVE  FALSE
      <3>1. i[s] = IF s = {} THEN 0 ELSE F[Pick(s)] + i[s \ {Pick(s)}]
        BY <1>3 DEF Recurses
      <3>2. s # {} => i[s \ {Pick(s)}] = g[s \ {Pick(s)}]
        BY <1>1, <2>1
      <3> QED
        BY <1>1, <3>1, <3>2 DEF Sums
    <2> QED
      BY <2>1, SmallestSubset
  <1> QED
    BY <1>2, <1>3

LEMMA TotalIsSum ==
  ASSUME NEW S, IsFiniteSet(S), NEW F, NEW g, Sums(g, F, S)
  PROVE  Total(F, S) = g[S]
  <1> DEFINE i == CHOOSE i : i = [s \in SUBSET S |->
                               IF s = {} THEN 0 ELSE F[Pick(s)] + i[s \ {Pick(s)}]]
  <1>1. Total(F, S) = i[S]
    BY DEF Total, MapThenSumSet, MapThenFoldSet, Pick
  <1>2. Recurses(i, F, S)
    <2>1. Recurses(g, F, S)
      BY FoldIsSum
    <2>2. \A j : Recurses(j, F, S) <=>
            j = [s \in SUBSET S |-> IF s = {} THEN 0 ELSE F[Pick(s)] + j[s \ {Pick(s)}]]
      BY DEF Recurses
    <2> QED
      BY <2>1, <2>2
  <1> HIDE DEF i
  <1> QED
    BY <1>1, <1>2, FoldIsSum

LEMMA TotalSame ==
  ASSUME NEW S, IsFiniteSet(S), NEW F, NEW G, \A x \in S : F[x] = G[x] /\ F[x] \in Int
  PROVE  Total(F, S) = Total(G, S)
  <1> DEFINE H == [x \in S |-> F[x]]
  <1>1. PICK g : Sums(g, H, S)
    BY SumsExist
  <1>2. Sums(g, F, S) /\ Sums(g, G, S)
    BY <1>1 DEF Sums
  <1> QED
    BY <1>2, TotalIsSum

\* A total, one element at a time.
LEMMA TotalStep ==
  ASSUME NEW S, IsFiniteSet(S), NEW F, \A x \in S : F[x] \in Int
  PROVE  /\ Total(F, S) \in Int
         /\ S = {} => Total(F, S) = 0
         /\ \A x \in S : Total(F, S) = F[x] + Total(F, S \ {x})
  <1>1. PICK g : Sums(g, [x \in S |-> F[x]], S)
    BY SumsExist
  <1>2. Sums(g, F, S)
    BY <1>1 DEF Sums
  <1>3. Total(F, S) = g[S]
    BY <1>2, TotalIsSum
  <1>4. ASSUME NEW x \in S
        PROVE  Total(F, S \ {x}) = g[S \ {x}]
    <2> DEFINE h == [s \in SUBSET (S \ {x}) |-> g[s]]
    <2>1. Sums(h, F, S \ {x})
      BY <1>2 DEF Sums
    <2>2. IsFiniteSet(S \ {x})
      BY FS_Subset
    <2>3. Total(F, S \ {x}) = h[S \ {x}]
      BY <2>1, <2>2, TotalIsSum
    <2> QED
      BY <2>3
  <1>5. /\ g[S] \in Int
        /\ S = {} => g[S] = 0
        /\ \A x \in S : g[S] = F[x] + g[S \ {x}]
    BY <1>2 DEF Sums
  <1> QED
    BY <1>3, <1>4, <1>5

\* What the rows ps pay on invoice i.
RowsOn(ps, i) == {n \in DOMAIN ps : ps[n].invoice = i}
PaidBy(ps, i) == MapThenSumSet(LAMBDA n : ps[n].amount, RowsOn(ps, i))
AmountsOf(ps) == [n \in DOMAIN ps |-> ps[n].amount]

LEMMA RowsTyped ==
  ASSUME NEW ps \in Seq(PaymentRow), NEW i
  PROVE  /\ IsFiniteSet(RowsOn(ps, i))
         /\ \A n \in DOMAIN ps : ps[n] \in PaymentRow /\ AmountsOf(ps)[n] \in Int
  <1>1. DOMAIN ps = 1 .. Len(ps) /\ Len(ps) \in Nat
    OBVIOUS
  <1>2. IsFiniteSet(DOMAIN ps)
    BY <1>1, FS_Interval
  <1>3. IsFiniteSet(RowsOn(ps, i))
    BY <1>2, FS_Subset DEF RowsOn
  <1>4. \A n \in DOMAIN ps : ps[n] \in PaymentRow
    OBVIOUS
  <1>5. \A n \in DOMAIN ps : AmountsOf(ps)[n] \in Int
    BY <1>4 DEF AmountsOf, PaymentRow
  <1> QED
    BY <1>3, <1>4, <1>5

LEMMA PaidIsTotal ==
  ASSUME NEW ps \in Seq(PaymentRow), NEW i
  PROVE  PaidBy(ps, i) = Total(AmountsOf(ps), RowsOn(ps, i))
  <1> DEFINE S == RowsOn(ps, i)
             F == AmountsOf(ps)
             iter == CHOOSE it : it = [s \in SUBSET S |->
                       IF s = {} THEN 0 ELSE ps[Pick(s)].amount + it[s \ {Pick(s)}]]
  <1>1. \A s \in SUBSET S : s # {} => Pick(s) \in DOMAIN ps
    BY DEF Pick, RowsOn
  <1>2. \A n \in DOMAIN ps : F[n] = ps[n].amount
    BY DEF AmountsOf
  <1>3. \A it : Recurses(it, F, S) <=>
          it = [s \in SUBSET S |->
                  IF s = {} THEN 0 ELSE ps[Pick(s)].amount + it[s \ {Pick(s)}]]
    BY <1>1, <1>2 DEF Recurses
  <1>4. PaidBy(ps, i) = iter[S]
    BY DEF PaidBy, MapThenSumSet, MapThenFoldSet, Pick
  <1>5. PICK g : Sums(g, [n \in S |-> F[n]], S)
    <2>1. [n \in S |-> F[n]] \in [S -> Int]
      BY RowsTyped DEF RowsOn
    <2> QED
      BY <2>1, RowsTyped, SumsExist
  <1>6. Sums(g, F, S)
    BY <1>5 DEF Sums
  <1>7. IsFiniteSet(S) /\ Recurses(g, F, S)
    BY <1>6, RowsTyped, FoldIsSum
  <1> HIDE DEF S, F
  <1>8. Recurses(iter, F, S)
    BY <1>3, <1>7
  <1> HIDE DEF iter
  <1>9. iter[S] = g[S] /\ Total(F, S) = g[S]
    BY <1>6, <1>7, <1>8, FoldIsSum, TotalIsSum
  <1> QED
    BY <1>4, <1>9 DEF S, F

LEMMA PaidIsInt ==
  ASSUME NEW ps \in Seq(PaymentRow), NEW i
  PROVE  PaidBy(ps, i) \in Int /\ (RowsOn(ps, i) = {} => PaidBy(ps, i) = 0)
  <1>1. \A n \in RowsOn(ps, i) : AmountsOf(ps)[n] \in Int
    BY RowsTyped DEF RowsOn
  <1> QED
    BY <1>1, RowsTyped, PaidIsTotal, TotalStep

\* A row adds its amount to what has been paid on its invoice, and to no other.
LEMMA PaidGrows ==
  ASSUME NEW ps \in Seq(PaymentRow), NEW row \in PaymentRow, NEW i
  PROVE  PaidBy(Append(ps, row), i) =
           IF row.invoice = i THEN PaidBy(ps, i) + row.amount ELSE PaidBy(ps, i)
  <1> DEFINE more == Append(ps, row)
             m == Len(ps) + 1
  <1>0. more = Append(ps, row)
    OBVIOUS
  <1>1. /\ more \in Seq(PaymentRow) /\ m \in DOMAIN more /\ more[m] = row
        /\ m \notin DOMAIN ps /\ DOMAIN more = DOMAIN ps \cup {m}
        /\ \A n \in DOMAIN ps : more[n] = ps[n]
    OBVIOUS
  <1> HIDE DEF more, m
  <1>2. \A n \in DOMAIN ps : AmountsOf(more)[n] = AmountsOf(ps)[n]
    BY <1>1 DEF AmountsOf
  <1>3. AmountsOf(more)[m] = row.amount /\ row.amount \in Int
    BY <1>1 DEF AmountsOf, PaymentRow
  <1>4. Total(AmountsOf(more), RowsOn(ps, i)) = Total(AmountsOf(ps), RowsOn(ps, i))
    <2>1. \A n \in RowsOn(ps, i) : AmountsOf(ps)[n] = AmountsOf(more)[n] /\ AmountsOf(ps)[n] \in Int
      BY <1>2, RowsTyped DEF RowsOn
    <2> QED
      BY <2>1, RowsTyped, TotalSame
  <1>5. PaidBy(ps, i) \in Int
    BY PaidIsInt
  <1>6. CASE row.invoice # i
    <2>1. RowsOn(more, i) = RowsOn(ps, i)
      BY <1>1, <1>6 DEF RowsOn
    <2> QED
      BY <1>0, <1>1, <1>4, <1>6, <2>1, PaidIsTotal
  <1>7. CASE row.invoice = i
    <2>1. RowsOn(more, i) = RowsOn(ps, i) \cup {m} /\ m \notin RowsOn(ps, i)
      BY <1>1, <1>7 DEF RowsOn
    <2>2. \A n \in RowsOn(more, i) : AmountsOf(more)[n] \in Int
      BY <1>1, RowsTyped DEF RowsOn
    <2>3. m \in RowsOn(more, i) /\ RowsOn(more, i) \ {m} = RowsOn(ps, i)
      BY <2>1
    <2>4. Total(AmountsOf(more), RowsOn(more, i)) =
            AmountsOf(more)[m] + Total(AmountsOf(more), RowsOn(ps, i))
      BY <1>1, <2>2, <2>3, RowsTyped, TotalStep
    <2>5. PaidBy(more, i) = row.amount + PaidBy(ps, i)
      BY <1>1, <1>3, <1>4, <2>4, PaidIsTotal
    <2>6. row.amount + PaidBy(ps, i) = PaidBy(ps, i) + row.amount
      BY <1>3, <1>5
    <2> QED
      BY <1>0, <1>7, <2>5, <2>6
  <1> QED
    BY <1>6, <1>7

-----------------------------------------------------------------------------
\* The theorems

LEMMA AtFirst == Init => InvoicesInv
  <1> SUFFICES ASSUME Init PROVE InvoicesInv
    OBVIOUS
  <1>1. TypeOK
    <2>1. today \in Nat /\ lastSeq \in [Years -> Nat]
      BY DEF Init
    <2>2. inv \in [Ids -> InvoiceRow \cup {Unused}] /\ payments \in Seq(PaymentRow)
      BY DEF Init
    <2>3. call \in [Calls -> CallState]
      BY IdleNames DEF Init
    <2> QED
      BY <2>1, <2>2, <2>3 DEF TypeOK
  <1>2. NamesExist
    BY DEF Init, NamesExist, Idle
  <1>3. GaplessNumbers
    <2>1. \A i \in Ids : ~ Used(i)
      BY DEF Init, Used
    <2>2. \A y \in Years : 1 .. lastSeq[y] = {}
      BY DEF Init
    <2> QED
      BY <2>1, <2>2 DEF GaplessNumbers
  <1>4. MoneyIsIssued
    BY DEF Init, MoneyIsIssued, Idle, Unused
  <1> QED
    BY <1>1, <1>2, <1>3, <1>4 DEF InvoicesInv, Typed

LEMMA ItIsInductive == InvoicesInv /\ [Next]_vars => InvoicesInv'
  BY EveryStep, MoneyStaysIssued DEF InvoicesInv, Owed

LEMMA ItSuffices == InvoicesInv => TypeOK /\ GaplessNumbers /\ NoMoneyOnDrafts
  <1> SUFFICES ASSUME InvoicesInv PROVE NoMoneyOnDrafts
    BY DEF InvoicesInv, Typed
  <1>1. \A n \in DOMAIN payments : inv[payments[n].invoice].status # "DRAFT"
    BY DEF InvoicesInv, MoneyIsIssued, Issued
  <1> QED
    BY <1>1 DEF InvoicesInv, MoneyIsIssued, Issued, NoMoneyOnDrafts

\* Every invoice, payment and call in flight keeps its shape, and names an
\* invoice that exists, under every interleaving of the handlers and the sweep.
THEOREM TypeCorrect == Spec => []TypeOK
  BY AtFirst, ItIsInductive, ItSuffices, PTL DEF Spec

\* create, reissue: however many calls race, for however many invoices, the
\* numbers of a year run 1 .. lastSeq without gap or repeat.
THEOREM NumbersAreGapless == Spec => []GaplessNumbers
  BY AtFirst, ItIsInductive, ItSuffices, PTL DEF Spec

\* recordPayment, reversePayment: no race, of any number of calls, leaves money
\* on a draft.
THEOREM DraftsHoldNoMoney == Spec => []NoMoneyOnDrafts
  BY AtFirst, ItIsInductive, ItSuffices, PTL DEF Spec
\* What also holds while the staff's calls take turns.
TurnsInv == InvoicesInv /\ SweepsSweep /\ EditsHold /\ SweepsAreIssued /\ BalanceInv

LEMMA TurnsAtFirst == Init => TurnsInv
  <1> SUFFICES ASSUME Init PROVE TurnsInv
    OBVIOUS
  <1>1. \A p \in Calls : call[p].at = "idle"
    BY DEF Init, Idle
  <1>2. SweepsSweep /\ EditsHold /\ SweepsAreIssued /\ CallsBalance
    BY <1>1 DEF SweepsSweep, EditsHold, SweepsAreIssued, CallsBalance, CallBalances, Calls
  <1>3. RowsBalance
    BY DEF Init, RowsBalance, Used
  <1>4. MoneyComesIn
    BY <1>1 DEF Init, MoneyComesIn
  <1> QED
    BY <1>2, <1>3, <1>4, AtFirst DEF TurnsInv, BalanceInv

LEMMA TurnsStay == TurnsInv /\ OneStaffCall /\ [Next]_vars => TurnsInv'
  BY ItIsInductive, SweepsStay, EditsStay, BalanceStays DEF TurnsInv, InvoicesInv

LEMMA TurnsSuffice == TurnsInv => PaidWithinTotal /\ SettledIsPaid
  <1> SUFFICES ASSUME TurnsInv, NEW i \in Ids
               PROVE  /\ Used(i) => inv[i].paid <= inv[i].total
                      /\ inv[i].status = "SENT" => inv[i].paid <= 0
                      /\ inv[i].status = "PAID" => inv[i].paid = inv[i].total
                      /\ inv[i].status = "PARTIALLY_PAID" =>
                           inv[i].paid > 0 /\ inv[i].paid < inv[i].total
    BY DEF PaidWithinTotal, SettledIsPaid
  <1>1. CASE Used(i)
    <2>1. Balanced(inv[i].total, inv[i].paid, inv[i].status)
      BY <1>1 DEF TurnsInv, BalanceInv, RowsBalance
    <2>2. PICK total \in Int, paid \in Int : total = inv[i].total /\ paid = inv[i].paid
      BY <1>1, RowNumbers DEF TurnsInv, InvoicesInv, Typed
    <2> QED
      BY <2>1, <2>2 DEF Balanced
  <1>2. CASE ~ Used(i)
    BY <1>2, UsedIsTyped DEF TurnsInv, InvoicesInv, Typed
  <1> QED
    BY <1>1, <1>2

\* updateDraft, send: while the finance staff's calls take turns, whatever the sweep does
\* in between, no step changes the content of an invoice once sent.
THEOREM SentStaysFrozen == Spec /\ []OneStaffCall => [][StaysFrozen]_vars
  <1>1. TurnsInv /\ [Next]_vars => [StaysFrozen]_vars
    BY FrozenStep DEF TurnsInv
  <1> QED
    BY <1>1, TurnsAtFirst, TurnsStay, PTL DEF Spec

\* recordPayment, reversePayment: while the finance staff's calls take turns, nobody has paid
\* more than the total, and PAID, PARTIALLY_PAID and SENT say what the money says.
THEOREM BalanceIsSound == Spec /\ []OneStaffCall => [](PaidWithinTotal /\ SettledIsPaid)
  BY TurnsAtFirst, TurnsStay, TurnsSuffice, PTL DEF Spec

\* What the small instance's serial family checks of the content, for any instance.
THEOREM SerialStaysFrozen == MCSpec => SerialFrozen
  <1> DEFINE Serial == InvoicesInv /\ (mode = "serial" => TurnsInv /\ OneStaffCall)
  <1>1. Turns => OneStaffCall
    BY DEF Turns, OneStaffCall
  <1>2. MCInit => Serial
    <2>1. MCInit => Turns
      BY DEF MCInit, Init, Turns, Calls
    <2> QED
      BY <1>1, <2>1, TurnsAtFirst DEF MCInit, TurnsInv
  <1>3. Serial /\ [MCNext]_<<vars, mode, straddled>> => Serial'
    <2> SUFFICES ASSUME Serial, [MCNext]_<<vars, mode, straddled>> PROVE Serial'
      OBVIOUS
    <2>1. CASE MCNext
      <3>1. Next /\ mode' = mode /\ (mode' = "serial" => Turns')
        BY <2>1 DEF MCNext, Family
      <3>2. InvoicesInv'
        BY <3>1, ItIsInductive
      <3>3. Turns' => OneStaffCall'
        BY DEF Turns, OneStaffCall
      <3> QED
        BY <3>1, <3>2, <3>3, TurnsStay
    <2>2. CASE UNCHANGED <<vars, mode, straddled>>
      <3>1. UNCHANGED vars /\ UNCHANGED mode
        BY <2>2
      <3>2. InvoicesInv'
        BY <3>1, ItIsInductive
      <3>3. OneStaffCall' <=> OneStaffCall
        BY <3>1 DEF vars, OneStaffCall
      <3> QED
        BY <3>1, <3>2, <3>3, TurnsStay
    <2> QED
      BY <2>1, <2>2
  <1>4. Serial /\ [MCNext]_<<vars, mode, straddled>> => [mode = "serial" => StaysFrozen]_vars
    BY FrozenStep DEF TurnsInv, MCNext
  <1> QED
    BY <1>2, <1>3, <1>4, PTL DEF MCSpec, SerialFrozen

-----------------------------------------------------------------------------
\* The payment rows, while staff calls take turns

\* The rows of an invoice add up to what it says has been paid; and so does what a call carries.
CallsAdd == \A p \in Calls : CallAdds(call[p])

LEMMA NothingPaidYet ==
  ASSUME Typed, NEW i \in Ids, ~ Used(i)
  PROVE  PaidBy(payments, i) = 0
  <1>1. RowsOn(payments, i) = {}
    BY DEF RowsOn, Typed, NamesExist
  <1>2. payments \in Seq(PaymentRow)
    BY DEF Typed, TypeOK
  <1> QED
    BY <1>1, <1>2, PaidIsInt

\* Only the end of a money call changes what has been paid.
LEMMA OnlyMoneyPays ==
  ASSUME Typed, EditsHold, SweepsAreIssued, [Next]_vars, \A p \in Calls : ~ MoneyWrite(p)
  PROVE  /\ payments' = payments
         /\ \A i \in Ids : Used(i)' =>
              \/ Used(i) /\ inv'[i].paid = inv[i].paid
              \/ ~ Used(i) /\ inv'[i].paid = 0
  <1>1. payments' = payments
    <2>1. ASSUME NEW p \in Calls, StaffStep(p) PROVE payments' = payments
      BY <2>1 DEF StaffStep, Create, EditLoad, SendLoad, CancelLoad, ReissueLoad, PayLoad, ReverseLoad,
         Loads, EditWrite, SendWrite, CancelWrite, SetStatus, ReissueWrite
    <2>2. ASSUME NEW p \in Calls, SweepStep(p) PROVE payments' = payments
      BY <2>2 DEF SweepStep, SweepRead, SweepWrite
    <2> QED
      BY <2>1, <2>2 DEF Next, NextDay, vars
  <1>2. ASSUME NEW i \in Ids, Used(i)'
        PROVE  \/ Used(i) /\ inv'[i].paid = inv[i].paid
               \/ ~ Used(i) /\ inv'[i].paid = 0
    <2>1. ~ Booked(i)
      BY DEF Booked
    <2>2. CASE inv'[i] = inv[i]
      BY <1>2, <2>2 DEF Used
    <2>3. CASE Entered(i)
      BY <2>3 DEF Entered
    <2>4. CASE Edited(i)
      <3>1. Used(i)
        BY <2>4, UsedIsTyped DEF Edited, Typed
      <3> QED
        BY <2>4, <3>1 DEF Edited
    <2>5. CASE Restated(i)
      BY <2>5 DEF Restated
    <2> QED
      BY <2>1, <2>2, <2>3, <2>4, <2>5, RowsMove DEF RowMoves
  <1> QED
    BY <1>1, <1>2

LEMMA RowsAddUp ==
  ASSUME InvoicesInv, EditsHold, SweepsAreIssued, PaidIsAllPayments, CallsAdd, [Next]_vars
  PROVE  PaidIsAllPayments'
  <1>0. Typed /\ Typed' /\ payments \in Seq(PaymentRow)
    BY ItIsInductive DEF InvoicesInv, Typed, TypeOK
  <1>1. \A i \in Ids : Used(i) => inv[i].paid = PaidBy(payments, i)
    BY DEF PaidIsAllPayments, SumOf, PaymentsOf, PaidBy, RowsOn
  <1>2. SUFFICES ASSUME NEW i \in Ids, Used(i)'
                 PROVE  inv'[i].paid = PaidBy(payments', i)
    BY DEF PaidIsAllPayments, SumOf, PaymentsOf, PaidBy, RowsOn, MapThenSumSet, MapThenFoldSet
  <1>3. ASSUME NEW p \in Calls, MoneyWrite(p)
        PROVE  inv'[i].paid = PaidBy(payments', i)
    <2>1. PICK c \in Money : c = call[p] /\ Used(c.payment.invoice) /\ CallAdds(c)
      BY <1>0, <1>3, CallShapes DEF MoneyWrite, Writes, Typed, NamesExist, CallsAdd
    <2>2. PICK row \in PaymentRow : row = c.payment /\ row.invoice \in Ids
      BY DEF Money, PaymentRow
    <2>3. /\ payments' = Append(payments, row)
          /\ inv' = [inv EXCEPT ![row.invoice] =
                       [inv[row.invoice] EXCEPT !.paid = c.paid, !.status = c.status]]
      BY <1>3, <2>1, <2>2 DEF MoneyWrite
    <2>4. PICK ps \in Seq(PaymentRow) : ps = payments
      BY <1>0
    <2>5. PaidBy(Append(ps, row), i) = IF row.invoice = i THEN PaidBy(ps, i) + row.amount
                                       ELSE PaidBy(ps, i)
      BY PaidGrows
    <2>6. PaidBy(payments', i) = IF row.invoice = i THEN PaidBy(payments, i) + row.amount
                                 ELSE PaidBy(payments, i)
      BY <2>3, <2>4, <2>5
    <2>7. CASE row.invoice = i
      <3>1. i \in Ids /\ Used(i)
        BY <2>1, <2>2, <2>7 DEF Used
      <3>2. inv[i] \in InvoiceRow
        BY <1>0, <3>1, UsedIsTyped DEF Typed
      <3>3. inv'[i] = [inv[i] EXCEPT !.paid = c.paid, !.status = c.status]
        BY <1>0, <2>3, <2>7 DEF Typed, TypeOK
      <3>4. inv'[i].paid = c.paid
        BY <3>2, <3>3 DEF InvoiceRow
      <3>5. c.paid = inv[i].paid + row.amount
        BY <2>1, <2>2, <2>7 DEF CallAdds, Money
      <3> QED
        BY <1>1, <2>6, <2>7, <3>1, <3>4, <3>5
    <2>8. CASE row.invoice # i
      <3>1. inv'[i] = inv[i] /\ Used(i)
        BY <1>0, <1>2, <2>3, <2>8 DEF Typed, TypeOK, Used
      <3> QED
        BY <1>1, <2>6, <2>8, <3>1
    <2> QED
      BY <2>7, <2>8
  <1>4. CASE \A p \in Calls : ~ MoneyWrite(p)
    <2>1. payments' = payments
      BY <1>0, <1>4, OnlyMoneyPays
    <2>2. \/ Used(i) /\ inv'[i].paid = inv[i].paid
          \/ ~ Used(i) /\ inv'[i].paid = 0
      BY <1>0, <1>2, <1>4, OnlyMoneyPays
    <2> QED
      BY <1>0, <1>1, <2>1, <2>2, NothingPaidYet
  <1> QED
    BY <1>3, <1>4

LEMMA CallsStillAdd ==
  ASSUME InvoicesInv, EditsHold, SweepsAreIssued, SweepsSweep, OneStaffCall, RowsBalance,
         MoneyComesIn, CallsAdd, [Next]_vars
  PROVE  CallsAdd'
  <1>0. Typed /\ call \in [Calls -> CallState] /\ Idle.at = "idle"
    BY DEF InvoicesInv, Typed, TypeOK, Idle
  <1>1. SUFFICES ASSUME NEW p \in Calls, call'[p].at = "money"
                 PROVE  call'[p].paid = inv'[call'[p].payment.invoice].paid + call'[p].payment.amount
    BY DEF CallsAdd, CallAdds
  <1>2. CASE call'[p] = call[p]
    <2>1. PICK c \in Money : c = call[p] /\ Used(c.payment.invoice)
      BY <1>0, <1>1, <1>2, CallShapes DEF Typed, NamesExist
    <2>2. PICK i \in Ids : i = c.payment.invoice
      BY DEF Money, PaymentRow
    <2>3. c.paid = inv[i].paid + c.payment.amount
      BY <1>1, <1>2, <2>1, <2>2 DEF CallsAdd, CallAdds
    <2>4. ASSUME NEW q \in Calls, MoneyWrite(q) PROVE FALSE
      <3>1. q \in StaffCalls /\ call[q].at = "money" /\ call'[q] = Idle
        BY <1>0, <2>4 DEF MoneyWrite, Writes, Become
      <3>2. p \in StaffCalls /\ call[p] # Idle /\ call[q] # Idle
        BY <1>0, <1>1, <1>2, <3>1 DEF SweepsSweep, Calls
      <3>3. p = q
        BY <3>1, <3>2 DEF OneStaffCall
      <3> QED
        BY <1>0, <1>1, <3>1, <3>3
    <2>5. Used(i)'
      <3>1. i \in Ids /\ call'[p].at = "money" /\ i = call'[p].payment.invoice
        BY <1>1, <1>2, <2>1, <2>2
      <3>2. Typed'
        BY ItIsInductive DEF InvoicesInv
      <3> QED
        BY <3>1, <3>2 DEF Typed, NamesExist
    <2>6. inv'[i].paid = inv[i].paid
      BY <1>0, <2>1, <2>2, <2>4, <2>5, OnlyMoneyPays
    <2> QED
      BY <1>2, <2>1, <2>2, <2>3, <2>6
  <1>3. CASE UNCHANGED inv /\ (PayLoad(p) \/ ReverseLoad(p))
    BY <1>0, <1>1, <1>3, LoadsBalance DEF CallAdds
  <1> QED
    BY <1>0, <1>1, <1>2, <1>3, CallsMove DEF CallMoves

\* What also holds of the sums while the staff's calls take turns.
MoneyInv == TurnsInv /\ PaidIsAllPayments /\ CallsAdd

LEMMA MoneyAtFirst == Init => MoneyInv
  <1> SUFFICES ASSUME Init PROVE PaidIsAllPayments /\ CallsAdd
    BY TurnsAtFirst DEF MoneyInv
  <1>1. \A i \in Ids : ~ Used(i)
    BY DEF Init, Used
  <1>2. \A p \in Calls : call[p].at = "idle"
    BY DEF Init, Idle
  <1> QED
    BY <1>1, <1>2 DEF PaidIsAllPayments, CallsAdd, CallAdds

LEMMA MoneyStays == MoneyInv /\ OneStaffCall /\ [Next]_vars => MoneyInv'
  <1> SUFFICES ASSUME MoneyInv, OneStaffCall, [Next]_vars PROVE MoneyInv'
    OBVIOUS
  <1>1. TurnsInv'
    BY TurnsStay DEF MoneyInv
  <1>2. PaidIsAllPayments'
    BY RowsAddUp DEF MoneyInv, TurnsInv
  <1>3. CallsAdd'
    BY CallsStillAdd DEF MoneyInv, TurnsInv, BalanceInv
  <1> QED
    BY <1>1, <1>2, <1>3 DEF MoneyInv

\* recordPayment, reversePayment: while the finance staff's calls take turns, amountPaid is the
\* sum of the invoice's payment rows, whatever the sweep does in between.
THEOREM MoneyIsAllThere == Spec /\ []OneStaffCall => []PaidIsAllPayments
  <1>1. MoneyInv => PaidIsAllPayments
    BY DEF MoneyInv
  <1> QED
    BY <1>1, MoneyAtFirst, MoneyStays, PTL DEF Spec

\* A sweep that a full payment overtook is noted before it writes.
LateSweeps == Straddling \subseteq straddled
OverdueInv == MoneyInv /\ LateSweeps /\ OverdueOwes

LEMMA OverdueAtFirst == Init => OverdueInv
  <1> SUFFICES ASSUME Init PROVE Straddling = {} /\ OverdueOwes
    BY MoneyAtFirst DEF OverdueInv, LateSweeps
  <1>1. \A i \in Ids : ~ Used(i) /\ inv[i].status # "OVERDUE"
    BY DEF Init, Used, Unused
  <1> QED
    BY <1>1 DEF Straddling, OverdueOwes

LEMMA OverdueStays ==
  ASSUME OverdueInv, OneStaffCall, [Next]_vars, straddled' = straddled \cup Straddling'
  PROVE  OverdueInv'
  <1>1. MoneyInv' /\ LateSweeps'
    BY MoneyStays DEF OverdueInv, LateSweeps
  <1>2. /\ Typed /\ Typed' /\ \A i \in Ids : RowMoves(i)
        /\ CallsBalance /\ MoneyIsIssued
    BY <1>1, RowsMove DEF OverdueInv, MoneyInv, TurnsInv, InvoicesInv, BalanceInv
  <1>3. ASSUME NEW i \in Ids, inv'[i].status = "OVERDUE"
        PROVE  inv'[i].paid < inv'[i].total \/ i \in straddled'
    <2>1. CASE inv'[i] = inv[i]
      BY <1>3, <2>1 DEF OverdueInv, OverdueOwes
    <2>2. ~ Entered(i) /\ ~ Edited(i)
      BY <1>3 DEF Entered, Edited
    <2>3. CASE Restated(i)
      <3>1. /\ Used(i) /\ Swept(i)
            /\ inv'[i].paid = inv[i].paid /\ inv'[i].total = inv[i].total
        BY <1>3, <2>3 DEF Restated, SameContent
      <3>2. PICK total \in Int, paid \in Int : total = inv[i].total /\ paid = inv[i].paid
        BY <1>2, <3>1, RowNumbers DEF Typed
      <3>3. paid >= total => i \in Straddling
        BY <3>1, <3>2 DEF Straddling, Swept
      <3>4. paid < total \/ paid >= total
        BY <3>2
      <3> QED
        BY <3>1, <3>2, <3>3, <3>4 DEF OverdueInv, LateSweeps
    <2>4. CASE Booked(i)
      <3>1. PICK p \in Calls : /\ call[p].at = "money" /\ call[p].payment.invoice = i
                               /\ inv'[i].total = inv[i].total
                               /\ inv'[i].paid = call[p].paid /\ inv'[i].status = call[p].status
        BY <2>4 DEF Booked, SameContent
      <3>2. Owes(inv[i].total, call[p].paid, call[p].status)
        BY <1>2, <3>1 DEF CallsBalance, CallBalances
      <3> QED
        BY <1>3, <3>1, <3>2 DEF Owes
    <2> QED
      BY <1>2, <2>1, <2>2, <2>3, <2>4 DEF RowMoves
  <1> QED
    BY <1>1, <1>3 DEF OverdueInv, OverdueOwes

\* What the small instance's serial family checks of the money, for any instance.
THEOREM SerialMoneyHolds == MCSpec => []SerialMoney
  <1> DEFINE Serial == InvoicesInv /\ (mode = "serial" => OverdueInv /\ OneStaffCall)
  <1>1. Turns => OneStaffCall
    BY DEF Turns, OneStaffCall
  <1>2. MCInit => Serial
    <2>1. MCInit => Turns
      BY DEF MCInit, Init, Turns, Calls
    <2> QED
      BY <1>1, <2>1, AtFirst, OverdueAtFirst DEF MCInit
  <1>3. Serial /\ [MCNext]_<<vars, mode, straddled>> => Serial'
    <2> SUFFICES ASSUME Serial, [MCNext]_<<vars, mode, straddled>> PROVE Serial'
      OBVIOUS
    <2>1. CASE MCNext
      <3>1. Next /\ mode' = mode /\ (mode' = "serial" => Turns')
        BY <2>1 DEF MCNext, Family
      <3>2. InvoicesInv'
        BY <3>1, ItIsInductive
      <3>3. Turns' => OneStaffCall'
        BY DEF Turns, OneStaffCall
      <3>4. mode' = "serial" => straddled' = straddled \cup Straddling'
        BY <2>1, <3>1 DEF MCNext
      <3> QED
        BY <3>1, <3>2, <3>3, <3>4, OverdueStays
    <2>2. CASE UNCHANGED <<vars, mode, straddled>>
      <3>1. UNCHANGED vars /\ UNCHANGED mode /\ UNCHANGED straddled
        BY <2>2
      <3>2. InvoicesInv'
        BY <3>1, ItIsInductive
      <3>3. OneStaffCall' <=> OneStaffCall
        BY <3>1 DEF vars, OneStaffCall
      <3>4. OverdueInv => straddled' = straddled \cup Straddling'
        BY <3>1 DEF vars, OverdueInv, LateSweeps, Straddling, Used
      <3> QED
        BY <3>1, <3>2, <3>3, <3>4, OverdueStays
    <2> QED
      BY <2>1, <2>2
  <1>4. Serial => SerialMoney
    BY TurnsSuffice DEF OverdueInv, MoneyInv, SerialMoney
  <1> QED
    BY <1>2, <1>3, <1>4, PTL DEF MCSpec
=============================================================================
