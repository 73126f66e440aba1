---------------------------- MODULE LeaveProofs ----------------------------
(***************************************************************************)
(* Proofs about Leave and the families of the run LeaveBooks, for every    *)
(* set of users, requests and concurrent calls, every calendar and bound.  *)
(***************************************************************************)
EXTENDS MCLeaveBooks, FiniteSetTheorems, WellFoundedInduction, TLAPS

USE DEF NonNegative, Least

-----------------------------------------------------------------------------
\* The calendar: a month and a year number never exceed the day's.

LEMMA DivBound ==
  ASSUME NEW a \in Nat, NEW k \in Nat \ {0}
  PROVE  a \div k \in Nat /\ a \div k <= a
  <1>1. a = k * (a \div k) + (a % k) /\ a % k \in 0 .. k - 1 /\ a \div k \in Int
    OBVIOUS
  <1>2. QED BY <1>1, Z3

LEMMA CalendarTypes ==
  /\ \A d \in Days : MonthOf(d) \in Months
  /\ \A m \in Months : YearOfMonth(m) \in Years
  /\ \A d \in Days : YearOf(d) \in Years
  <1>1. ASSUME NEW n \in Nat \ {0}, NEW k \in Nat \ {0}
        PROVE  (n - 1) \div k + 1 \in 1 .. n
    BY DivBound
  <1>2. \A d \in Days : MonthOf(d) \in Months
    BY <1>1, QuantityAssumption DEF Days, Months, MonthOf
  <1>3. \A m \in Months : YearOfMonth(m) \in Years
    BY <1>1, QuantityAssumption DEF Months, Years, YearOfMonth
  <1>4. QED BY <1>2, <1>3 DEF YearOf

LEMMA SpansAreDays == Spans \subseteq SUBSET Days
  <1>1. ASSUME NEW a \in Days, NEW b \in Days
        PROVE  a .. b \subseteq Days
    BY QuantityAssumption DEF Days
  <1>2. ASSUME NEW span \in Spans
        PROVE  span \in SUBSET Days
    <2>1. PICK a \in Days, b \in Days : span = a .. b
      BY DEF Spans
    <2>2. QED BY <1>1, <2>1
  <1>3. QED BY <1>2

LEMMA CountType ==
  ASSUME NEW span \in SUBSET Days, NEW off
  PROVE  CountWorkingDays(span, off) \in Nat
  <1>1. IsFiniteSet(Days)
    BY QuantityAssumption, FS_Interval DEF Days
  <1>2. IsFiniteSet(span \ off)
    BY <1>1, FS_Subset
  <1>3. QED BY <1>2, FS_CardinalityType DEF CountWorkingDays

\* The split never pays more than the total, nor less than nothing.
LEMMA PaidPartBound ==
  ASSUME TypeOK, NEW type, NEW total \in Nat, NEW u \in Users
  PROVE  /\ PaidPart(type, total, u) \in Nat
         /\ total - PaidPart(type, total, u) \in Nat
  <1>1. YearOf(today) \in Years
    BY CalendarTypes DEF TypeOK
  <1>2. Available(u) \in Int
    BY <1>1 DEF Available, TypeOK, BalanceRow
  <1>3. QED BY <1>2 DEF PaidPart

-----------------------------------------------------------------------------
\* Type correctness

\* A step that only moves activation p to a well-formed state.
LEMMA BecomeType ==
  ASSUME TypeOK, NEW p \in Calls, NEW next \in CallState, Become(p, next)
  PROVE  call' \in [Calls -> CallState]
  BY DEF TypeOK, Become

LEMMA ApplyUsageType ==
  ASSUME TypeOK, NEW u \in Users, NEW days \in Int, ApplyUsage(u, days)
  PROVE  balance' \in [Users -> [Years -> BalanceRow]]
  <1>1. YearOf(today) \in Years
    BY CalendarTypes DEF TypeOK
  <1> DEFINE y == YearOf(today)
             row == balance[u][y]
             new == IF row.exists THEN [row EXCEPT !.used = row.used + days]
                    ELSE [exists |-> TRUE, accrued |-> 0, used |-> NonNegative(days)]
  <1>2. row \in BalanceRow
    BY <1>1 DEF TypeOK
  <1>3. new \in BalanceRow
    BY <1>2 DEF BalanceRow
  <1>4. balance' = [balance EXCEPT ![u][y] = new]
    BY DEF ApplyUsage
  <1>5. QED BY <1>1, <1>3, <1>4 DEF TypeOK

LEMMA AppendType ==
  ASSUME TypeOK, NEW row \in LedgerRow
  PROVE  Append(ledger, row) \in Seq(LedgerRow)
  BY DEF TypeOK

\* What a handler holds is determined by the query it is about to make.
LEMMA CallShape ==
  ASSUME TypeOK, NEW p \in Calls
  PROVE  /\ call[p].at = "insert" => call[p] \in InsertCall
         /\ call[p].at = "cancel" => call[p] \in CancelCall
         /\ call[p].at = "split" => call[p] \in SplitCall
         /\ call[p].at = "claim" => call[p] \in ClaimCall
         /\ call[p].at \in {"charge", "chargeRow"} => call[p] \in ChargeCall
         /\ call[p].at = "snapshot" => call[p] \in SnapshotCall
         /\ call[p].at = "recompute" => call[p] \in RecomputeCall
         /\ call[p].at \in {"shrink", "refund", "refundRow"} => call[p] \in RefundCall
         /\ call[p].at = "accrue" => call[p] \in AccrueCall
         /\ call[p].at = "credit" => call[p] \in CreditCall
         /\ call[p].at = "creditWrite" => call[p] \in CreditWriteCall
         /\ call[p].at = "escalate" => call[p] \in EscalateCall
  <1> DEFINE c == call[p]
  <1>1. c \in CallState
    BY DEF TypeOK
  <1> HIDE DEF c
  <1>2. /\ c = Idle => c.at = "idle"
        /\ c \in InsertCall => c.at = "insert"
        /\ c \in CancelCall => c.at = "cancel"
        /\ c \in SplitCall => c.at = "split"
        /\ c \in ClaimCall => c.at = "claim"
        /\ c \in ChargeCall => c.at \in {"charge", "chargeRow"}
        /\ c \in SnapshotCall => c.at = "snapshot"
        /\ c \in RecomputeCall => c.at = "recompute"
        /\ c \in RefundCall => c.at \in {"shrink", "refund", "refundRow"}
        /\ c \in AccrueCall => c.at = "accrue"
        /\ c \in CreditCall => c.at = "credit"
        /\ c \in CreditWriteCall => c.at = "creditWrite"
        /\ c \in EscalateCall => c.at = "escalate"
    BY DEF Idle, InsertCall, CancelCall, SplitCall, ClaimCall, ChargeCall, SnapshotCall,
           RecomputeCall, RefundCall, AccrueCall, CreditCall, CreditWriteCall, EscalateCall
  <1>3. \/ c = Idle \/ c \in InsertCall \/ c \in CancelCall \/ c \in SplitCall
        \/ c \in ClaimCall \/ c \in ChargeCall \/ c \in SnapshotCall \/ c \in RecomputeCall
        \/ c \in RefundCall \/ c \in AccrueCall \/ c \in CreditCall
        \/ c \in CreditWriteCall \/ c \in EscalateCall
    BY <1>1 DEF CallState
  <1>4. QED BY <1>2, <1>3 DEF c

LEMMA ContinueType ==
  ASSUME TypeOK, NEW p \in Calls, NEW todo \in SUBSET Requests, Continue(p, todo),
         call[p].date \in Days, call[p].seen \in [Requests -> Split]
  PROVE  call' \in [Calls -> CallState]
  <1> DEFINE next == [at |-> "recompute", date |-> call[p].date, todo |-> todo,
                      seen |-> call[p].seen]
  <1>1. next \in RecomputeCall
    BY DEF RecomputeCall
  <1>2. Become(p, Idle) \/ Become(p, next)
    BY DEF Continue
  <1> HIDE DEF next
  <1>3. QED BY <1>1, <1>2, BecomeType DEF CallState

LEMMA EmployeeType ==
  ASSUME TypeOK, NEW p \in Calls, EmployeeStep(p)
  PROVE  TypeOK'
  <1>1. CASE CreateCheck(p)
    <2>1. PICK u \in Internal, type \in AskedTypes, span \in Spans :
            Become(p, [at |-> "insert", user |-> u, type |-> type, span |-> span])
      BY <1>1 DEF CreateCheck
    <2> DEFINE next == [at |-> "insert", user |-> u, type |-> type, span |-> span]
    <2>2. next \in InsertCall
      BY SpansAreDays, PeopleAssumption DEF InsertCall, Types
    <2> HIDE DEF next
    <2>3. QED BY <1>1, <2>1, <2>2, BecomeType DEF next, CreateCheck, CallState, TypeOK, database, counters
  <1>2. CASE CreateInsert(p)
    <2>1. call[p] \in InsertCall
      BY <1>2, CallShape DEF CreateInsert
    <2> DEFINE total == CountWorkingDays(call[p].span, holidays)
               paid == PaidPart(call[p].type, total, call[p].user)
    <2>2. total \in Nat
      BY <2>1, CountType DEF InsertCall
    <2>3. paid \in Nat /\ total - paid \in Nat
      BY <2>1, <2>2, PaidPartBound DEF InsertCall
    <2>4. request' \in [Requests -> RequestRow]
      <3>1. CASE UNCHANGED request
        BY <3>1 DEF TypeOK
      <3>2. CASE \E r \in Requests, level \in Levels, a \in Users \cup {NoOne} :
                   request' = [request EXCEPT ![r] =
                     [status |-> "PENDING", type |-> call[p].type, span |-> call[p].span,
                      total |-> total, paid |-> paid, unpaid |-> total - paid,
                      level |-> level, approver |-> a, due |-> FALSE, reviewer |-> NoOne]]
        <4>1. PICK r \in Requests, level \in Levels, a \in Users \cup {NoOne} :
                   request' = [request EXCEPT ![r] =
                     [status |-> "PENDING", type |-> call[p].type, span |-> call[p].span,
                      total |-> total, paid |-> paid, unpaid |-> total - paid,
                      level |-> level, approver |-> a, due |-> FALSE, reviewer |-> NoOne]]
          BY <3>2
        <4> DEFINE row == [status |-> "PENDING", type |-> call[p].type, span |-> call[p].span,
                      total |-> total, paid |-> paid, unpaid |-> total - paid,
                      level |-> level, approver |-> a, due |-> FALSE, reviewer |-> NoOne]
        <4>2. row \in RequestRow
          BY <2>1, <2>2, <2>3 DEF InsertCall, RequestRow, Statuses
        <4> HIDE DEF row
        <4>3. QED BY <4>1, <4>2 DEF TypeOK, row
      <3>3. QED BY <1>2, <3>1, <3>2 DEF CreateInsert
    <2>5. QED BY <1>2, <2>4, BecomeType DEF CreateInsert, TypeOK, CallState, counters
  <1>3. CASE CancelCheck(p)
    BY <1>3 DEF CancelCheck, Become, TypeOK, CallState, CancelCall, database, counters
  <1>4. CASE CancelWrite(p)
    <2>1. call[p] \in CancelCall
      BY <1>4, CallShape DEF CancelWrite
    <2> DEFINE r == call[p].request
               row == [request[r] EXCEPT !.status = "CANCELLED"]
    <2>2. request[r] \in RequestRow /\ r \in Requests
      BY <2>1 DEF TypeOK, CancelCall
    <2>3. row \in RequestRow
      BY <2>2 DEF RequestRow, Statuses
    <2>4. request' = [request EXCEPT ![r] = row]
      BY <1>4 DEF CancelWrite
    <2> HIDE DEF row
    <2>5. request' \in [Requests -> RequestRow]
      BY <2>2, <2>3, <2>4 DEF TypeOK
    <2>6. QED BY <1>4, <2>5, BecomeType DEF CancelWrite, TypeOK, CallState, counters
  <1>5. QED BY <1>1, <1>2, <1>3, <1>4 DEF EmployeeStep

LEMMA ApproverType ==
  ASSUME TypeOK, NEW p \in Calls, ApproverStep(p)
  PROVE  TypeOK'
  <1>1. CASE DecideCheck(p)
    <2>1. PICK r \in Requests, a \in Users :
            \/ Become(p, [at |-> "split", request |-> r, caller |-> a,
                          total |-> request[r].total])
            \/ Become(p, [at |-> "claim", request |-> r, caller |-> a, verdict |-> "REJECTED",
                          paid |-> request[r].paid, unpaid |-> request[r].unpaid])
      BY <1>1 DEF DecideCheck
    <2>2. request[r] \in RequestRow
      BY DEF TypeOK
    <2>3. [at |-> "split", request |-> r, caller |-> a, total |-> request[r].total] \in SplitCall
      BY <2>2 DEF SplitCall, RequestRow
    <2>4. [at |-> "claim", request |-> r, caller |-> a, verdict |-> "REJECTED",
           paid |-> request[r].paid, unpaid |-> request[r].unpaid] \in ClaimCall
      BY <2>2 DEF ClaimCall, RequestRow
    <2>5. call' \in [Calls -> CallState]
      BY <2>1, <2>3, <2>4, BecomeType DEF CallState
    <2>6. QED BY <1>1, <2>5 DEF DecideCheck, TypeOK, database, counters
  <1>2. CASE DecideSplit(p)
    <2> DEFINE r == call[p].request
               paid == PaidPart(request[r].type, call[p].total, Owner[r])
    <2>1. call[p] \in SplitCall
      BY <1>2, CallShape DEF DecideSplit
    <2>2. r \in Requests /\ Owner[r] \in Users /\ call[p].total \in Nat /\ call[p].caller \in Users
      BY <2>1, PeopleAssumption DEF SplitCall
    <2>3. paid \in Nat /\ call[p].total - paid \in Nat
      BY <2>2, PaidPartBound
    <2> HIDE DEF paid
    <2>4. [at |-> "claim", request |-> r, caller |-> call[p].caller, verdict |-> "APPROVED",
           paid |-> paid, unpaid |-> call[p].total - paid] \in ClaimCall
      BY <2>2, <2>3 DEF ClaimCall
    <2>5. Become(p, [at |-> "claim", request |-> r, caller |-> call[p].caller,
                     verdict |-> "APPROVED", paid |-> paid, unpaid |-> call[p].total - paid])
      BY <1>2 DEF DecideSplit, paid
    <2>6. call' \in [Calls -> CallState]
      BY <2>4, <2>5, BecomeType DEF CallState
    <2>7. QED BY <1>2, <2>6 DEF DecideSplit, TypeOK, database, counters
  <1>3. CASE DecideClaim(p)
    <2> DEFINE c == call[p]
               r == c.request
               row == [request[r] EXCEPT !.status = c.verdict, !.reviewer = c.caller,
                         !.paid = c.paid, !.unpaid = c.unpaid, !.approver = NoOne]
    <2>1. c \in ClaimCall
      BY <1>3, CallShape DEF DecideClaim
    <2>2. r \in Requests /\ request[r] \in RequestRow
      BY <2>1 DEF ClaimCall, TypeOK
    <2>3. row \in RequestRow
      BY <2>1, <2>2 DEF ClaimCall, RequestRow, Statuses
    <2>4. request' = request \/ request' = [request EXCEPT ![r] = row]
      BY <1>3 DEF DecideClaim
    <2> HIDE DEF row
    <2>5. request' \in [Requests -> RequestRow]
      BY <2>2, <2>3, <2>4 DEF TypeOK
    <2>6. [at |-> "charge", request |-> r, days |-> c.paid] \in ChargeCall
      BY <2>1 DEF ClaimCall, ChargeCall
    <2>7. Become(p, Idle) \/ Become(p, [at |-> "charge", request |-> r, days |-> c.paid])
      BY <1>3 DEF DecideClaim
    <2>8. call' \in [Calls -> CallState]
      BY <2>6, <2>7, BecomeType DEF CallState
    <2>9. QED BY <1>3, <2>5, <2>8 DEF DecideClaim, TypeOK, counters
  <1>4. CASE ChargeBalance(p)
    <2>1. call[p] \in ChargeCall
      BY <1>4, CallShape DEF ChargeBalance
    <2>2. Owner[call[p].request] \in Users /\ call[p].days \in Int
      BY <2>1, PeopleAssumption DEF ChargeCall
    <2>3. balance' \in [Users -> [Years -> BalanceRow]]
      BY <1>4, <2>2, ApplyUsageType DEF ChargeBalance
    <2>4. [call[p] EXCEPT !.at = "chargeRow"] \in ChargeCall
      BY <2>1 DEF ChargeCall
    <2>5. call' \in [Calls -> CallState]
      BY <1>4, <2>4, BecomeType DEF CallState, ChargeBalance
    <2>6. QED BY <1>4, <2>3, <2>5 DEF ChargeBalance, TypeOK, counters
  <1>5. CASE ChargeRow(p)
    <2> DEFINE row == LedgerEntry(Owner[call[p].request], "USAGE", call[p].days,
                                  call[p].request, 0)
    <2>1. call[p] \in ChargeCall
      BY <1>5, CallShape DEF ChargeRow
    <2>2. row \in LedgerRow
      BY <2>1, PeopleAssumption DEF ChargeCall, LedgerRow, LedgerEntry
    <2> HIDE DEF row
    <2>3. ledger' \in Seq(LedgerRow)
      BY <1>5, <2>2, AppendType DEF ChargeRow, row
    <2>4. call' \in [Calls -> CallState]
      BY <1>5, BecomeType DEF CallState, ChargeRow
    <2>5. QED BY <1>5, <2>3, <2>4 DEF ChargeRow, TypeOK, counters
  <1>6. QED BY <1>1, <1>2, <1>3, <1>4, <1>5 DEF ApproverStep

LEMMA AdminType ==
  ASSUME TypeOK, NEW p \in Calls, AdminStep(p)
  PROVE  TypeOK'
  <1>1. CASE AddHoliday(p)
    <2>1. PICK d \in Days : holidays' = holidays \cup {d} /\ Become(p, [at |-> "snapshot", date |-> d])
      BY <1>1 DEF AddHoliday
    <2>2. [at |-> "snapshot", date |-> d] \in SnapshotCall
      BY DEF SnapshotCall
    <2>3. call' \in [Calls -> CallState]
      BY <2>1, <2>2, BecomeType DEF CallState
    <2>4. QED BY <1>1, <2>1, <2>3 DEF AddHoliday, TypeOK
  <1>2. CASE HolidaySnapshot(p)
    <2> DEFINE affected == Affected(call[p].date)
               seen == [r \in Requests |->
                   IF r \in affected THEN [paid |-> request[r].paid, unpaid |-> request[r].unpaid]
                                     ELSE [paid |-> 0, unpaid |-> 0]]
               next == [at |-> "recompute", date |-> call[p].date, todo |-> affected,
                        seen |-> seen]
    <2>1. call[p] \in SnapshotCall
      BY <1>2, CallShape DEF HolidaySnapshot
    <2>2. seen \in [Requests -> Split]
      BY DEF TypeOK, RequestRow, Split
    <2>3. affected \in SUBSET Requests
      BY DEF Affected
    <2>4. next \in RecomputeCall
      <3> HIDE DEF seen, affected
      <3> QED BY <2>1, <2>2, <2>3 DEF RecomputeCall, SnapshotCall
    <2>5. Become(p, Idle) \/ Become(p, next)
      BY <1>2 DEF HolidaySnapshot
    <2> HIDE DEF next
    <2>6. call' \in [Calls -> CallState]
      BY <2>4, <2>5, BecomeType DEF CallState
    <2>7. QED BY <1>2, <2>6 DEF HolidaySnapshot, TypeOK, database, counters
  <1>3. CASE HolidayRecount(p)
    <2> DEFINE c == call[p]
    <2>1. c \in RecomputeCall
      BY <1>3, CallShape DEF HolidayRecount
    <2>2. PICK r \in c.todo :
            LET total == CountWorkingDays(request[r].span, holidays)
                was == c.seen[r]
                paid == PaidAfter(was, total)
                rest == c.todo \ {r}
            IN IF paid >= was.paid THEN Continue(p, rest)
               ELSE Become(p, [at |-> "shrink", date |-> c.date, todo |-> rest,
                               seen |-> c.seen, request |-> r, total |-> total,
                               paid |-> paid, days |-> was.paid - paid])
      BY <1>3 DEF HolidayRecount
    <2> DEFINE total == CountWorkingDays(request[r].span, holidays)
               was == c.seen[r]
               paid == PaidAfter(was, total)
               rest == c.todo \ {r}
               next == [at |-> "shrink", date |-> c.date, todo |-> rest, seen |-> c.seen,
                        request |-> r, total |-> total, paid |-> paid, days |-> was.paid - paid]
    <2>3. r \in Requests /\ was \in Split /\ rest \in SUBSET Requests
      BY <2>1 DEF RecomputeCall
    <2>4. total \in Nat
      BY <2>3, CountType DEF TypeOK, RequestRow
    <2> HIDE DEF total
    <2>5. paid \in Nat /\ was.paid \in Nat
      BY <2>3, <2>4 DEF PaidAfter, Split
    <2> HIDE DEF paid, was, rest
    <2>6. ~(paid >= was.paid) => next \in RefundCall
      BY <2>1, <2>3, <2>4, <2>5 DEF RefundCall, RecomputeCall
    <2>7. Continue(p, rest) \/ (~(paid >= was.paid) /\ Become(p, next))
      BY <2>2 DEF total, paid, was, rest
    <2> HIDE DEF next
    <2>8. call' \in [Calls -> CallState]
      BY <2>1, <2>3, <2>6, <2>7, ContinueType, BecomeType DEF CallState, RecomputeCall
    <2>9. QED BY <1>3, <2>8 DEF HolidayRecount, TypeOK, database, counters
  <1>4. CASE HolidayShrink(p)
    <2> DEFINE c == call[p]
               r == c.request
               row == [request[r] EXCEPT !.total = c.total, !.paid = c.paid]
    <2>1. c \in RefundCall
      BY <1>4, CallShape DEF HolidayShrink
    <2>2. r \in Requests /\ request[r] \in RequestRow
      BY <2>1 DEF RefundCall, TypeOK
    <2>3. row \in RequestRow
      BY <2>1, <2>2 DEF RefundCall, RequestRow
    <2>4. request' = [request EXCEPT ![r] = row]
      BY <1>4 DEF HolidayShrink
    <2> HIDE DEF row
    <2>5. request' \in [Requests -> RequestRow]
      BY <2>2, <2>3, <2>4 DEF TypeOK
    <2>6. [c EXCEPT !.at = "refund"] \in RefundCall
      BY <2>1 DEF RefundCall
    <2>7. call' \in [Calls -> CallState]
      BY <1>4, <2>6, BecomeType DEF CallState, HolidayShrink
    <2>8. QED BY <1>4, <2>5, <2>7 DEF HolidayShrink, TypeOK, counters
  <1>5. CASE RefundBalance(p)
    <2>1. call[p] \in RefundCall
      BY <1>5, CallShape DEF RefundBalance
    <2>2. Owner[call[p].request] \in Users /\ - call[p].days \in Int
      BY <2>1, PeopleAssumption DEF RefundCall
    <2>3. balance' \in [Users -> [Years -> BalanceRow]]
      BY <1>5, <2>2, ApplyUsageType DEF RefundBalance
    <2>4. [call[p] EXCEPT !.at = "refundRow"] \in RefundCall
      BY <2>1 DEF RefundCall
    <2>5. call' \in [Calls -> CallState]
      BY <1>5, <2>4, BecomeType DEF CallState, RefundBalance
    <2>6. QED BY <1>5, <2>3, <2>5 DEF RefundBalance, TypeOK, counters
  <1>6. CASE RefundRow(p)
    <2> DEFINE c == call[p]
               row == LedgerEntry(Owner[c.request], "REFUND", - c.days, c.request, c.date)
    <2>1. c \in RefundCall
      BY <1>6, CallShape DEF RefundRow
    <2>2. row \in LedgerRow
      BY <2>1, PeopleAssumption, QuantityAssumption DEF RefundCall, LedgerRow, LedgerEntry, Days
    <2>3. \/ Become(p, Idle) /\ UNCHANGED ledger
          \/ ledger' = Append(ledger, row) /\ Continue(p, c.todo)
      BY <1>6 DEF RefundRow
    <2> HIDE DEF row
    <2>4. ledger' \in Seq(LedgerRow)
      BY <2>2, <2>3, AppendType DEF TypeOK
    <2>5. call' \in [Calls -> CallState]
      BY <2>1, <2>3, ContinueType, BecomeType DEF CallState, RefundCall
    <2>6. QED BY <1>6, <2>4, <2>5 DEF RefundRow, TypeOK, counters
  <1>7. CASE DeleteHoliday(p)
    BY <1>7 DEF DeleteHoliday, TypeOK, counters
  <1>8. QED BY <1>1, <1>2, <1>3, <1>4, <1>5, <1>6, <1>7 DEF AdminStep, HolidayStep

LEMMA FinanceType ==
  ASSUME TypeOK, NEW p \in Calls, FinanceStep(p)
  PROVE  TypeOK'
  BY CalendarTypes DEF FinanceStep, LockMonth, UnlockMonth, TypeOK, counters

LEMMA NextStaffType ==
  ASSUME TypeOK, NEW p \in Calls, NEW staff \in SUBSET Users, NextStaff(p, staff),
         call[p].month \in Months
  PROVE  call' \in [Calls -> CallState]
  <1> DEFINE next == [at |-> "accrue", month |-> call[p].month, staff |-> staff]
  <1>1. next \in AccrueCall
    BY DEF AccrueCall
  <1>2. Become(p, Idle) \/ Become(p, next)
    BY DEF NextStaff
  <1> HIDE DEF next
  <1>3. QED BY <1>1, <1>2, BecomeType DEF CallState

LEMMA JobType ==
  ASSUME TypeOK, NEW p \in Calls, JobStep(p)
  PROVE  TypeOK'
  <1>1. CASE AccrualStart(p)
    <2>1. PICK d \in Days :
            Become(p, [at |-> "accrue", month |-> MonthOf(d), staff |-> Internal])
      BY <1>1 DEF AccrualStart
    <2> DEFINE next == [at |-> "accrue", month |-> MonthOf(d), staff |-> Internal]
    <2>2. next \in AccrueCall
      BY CalendarTypes, PeopleAssumption DEF AccrueCall
    <2> HIDE DEF next
    <2>3. call' \in [Calls -> CallState]
      BY <2>1, <2>2, BecomeType DEF CallState, next
    <2>4. QED BY <1>1, <2>3 DEF AccrualStart, TypeOK, database, counters
  <1>2. CASE AccrualRow(p)
    <2> DEFINE m == call[p].month
    <2>1. call[p] \in AccrueCall
      BY <1>2, CallShape DEF AccrualRow
    <2>2. PICK u \in call[p].staff :
            \/ NextStaff(p, call[p].staff \ {u}) /\ UNCHANGED ledger
            \/ /\ ledger' = Append(ledger, LedgerEntry(u, "ACCRUAL", PerMonth, NoRequest, m))
               /\ Become(p, [at |-> "credit", month |-> m, staff |-> call[p].staff \ {u},
                             user |-> u])
      BY <1>2 DEF AccrualRow
    <2> DEFINE row == LedgerEntry(u, "ACCRUAL", PerMonth, NoRequest, m)
               rest == call[p].staff \ {u}
               next == [at |-> "credit", month |-> m, staff |-> rest, user |-> u]
    <2>3. u \in Users /\ rest \in SUBSET Users /\ m \in Months
      BY <2>1 DEF AccrueCall
    <2>4. row \in LedgerRow
      BY <2>3, QuantityAssumption DEF LedgerRow, LedgerEntry, Months
    <2>5. next \in CreditCall
      BY <2>3 DEF CreditCall
    <2> HIDE DEF row, rest, next
    <2>6. ledger' \in Seq(LedgerRow)
      BY <2>2, <2>4, AppendType DEF TypeOK, row
    <2>7. call' \in [Calls -> CallState]
      BY <2>2, <2>3, <2>5, NextStaffType, BecomeType DEF CallState, rest, next
    <2>8. QED BY <1>2, <2>6, <2>7 DEF AccrualRow, TypeOK, counters
  <1>3. CASE AccrualRead(p)
    <2> DEFINE u == call[p].user
               y == YearOfMonth(call[p].month)
               row == [balance[u][y] EXCEPT !.exists = TRUE]
               next == [at |-> "creditWrite", month |-> call[p].month, staff |-> call[p].staff,
                        user |-> u, accrued |-> Credited(balance[u][y].accrued)]
    <2>1. call[p] \in CreditCall
      BY <1>3, CallShape DEF AccrualRead
    <2>2. u \in Users /\ y \in Years
      BY <2>1, CalendarTypes DEF CreditCall
    <2>3. balance[u][y] \in BalanceRow
      BY <2>2 DEF TypeOK
    <2>4. row \in BalanceRow
      BY <2>3 DEF BalanceRow
    <2>5. balance' = [balance EXCEPT ![u][y] = row]
      BY <1>3 DEF AccrualRead
    <2>6. Credited(balance[u][y].accrued) \in Nat
      BY <2>3, QuantityAssumption DEF Credited, BalanceRow
    <2>7. next \in CreditWriteCall
      BY <2>1, <2>6 DEF CreditCall, CreditWriteCall
    <2>8. Become(p, next)
      BY <1>3 DEF AccrualRead
    <2> HIDE DEF row, next, u, y
    <2>9. balance' \in [Users -> [Years -> BalanceRow]]
      BY <2>2, <2>4, <2>5 DEF TypeOK
    <2>10. call' \in [Calls -> CallState]
      BY <2>7, <2>8, BecomeType DEF CallState
    <2>11. QED BY <1>3, <2>9, <2>10 DEF AccrualRead, TypeOK, counters
  <1>4. CASE AccrualWrite(p)
    <2> DEFINE c == call[p]
               u == c.user
               y == YearOfMonth(c.month)
               row == [balance[u][y] EXCEPT !.accrued = c.accrued]
    <2>1. c \in CreditWriteCall
      BY <1>4, CallShape DEF AccrualWrite
    <2>2. u \in Users /\ y \in Years
      BY <2>1, CalendarTypes DEF CreditWriteCall
    <2>3. balance[u][y] \in BalanceRow
      BY <2>2 DEF TypeOK
    <2>4. row \in BalanceRow
      BY <2>1, <2>3 DEF BalanceRow, CreditWriteCall
    <2>5. balance' = [balance EXCEPT ![u][y] = row]
      BY <1>4 DEF AccrualWrite
    <2>6. call' \in [Calls -> CallState]
      BY <1>4, <2>1, NextStaffType DEF AccrualWrite, CreditWriteCall
    <2> HIDE DEF row, u, y
    <2>7. balance' \in [Users -> [Years -> BalanceRow]]
      BY <2>2, <2>4, <2>5 DEF TypeOK
    <2>8. QED BY <1>4, <2>6, <2>7 DEF AccrualWrite, TypeOK, counters
  <1>5. CASE SweepRead(p)
    <2> DEFINE overdue == {r \in Requests : request[r].status = "PENDING" /\ request[r].due}
               seen == [r \in Requests |-> IF r \in overdue THEN request[r].level ELSE "HR"]
               next == [at |-> "escalate", todo |-> overdue, seen |-> seen]
    <2>1. seen \in [Requests -> Levels]
      BY DEF TypeOK, RequestRow, Levels
    <2>2. overdue \in SUBSET Requests
      OBVIOUS
    <2>3. next \in EscalateCall
      <3> HIDE DEF overdue, seen
      <3> QED BY <2>1, <2>2 DEF EscalateCall
    <2>4. Become(p, next)
      BY <1>5 DEF SweepRead
    <2> HIDE DEF next
    <2>5. call' \in [Calls -> CallState]
      BY <2>3, <2>4, BecomeType DEF CallState
    <2>6. QED BY <1>5, <2>5 DEF SweepRead, TypeOK, database, counters
  <1>6. CASE SweepWrite(p)
    <2> DEFINE c == call[p]
    <2>1. c \in EscalateCall
      BY <1>6, CallShape DEF SweepWrite
    <2>2. PICK r \in c.todo :
            /\ \/ request' = [request EXCEPT ![r] = [request[r] EXCEPT !.due = FALSE]]
               \/ \E a \in Users \cup {NoOne} :
                    request' = [request EXCEPT ![r] = Escalated(request[r], a)]
            /\ Become(p, Idle) \/ Become(p, [c EXCEPT !.todo = c.todo \ {r}])
      BY <1>6 DEF SweepWrite
    <2>3. r \in Requests /\ request[r] \in RequestRow
      BY <2>1 DEF EscalateCall, TypeOK
    <2>4. [request[r] EXCEPT !.due = FALSE] \in RequestRow
      BY <2>3 DEF RequestRow
    <2>5. ASSUME NEW a \in Users \cup {NoOne}
          PROVE  Escalated(request[r], a) \in RequestRow
      BY <2>3 DEF RequestRow, Escalated, Levels
    <2>6. request' \in [Requests -> RequestRow]
      BY <2>2, <2>3, <2>4, <2>5 DEF TypeOK
    <2>7. [c EXCEPT !.todo = c.todo \ {r}] \in EscalateCall
      BY <2>1 DEF EscalateCall
    <2>8. call' \in [Calls -> CallState]
      BY <2>2, <2>7, BecomeType DEF CallState
    <2>9. QED BY <1>6, <2>6, <2>8 DEF SweepWrite, TypeOK, counters
  <1>7. QED BY <1>1, <1>2, <1>3, <1>4, <1>5, <1>6 DEF JobStep

LEMMA EnvironmentType ==
  ASSUME TypeOK, Environment
  PROVE  TypeOK'
  <1>1. CASE AdvanceDay
    BY <1>1, QuantityAssumption DEF AdvanceDay, TypeOK, Days, database
  <1>2. ASSUME NEW r \in Requests, BecomeDue(r)
        PROVE  TypeOK'
    <2> DEFINE row == [request[r] EXCEPT !.due = TRUE]
    <2>1. row \in RequestRow
      BY DEF TypeOK, RequestRow
    <2>2. request' = [request EXCEPT ![r] = row]
      BY <1>2 DEF BecomeDue
    <2> HIDE DEF row
    <2>3. QED BY <1>2, <2>1, <2>2 DEF BecomeDue, TypeOK, counters
  <1>3. QED BY <1>1, <1>2 DEF Environment

LEMMA FailType ==
  ASSUME TypeOK, NEW p \in Calls, Fail(p)
  PROVE  TypeOK'
  BY BecomeType DEF Fail, TypeOK, CallState, database

\* Type invariant: every row and every handler keeps its shape, so no count
\* ever goes below zero and no handler writes a value it did not read.
THEOREM TypeCorrect == Spec => []TypeOK
  <1>1. Init => TypeOK
    BY QuantityAssumption DEF Init, TypeOK, Days, RequestRow, Statuses, Types, Levels,
         BalanceRow, CallState
  <1>2. TypeOK /\ [Next]_vars => TypeOK'
    <2> SUFFICES ASSUME TypeOK, [Next]_vars
                 PROVE  TypeOK'
      OBVIOUS
    <2>1. ASSUME NEW p \in Calls,
                 \/ EmployeeStep(p) \/ ApproverStep(p) \/ AdminStep(p)
                 \/ FinanceStep(p) \/ JobStep(p) \/ Fail(p)
          PROVE  TypeOK'
      BY <2>1, EmployeeType, ApproverType, AdminType, FinanceType, JobType, FailType
    <2>2. CASE Environment
      BY <2>2, EnvironmentType
    <2>3. CASE UNCHANGED vars
      BY <2>3 DEF vars, TypeOK
    <2>4. QED BY <2>1, <2>2, <2>3 DEF Next
  <1>3. QED BY <1>1, <1>2, PTL DEF Spec

-----------------------------------------------------------------------------
\* Decisions

\* The ledger keeps its rows and gains no usage.
SameUsage ==
  /\ \A i \in DOMAIN ledger' : IsUsage(i)' =>
       i \in DOMAIN ledger /\ IsUsage(i) /\ ledger'[i].request = ledger[i].request
  /\ \A i \in DOMAIN ledger : i \in DOMAIN ledger' /\ ledger'[i] = ledger[i]

\* What every step but a claim and its charge leaves alone: no handler starts
\* to charge, no request gets a reviewer and the ledger gains no usage.
Neutral ==
  /\ \A q \in Calls : Charging(q)' => Charging(q) /\ call'[q].request = call[q].request
  /\ \A q \in Calls : Deciding(q)' => call'[q].caller # Owner[call'[q].request]
  /\ \A r \in Requests :
       /\ request'[r].reviewer = request[r].reviewer
       /\ request[r].status = "none" \/ request'[r].status \in {request[r].status, "CANCELLED"}
  /\ SameUsage

LEMMA NeutralKeepsInv ==
  ASSUME TypeOK, TypeOK', DecisionInv, Neutral
  PROVE  DecisionInv'
  <1>1. \A q \in Calls : Charging(q) => call[q].request \in Requests
    BY CallShape DEF Charging, ChargeCall
  <1>2. \A r \in Requests : request'[r].status \in {"none", "PENDING"} => request'[r].reviewer = NoOne
    BY DEF Neutral, SameUsage, DecisionInv, SameUsage
  <1>3. \A q \in Calls : Charging(q)' => request'[call'[q].request].reviewer # NoOne
    BY <1>1 DEF Neutral, SameUsage, DecisionInv
  <1>4. \A q \in Calls : Charging(q)' =>
          \A i \in DOMAIN ledger' : IsUsage(i)' => ledger'[i].request # call'[q].request
    BY DEF Neutral, SameUsage, DecisionInv
  <1>5. \A a, b \in Calls :
          (Charging(a)' /\ Charging(b)' /\ call'[a].request = call'[b].request) => a = b
    BY DEF Neutral, SameUsage, DecisionInv
  <1>6. ChargedOnce'
    <2>1. \A i, j \in DOMAIN ledger' :
            (IsUsage(i)' /\ IsUsage(j)' /\ ledger'[i].request = ledger'[j].request) => i = j
      BY DEF Neutral, SameUsage, DecisionInv, ChargedOnce
    <2>2. ASSUME NEW i \in DOMAIN ledger', IsUsage(i)'
          PROVE  request'[ledger'[i].request].reviewer # NoOne
      <3>1. i \in DOMAIN ledger /\ IsUsage(i) /\ ledger'[i].request = ledger[i].request
        BY <2>2 DEF Neutral, SameUsage
      <3>2. request[ledger[i].request].reviewer # NoOne
        BY <3>1 DEF DecisionInv, ChargedOnce
      <3>3. ledger[i].request \in Requests
        BY <3>1 DEF DecisionInv
      <3>4. QED BY <3>1, <3>2, <3>3 DEF Neutral, SameUsage
    <2>3. QED BY <2>1, <2>2 DEF ChargedOnce, IsUsage
  <1>7. \A i \in DOMAIN ledger' : IsUsage(i)' => ledger'[i].request \in Requests
    BY DEF Neutral, SameUsage, DecisionInv
  <1>8. QED BY <1>7, <1>2, <1>3, <1>4, <1>5, <1>6 DEF Neutral, SameUsage, DecisionInv, Charging, IsUsage, Deciding

\* A step that only moves activation p, and not towards a charge.
LEMMA QuietBecome ==
  ASSUME TypeOK, DecisionInv, NEW p \in Calls, NEW next, Become(p, next),
         next.at \notin {"charge", "chargeRow"},
         next.at \in {"split", "claim"} => next.caller # Owner[next.request]
  PROVE  /\ \A q \in Calls : Charging(q)' => Charging(q) /\ call'[q].request = call[q].request
         /\ \A q \in Calls : Deciding(q)' => call'[q].caller # Owner[call'[q].request]
  <1>1. \A q \in Calls : call'[q] = IF q = p THEN next ELSE call[q]
    BY DEF Become, TypeOK
  <1>2. QED BY <1>1 DEF Charging, Deciding, DecisionInv

\* Appending a row that is not usage.
LEMMA QuietAppend ==
  ASSUME TypeOK, NEW row \in LedgerRow, row.entry # "USAGE", ledger' = Append(ledger, row)
  PROVE  SameUsage
  <1>1. \A i \in DOMAIN ledger' :
          \/ i \in DOMAIN ledger /\ ledger'[i] = ledger[i]
          \/ ledger'[i] = row
    BY DEF TypeOK
  <1>2. \A i \in DOMAIN ledger : i \in DOMAIN ledger' /\ ledger'[i] = ledger[i]
    BY DEF TypeOK
  <1>3. QED BY <1>1, <1>2 DEF SameUsage, IsUsage

LEMMA EmployeeNeutral ==
  ASSUME TypeOK, DecisionInv, NEW p \in Calls, EmployeeStep(p)
  PROVE  Neutral
  <1> USE DEF SameUsage
  <1>1. CASE CreateCheck(p)
    <2>1. PICK next : Become(p, next) /\ next.at = "insert"
      BY <1>1 DEF CreateCheck
    <2>2. QED BY <1>1, <2>1, QuietBecome DEF CreateCheck, Neutral, IsUsage, database
  <1>2. CASE CreateInsert(p)
    <2>1. \A r \in Requests :
            \/ request'[r] = request[r]
            \/ request[r].status = "none" /\ request'[r].reviewer = NoOne
      BY <1>2 DEF CreateInsert, TypeOK
    <2>2. QED BY <1>2, <2>1, QuietBecome DEF CreateInsert, Neutral, IsUsage, Idle, DecisionInv
  <1>3. CASE CancelCheck(p)
    <2>1. PICK next : Become(p, next) /\ next.at = "cancel"
      BY <1>3 DEF CancelCheck
    <2>2. QED BY <1>3, <2>1, QuietBecome DEF CancelCheck, Neutral, IsUsage, database
  <1>4. CASE CancelWrite(p)
    <2>1. \A r \in Requests :
            /\ request'[r].reviewer = request[r].reviewer
            /\ request'[r].status \in {request[r].status, "CANCELLED"}
      BY <1>4 DEF CancelWrite, TypeOK, RequestRow
    <2>2. QED BY <1>4, <2>1, QuietBecome DEF CancelWrite, Neutral, IsUsage, Idle
  <1>5. QED BY <1>1, <1>2, <1>3, <1>4 DEF EmployeeStep

LEMMA AdminNeutral ==
  ASSUME TypeOK, DecisionInv, NEW p \in Calls, AdminStep(p)
  PROVE  Neutral
  <1> USE DEF SameUsage
  <1>1. CASE AddHoliday(p)
    <2>1. PICK next : Become(p, next) /\ next.at = "snapshot"
      BY <1>1 DEF AddHoliday
    <2>2. QED BY <1>1, <2>1, QuietBecome DEF AddHoliday, Neutral, IsUsage
  <1>2. CASE HolidaySnapshot(p)
    <2>1. PICK next : Become(p, next) /\ next.at \in {"idle", "recompute"}
      BY <1>2 DEF HolidaySnapshot, Idle
    <2>2. QED BY <1>2, <2>1, QuietBecome DEF HolidaySnapshot, Neutral, IsUsage, database
  <1>3. CASE HolidayRecount(p)
    <2>1. PICK next : Become(p, next) /\ next.at \in {"idle", "recompute", "shrink"}
      BY <1>3 DEF HolidayRecount, Continue, Idle
    <2>2. QED BY <1>3, <2>1, QuietBecome DEF HolidayRecount, Neutral, IsUsage, database
  <1>4. CASE HolidayShrink(p)
    <2>1. call[p] \in RefundCall
      BY <1>4, CallShape DEF HolidayShrink
    <2>2. \A r \in Requests :
            request'[r].reviewer = request[r].reviewer /\ request'[r].status = request[r].status
      BY <1>4, <2>1 DEF HolidayShrink, TypeOK, RequestRow, RefundCall
    <2>3. PICK next : Become(p, next) /\ next.at = "refund"
      BY <1>4, <2>1 DEF HolidayShrink, RefundCall
    <2>4. QED BY <1>4, <2>2, <2>3, QuietBecome DEF HolidayShrink, Neutral, IsUsage
  <1>5. CASE RefundBalance(p)
    <2>1. call[p] \in RefundCall
      BY <1>5, CallShape DEF RefundBalance
    <2>2. PICK next : Become(p, next) /\ next.at = "refundRow"
      BY <1>5, <2>1 DEF RefundBalance, RefundCall
    <2>3. QED BY <1>5, <2>2, QuietBecome DEF RefundBalance, Neutral, IsUsage
  <1>6. CASE RefundRow(p)
    <2> DEFINE c == call[p]
               row == LedgerEntry(Owner[c.request], "REFUND", - c.days, c.request, c.date)
    <2>1. c \in RefundCall
      BY <1>6, CallShape DEF RefundRow
    <2>2. row \in LedgerRow /\ row.entry # "USAGE"
      BY <2>1, PeopleAssumption, QuantityAssumption DEF RefundCall, LedgerRow, LedgerEntry, Days
    <2>3. UNCHANGED ledger \/ ledger' = Append(ledger, row)
      BY <1>6 DEF RefundRow
    <2>4. PICK next : Become(p, next) /\ next.at \in {"idle", "recompute"}
      BY <1>6 DEF RefundRow, Continue, Idle
    <2> HIDE DEF row
    <2>5. SameUsage
      BY <2>2, <2>3, QuietAppend DEF IsUsage
    <2>6. QED BY <1>6, <2>4, <2>5, QuietBecome DEF RefundRow, Neutral
  <1>7. CASE DeleteHoliday(p)
    BY <1>7 DEF DeleteHoliday, Neutral, IsUsage, Charging, Deciding, DecisionInv
  <1>8. QED BY <1>1, <1>2, <1>3, <1>4, <1>5, <1>6, <1>7 DEF AdminStep, HolidayStep

LEMMA FinanceNeutral ==
  ASSUME TypeOK, DecisionInv, NEW p \in Calls, FinanceStep(p)
  PROVE  Neutral
  BY DEF FinanceStep, LockMonth, UnlockMonth, Neutral, IsUsage, Charging, Deciding,
         DecisionInv, SameUsage

LEMMA JobNeutral ==
  ASSUME TypeOK, DecisionInv, NEW p \in Calls, JobStep(p)
  PROVE  Neutral
  <1> USE DEF SameUsage
  <1>1. CASE AccrualStart(p)
    <2>1. PICK next : Become(p, next) /\ next.at = "accrue"
      BY <1>1 DEF AccrualStart
    <2>2. QED BY <1>1, <2>1, QuietBecome DEF AccrualStart, Neutral, IsUsage, database
  <1>2. CASE AccrualRow(p)
    <2>1. call[p] \in AccrueCall
      BY <1>2, CallShape DEF AccrualRow
    <2>2. PICK u \in call[p].staff :
            \/ UNCHANGED ledger
            \/ ledger' = Append(ledger, LedgerEntry(u, "ACCRUAL", PerMonth, NoRequest, call[p].month))
      BY <1>2 DEF AccrualRow
    <2> DEFINE row == LedgerEntry(u, "ACCRUAL", PerMonth, NoRequest, call[p].month)
    <2>3. row \in LedgerRow /\ row.entry # "USAGE"
      BY <2>1, QuantityAssumption DEF AccrueCall, LedgerRow, LedgerEntry, Months
    <2>4. PICK next : Become(p, next) /\ next.at \in {"idle", "accrue", "credit"}
      BY <1>2 DEF AccrualRow, NextStaff, Idle
    <2> HIDE DEF row
    <2>5. SameUsage
      BY <2>2, <2>3, QuietAppend DEF IsUsage, row
    <2>6. QED BY <1>2, <2>4, <2>5, QuietBecome DEF AccrualRow, Neutral
  <1>3. CASE AccrualRead(p)
    <2>1. PICK next : Become(p, next) /\ next.at = "creditWrite"
      BY <1>3 DEF AccrualRead
    <2>2. QED BY <1>3, <2>1, QuietBecome DEF AccrualRead, Neutral, IsUsage
  <1>4. CASE AccrualWrite(p)
    <2>1. PICK next : Become(p, next) /\ next.at \in {"idle", "accrue"}
      BY <1>4 DEF AccrualWrite, NextStaff, Idle
    <2>2. QED BY <1>4, <2>1, QuietBecome DEF AccrualWrite, Neutral, IsUsage
  <1>5. CASE SweepRead(p)
    <2>1. PICK next : Become(p, next) /\ next.at = "escalate"
      BY <1>5 DEF SweepRead
    <2>2. QED BY <1>5, <2>1, QuietBecome DEF SweepRead, Neutral, IsUsage, database
  <1>6. CASE SweepWrite(p)
    <2>1. call[p] \in EscalateCall
      BY <1>6, CallShape DEF SweepWrite
    <2>2. \A r \in Requests :
            request'[r].reviewer = request[r].reviewer /\ request'[r].status = request[r].status
      <3>1. PICK r \in call[p].todo :
              \/ request' = [request EXCEPT ![r] = [request[r] EXCEPT !.due = FALSE]]
              \/ \E a \in Users \cup {NoOne} :
                    request' = [request EXCEPT ![r] = Escalated(request[r], a)]
        BY <1>6 DEF SweepWrite
      <3>2. r \in Requests /\ request[r] \in RequestRow
        BY <2>1 DEF EscalateCall, TypeOK
      <3>3. \A s \in Requests :
              \/ request'[s] = request[s]
              \/ s = r /\ request'[s] = [request[r] EXCEPT !.due = FALSE]
              \/ s = r /\ \E a \in Users \cup {NoOne} : request'[s] = Escalated(request[r], a)
        BY <3>1, <3>2 DEF TypeOK
      <3>4. LET row == [request[r] EXCEPT !.due = FALSE]
            IN  row.reviewer = request[r].reviewer /\ row.status = request[r].status
        BY <3>2 DEF RequestRow
      <3>5. ASSUME NEW a \in Users \cup {NoOne}
            PROVE  /\ Escalated(request[r], a).reviewer = request[r].reviewer
                   /\ Escalated(request[r], a).status = request[r].status
        BY <3>2 DEF RequestRow, Escalated
      <3>6. QED BY <3>3, <3>4, <3>5
    <2>3. PICK next : Become(p, next) /\ next.at \in {"idle", "escalate"}
      BY <1>6, <2>1 DEF SweepWrite, EscalateCall, Idle
    <2>4. QED BY <1>6, <2>2, <2>3, QuietBecome DEF SweepWrite, Neutral, IsUsage
  <1>7. QED BY <1>1, <1>2, <1>3, <1>4, <1>5, <1>6 DEF JobStep

LEMMA EnvironmentNeutral ==
  ASSUME TypeOK, DecisionInv, Environment
  PROVE  Neutral
  <1> USE DEF Neutral, IsUsage, Charging, Deciding, DecisionInv, SameUsage
  <1>1. CASE AdvanceDay
    BY <1>1 DEF AdvanceDay, database
  <1>2. ASSUME NEW r \in Requests, BecomeDue(r)
        PROVE  Neutral
    <2>1. \A s \in Requests :
            request'[s].reviewer = request[s].reviewer /\ request'[s].status = request[s].status
      BY <1>2 DEF BecomeDue, TypeOK, RequestRow
    <2>2. QED BY <1>2, <2>1 DEF BecomeDue
  <1>3. QED BY <1>1, <1>2 DEF Environment

LEMMA FailNeutral ==
  ASSUME TypeOK, DecisionInv, NEW p \in Calls, Fail(p)
  PROVE  Neutral
  BY QuietBecome DEF Fail, Idle, Neutral, IsUsage, database, SameUsage

\* The reads of decide, and the charge of the balance, change no row that
\* DecisionInv is about.
LEMMA DecideReadsNeutral ==
  ASSUME TypeOK, DecisionInv, NEW p \in Calls,
         DecideCheck(p) \/ DecideSplit(p) \/ ChargeBalance(p)
  PROVE  Neutral
  <1> USE DEF SameUsage
  <1>1. CASE DecideCheck(p)
    <2>1. PICK next : /\ Become(p, next) /\ next.at \in {"split", "claim"}
                      /\ next.caller # Owner[next.request]
      BY <1>1 DEF DecideCheck, CanApprove
    <2>2. QED BY <1>1, <2>1, QuietBecome DEF DecideCheck, Neutral, IsUsage, database
  <1>2. CASE DecideSplit(p)
    <2>1. call[p].caller # Owner[call[p].request]
      BY <1>2 DEF DecideSplit, DecisionInv, Deciding
    <2>2. PICK next : /\ Become(p, next) /\ next.at = "claim"
                      /\ next.caller # Owner[next.request]
      BY <1>2, <2>1 DEF DecideSplit
    <2>3. QED BY <1>2, <2>2, QuietBecome DEF DecideSplit, Neutral, IsUsage, database
  <1>3. CASE ChargeBalance(p)
    <2>1. call[p] \in ChargeCall
      BY <1>3, CallShape DEF ChargeBalance
    <2>2. \A q \in Calls :
            \/ call'[q] = call[q]
            \/ q = p /\ call'[q].at = "chargeRow" /\ call'[q].request = call[q].request
      BY <1>3, <2>1 DEF ChargeBalance, Become, TypeOK, ChargeCall
    <2>3. QED BY <1>3, <2>2 DEF ChargeBalance, Neutral, IsUsage, Charging, Deciding, DecisionInv
  <1>4. QED BY <1>1, <1>2, <1>3

\* A claim: its request had no reviewer, hence no usage row and no other
\* handler charging it.
LEMMA ClaimKeepsInv ==
  ASSUME TypeOK, TypeOK', DecisionInv, NEW p \in Calls, DecideClaim(p)
  PROVE  DecisionInv'
  <1> DEFINE r == call[p].request
  <1>1. call[p] \in ClaimCall /\ r \in Requests /\ call[p].caller \in Users
    BY CallShape DEF DecideClaim, ClaimCall
  <1>2. CASE ~Claimable(r)
    <2>1. Become(p, Idle) /\ UNCHANGED <<request, ledger>>
      BY <1>2 DEF DecideClaim
    <2>2. Neutral
      BY <2>1, QuietBecome DEF Idle, Neutral, SameUsage, IsUsage
    <2>3. QED BY <2>2, NeutralKeepsInv
  <1>3. CASE Claimable(r)
    <2>1. request[r].reviewer = NoOne
      BY <1>1, <1>3 DEF Claimable, DecisionInv
    <2>2. \A s \in Requests :
            IF s = r THEN /\ request'[s].reviewer = call[p].caller
                          /\ request'[s].status \in {"APPROVED", "REJECTED"}
            ELSE request'[s] = request[s]
      BY <1>1, <1>3 DEF DecideClaim, TypeOK, RequestRow, ClaimCall
    <2>3. call[p].caller # NoOne
      BY <1>1, PeopleAssumption
    <2>4. \A q \in Calls :
            IF q = p THEN \/ call'[q] = Idle
                          \/ call'[q].at = "charge" /\ call'[q].request = r
            ELSE call'[q] = call[q]
      BY <1>3 DEF DecideClaim, Become, TypeOK
    <2>5. UNCHANGED ledger
      BY DEF DecideClaim
    <2>6. \A q \in Calls : Charging(q) => call[q].request \in Requests /\ call[q].request # r
      BY <2>1, CallShape DEF DecisionInv, ChargeCall, Charging
    <2>7. \A i \in DOMAIN ledger : IsUsage(i) => ledger[i].request # r
      BY <2>1 DEF DecisionInv, ChargedOnce
    <2>8. \A s \in Requests :
            request'[s].status \in {"none", "PENDING"} => request'[s].reviewer = NoOne
      BY <2>2 DEF DecisionInv
    <2>9. \A q \in Calls : Charging(q)' => request'[call'[q].request].reviewer # NoOne
      BY <1>1, <2>2, <2>3, <2>4, <2>6 DEF Charging, Idle, DecisionInv
    <2>10. \A q \in Calls : Charging(q)' =>
             \A i \in DOMAIN ledger' : IsUsage(i)' => ledger'[i].request # call'[q].request
      BY <2>4, <2>5, <2>7 DEF Charging, Idle, IsUsage, DecisionInv
    <2>11. \A a, b \in Calls :
             (Charging(a)' /\ Charging(b)' /\ call'[a].request = call'[b].request) => a = b
      BY <2>4, <2>6 DEF Charging, Idle, DecisionInv
    <2>12. \A q \in Calls : Deciding(q)' => call'[q].caller # Owner[call'[q].request]
      BY <2>4 DEF Deciding, Idle, DecisionInv
    <2>13. ChargedOnce'
      BY <2>2, <2>3, <2>5 DEF ChargedOnce, IsUsage, DecisionInv
    <2>14. \A i \in DOMAIN ledger' : IsUsage(i)' => ledger'[i].request \in Requests
      BY <2>5 DEF IsUsage, DecisionInv
    <2>15. QED BY <2>8, <2>9, <2>10, <2>11, <2>12, <2>13, <2>14
             DEF DecisionInv, Charging, Deciding, IsUsage
  <1>4. QED BY <1>2, <1>3

\* The usage row of the one winning claim.
LEMMA ChargeRowKeepsInv ==
  ASSUME TypeOK, TypeOK', DecisionInv, NEW p \in Calls, ChargeRow(p)
  PROVE  DecisionInv'
  <1> DEFINE r == call[p].request
             row == LedgerEntry(Owner[r], "USAGE", call[p].days, r, 0)
  <1>1. call[p] \in ChargeCall /\ r \in Requests /\ Charging(p)
    BY CallShape DEF ChargeRow, ChargeCall, Charging
  <1>2. ledger' = Append(ledger, row) /\ UNCHANGED request
    BY DEF ChargeRow
  <1>3. \A i \in DOMAIN ledger' :
          \/ i \in DOMAIN ledger /\ ledger'[i] = ledger[i]
          \/ i = Len(ledger) + 1 /\ i \notin DOMAIN ledger /\ ledger'[i] = row
    BY <1>2 DEF TypeOK
  <1>4. row.request = r
    BY DEF LedgerEntry
  <1> HIDE DEF row
  <1>5. \A q \in Calls : IF q = p THEN call'[q] = Idle ELSE call'[q] = call[q]
    BY DEF ChargeRow, Become, TypeOK
  <1>6. request[r].reviewer # NoOne /\ (\A i \in DOMAIN ledger : IsUsage(i) => ledger[i].request # r)
    BY <1>1 DEF DecisionInv
  <1>7. \A q \in Calls : Charging(q)' => Charging(q) /\ call'[q] = call[q] /\ call[q].request # r
    BY <1>1, <1>5 DEF Charging, Idle, DecisionInv
  <1>8. \A q \in Calls : Charging(q)' => request'[call'[q].request].reviewer # NoOne
    BY <1>2, <1>7 DEF DecisionInv
  <1>9. \A q \in Calls : Charging(q)' =>
          \A i \in DOMAIN ledger' : IsUsage(i)' => ledger'[i].request # call'[q].request
    BY <1>3, <1>4, <1>7 DEF IsUsage, DecisionInv
  <1>10. \A a, b \in Calls :
           (Charging(a)' /\ Charging(b)' /\ call'[a].request = call'[b].request) => a = b
    BY <1>7 DEF DecisionInv
  <1>11. \A q \in Calls : Deciding(q)' => call'[q].caller # Owner[call'[q].request]
    BY <1>5 DEF Deciding, Idle, DecisionInv
  <1>12. ChargedOnce'
    BY <1>2, <1>3, <1>4, <1>6 DEF ChargedOnce, IsUsage, DecisionInv
  <1>13. \A i \in DOMAIN ledger' : IsUsage(i)' => ledger'[i].request \in Requests
    BY <1>1, <1>3, <1>4 DEF IsUsage, DecisionInv
  <1>14. \A s \in Requests :
           request'[s].status \in {"none", "PENDING"} => request'[s].reviewer = NoOne
    BY <1>2 DEF DecisionInv
  <1>15. QED BY <1>8, <1>9, <1>10, <1>11, <1>12, <1>13, <1>14
           DEF DecisionInv, Charging, Deciding, IsUsage

LEMMA DecisionInvStep ==
  ASSUME TypeOK, TypeOK', DecisionInv, [Next]_vars
  PROVE  DecisionInv'
  <1>1. ASSUME NEW p \in Calls, ApproverStep(p)
        PROVE  DecisionInv'
    BY <1>1, DecideReadsNeutral, NeutralKeepsInv, ClaimKeepsInv, ChargeRowKeepsInv
       DEF ApproverStep
  <1>2. ASSUME NEW p \in Calls,
               \/ EmployeeStep(p) \/ AdminStep(p) \/ FinanceStep(p) \/ JobStep(p) \/ Fail(p)
        PROVE  DecisionInv'
    BY <1>2, EmployeeNeutral, AdminNeutral, FinanceNeutral, JobNeutral, FailNeutral,
       NeutralKeepsInv
  <1>3. CASE Environment
    BY <1>3, EnvironmentNeutral, NeutralKeepsInv
  <1>4. CASE UNCHANGED vars
    BY <1>4 DEF vars, DecisionInv, ChargedOnce, Charging, Deciding, IsUsage
  <1>5. QED BY <1>1, <1>2, <1>3, <1>4 DEF Next

THEOREM DecisionInvariant == Spec => []DecisionInv
  <1>1. Init => DecisionInv
    BY DEF Init, DecisionInv, ChargedOnce, Charging, Deciding, IsUsage, Idle
  <1>2. DecisionInv /\ TypeOK /\ TypeOK' /\ [Next]_vars => DecisionInv'
    BY DecisionInvStep
  <1>3. QED BY <1>1, <1>2, TypeCorrect, PTL DEF Spec

\* However many approvers race over a request, with cancellations, sweeps,
\* holidays and dying handlers in between, decide charges it at most once, and
\* only after a reviewer was recorded.
THEOREM ChargesOnce == Spec => []ChargedOnce
  <1>1. DecisionInv => ChargedOnce
    BY DEF DecisionInv
  <1>2. QED BY <1>1, DecisionInvariant, PTL

\* What every step of the handlers is, seen from the decisions.
LEMMA StepShape ==
  ASSUME TypeOK, TypeOK', DecisionInv, [Next]_vars
  PROVE  \/ Neutral
         \/ \E p \in Calls : DecideClaim(p) \/ ChargeRow(p)
  <1>1. ASSUME NEW p \in Calls, ApproverStep(p), ~(DecideClaim(p) \/ ChargeRow(p))
        PROVE  Neutral
    BY <1>1, DecideReadsNeutral DEF ApproverStep
  <1>2. ASSUME NEW p \in Calls,
               \/ EmployeeStep(p) \/ AdminStep(p) \/ FinanceStep(p) \/ JobStep(p) \/ Fail(p)
        PROVE  Neutral
    BY <1>2, EmployeeNeutral, AdminNeutral, FinanceNeutral, JobNeutral, FailNeutral
  <1>3. CASE Environment
    BY <1>3, EnvironmentNeutral
  <1>4. CASE UNCHANGED vars
    BY <1>4 DEF vars, Neutral, SameUsage, IsUsage, Charging, Deciding, DecisionInv
  <1>5. QED BY <1>1, <1>2, <1>3, <1>4 DEF Next

\* What a claim does to the rows.
LEMMA ClaimShape ==
  ASSUME TypeOK, DecisionInv, NEW p \in Calls, DecideClaim(p)
  PROVE  /\ UNCHANGED ledger
         /\ \/ UNCHANGED request
            \/ \E r \in Requests, a \in Users :
                 /\ request[r].reviewer = NoOne /\ a # Owner[r]
                 /\ \A s \in Requests :
                      IF s = r THEN request'[s].reviewer = a ELSE request'[s] = request[s]
  <1> DEFINE r == call[p].request
  <1>1. call[p] \in ClaimCall /\ r \in Requests /\ call[p].caller \in Users
    BY CallShape DEF DecideClaim, ClaimCall
  <1>2. CASE Claimable(r)
    <2>1. request[r].reviewer = NoOne
      BY <1>1, <1>2 DEF Claimable, DecisionInv
    <2>2. call[p].caller # Owner[r]
      BY DEF DecideClaim, DecisionInv, Deciding
    <2>3. \A s \in Requests :
            IF s = r THEN request'[s].reviewer = call[p].caller ELSE request'[s] = request[s]
      BY <1>1, <1>2 DEF DecideClaim, TypeOK, RequestRow, ClaimCall
    <2>4. QED BY <1>1, <2>1, <2>2, <2>3 DEF DecideClaim
  <1>3. CASE ~Claimable(r)
    BY <1>3 DEF DecideClaim
  <1>4. QED BY <1>2, <1>3

\* decide's "first write wins": once a reviewer is recorded, no step of any
\* handler replaces them or turns their decision round.
THEOREM FirstDecisionHolds == Spec => FirstDecisionStands
  <1>1. TypeOK /\ TypeOK' /\ DecisionInv /\ [Next]_vars =>
          [\A r \in Requests : request[r].reviewer # NoOne =>
             /\ request'[r].reviewer = request[r].reviewer
             /\ request'[r].status \in {request[r].status, "CANCELLED"}]_vars
    <2> SUFFICES ASSUME TypeOK, TypeOK', DecisionInv, [Next]_vars,
                        NEW r \in Requests, request[r].reviewer # NoOne
                 PROVE  /\ request'[r].reviewer = request[r].reviewer
                        /\ request'[r].status \in {request[r].status, "CANCELLED"}
      OBVIOUS
    <2>1. CASE Neutral
      BY <2>1 DEF Neutral, DecisionInv
    <2>2. ASSUME NEW p \in Calls, DecideClaim(p)
          PROVE  request'[r] = request[r]
      BY <2>2, ClaimShape
    <2>3. ASSUME NEW p \in Calls, ChargeRow(p)
          PROVE  request'[r] = request[r]
      BY <2>3 DEF ChargeRow
    <2>4. QED BY <2>1, <2>2, <2>3, StepShape
  <1>2. QED BY <1>1, TypeCorrect, DecisionInvariant, PTL DEF Spec, FirstDecisionStands

\* The query-by-query handlers implement the abstract decision: every step is
\* a first decision by somebody else, a first charge, or no step at all.
THEOREM LeaveImplementsDecision == Spec => ImplementsDecision
  <1> DEFINE decidedBy == [r \in Requests |-> request[r].reviewer]
             charges == {[row |-> i, request |-> ledger[i].request] : i \in UsageRows}
  <1>1. Init => Decision!Init
    BY DEF Init, Decision!Init, UsageRows
  <1>2. TypeOK /\ TypeOK' /\ DecisionInv /\ [Next]_vars => [Decision!Next]_<<decidedBy, charges>>
    <2> SUFFICES ASSUME TypeOK, TypeOK', DecisionInv, [Next]_vars
                 PROVE  Decision!Next \/ UNCHANGED <<decidedBy, charges>>
      OBVIOUS
    <2>1. CASE Neutral
      <3>1. decidedBy' = decidedBy
        BY <2>1 DEF Neutral
      <3>2. charges' = charges
        <4>1. UsageRows' = UsageRows
          BY <2>1 DEF Neutral, SameUsage, IsUsage, UsageRows
        <4>2. \A i \in UsageRows : ledger'[i].request = ledger[i].request
          BY <2>1 DEF Neutral, SameUsage, UsageRows
        <4>3. QED BY <4>1, <4>2
      <3>3. QED BY <3>1, <3>2
    <2>2. ASSUME NEW p \in Calls, DecideClaim(p)
          PROVE  Decision!Next \/ UNCHANGED <<decidedBy, charges>>
      <3>1. charges' = charges
        BY <2>2, ClaimShape DEF IsUsage, UsageRows
      <3>2. CASE UNCHANGED request
        BY <3>1, <3>2
      <3>3. ASSUME NEW r \in Requests, NEW a \in Users,
                   request[r].reviewer = NoOne, a # Owner[r],
                   \A s \in Requests :
                     IF s = r THEN request'[s].reviewer = a ELSE request'[s] = request[s]
            PROVE  Decision!Decide(r, a)
        <4>1. decidedBy' = [decidedBy EXCEPT ![r] = a]
          BY <3>3
        <4>2. QED BY <3>1, <3>3, <4>1 DEF Decision!Decide
      <3>4. QED BY <2>2, <3>2, <3>3, ClaimShape DEF Decision!Next
    <2>3. ASSUME NEW p \in Calls, ChargeRow(p)
          PROVE  Decision!Next
      <3>1. PICK r \in Requests : r = call[p].request /\ Charging(p)
        BY <2>3, CallShape DEF ChargeRow, ChargeCall, Charging
      <3> DEFINE row == LedgerEntry(Owner[r], "USAGE", call[p].days, r, 0)
      <3>2. request[r].reviewer # NoOne /\ \A i \in UsageRows : ledger[i].request # r
        BY <3>1 DEF DecisionInv, UsageRows
      <3>3. ledger' = Append(ledger, row) /\ UNCHANGED request
        BY <2>3, <3>1 DEF ChargeRow
      <3>4. row.entry = "USAGE" /\ row.request = r
        BY DEF LedgerEntry
      <3> HIDE DEF row
      <3>5. /\ \A i \in DOMAIN ledger : i \in DOMAIN ledger' /\ ledger'[i] = ledger[i]
            /\ Len(ledger) + 1 \in DOMAIN ledger' /\ ledger'[Len(ledger) + 1] = row
            /\ DOMAIN ledger' = DOMAIN ledger \cup {Len(ledger) + 1}
        BY <3>3 DEF TypeOK
      <3> DEFINE new == [row |-> Len(ledger) + 1, request |-> r]
      <3>6. charges' = charges \cup {new}
        <4>1. UsageRows' = UsageRows \cup {Len(ledger) + 1}
          BY <3>4, <3>5 DEF IsUsage, UsageRows
        <4>2. \A i \in UsageRows : ledger'[i].request = ledger[i].request
          BY <3>5 DEF UsageRows
        <4>3. ledger'[Len(ledger) + 1].request = r
          BY <3>4, <3>5
        <4>4. QED BY <4>1, <4>2, <4>3
      <3>7. decidedBy' = decidedBy
        BY <3>3
      <3>8. Decision!Charge(r)
        <4>1. \A c \in charges : c.request # r
          BY <3>2
        <4>2. new \in charges' /\ new.request = r
          BY <3>6
        <4>3. QED BY <3>1, <3>2, <3>6, <3>7, <4>1, <4>2 DEF Decision!Charge
      <3>9. QED BY <3>8 DEF Decision!Next
    <2>4. QED BY <2>1, <2>2, <2>3, StepShape
  <1>3. QED BY <1>1, <1>2, TypeCorrect, DecisionInvariant, PTL
           DEF Spec, ImplementsDecision, Decision!Spec
-----------------------------------------------------------------------------
\* Accrual

\* Activation p has written month m of u to the ledger and has yet to add it to the balance.
Owes(p, u, m) ==
  call[p].at \in {"credit", "creditWrite"} /\ call[p].user = u /\ call[p].month = m
Owed(u) == {m \in Months : \E p \in Calls : Owes(p, u, m)}

\* The months of a year that no handler owes any more: credited, or lost with their handler.
Settled(u, y) == MonthsAccrued(u, y) \ Owed(u)
Covered(accrued, months) == accrued <= Cap /\ accrued <= PerMonth * months

\* The inductive invariant: a balance never exceeds its settled months, a handler about to write
\* one exceeds them by the month it owes, and no two handlers owe the same month.
AccrualInv ==
  /\ \A p \in Calls, u \in Users, m \in Months : Owes(p, u, m) =>
       KeyTaken(u, "ACCRUAL", m) /\ \A q \in Calls : Owes(q, u, m) => q = p
  /\ \A u \in Users, y \in Years : Covered(balance[u][y].accrued, Cardinality(Settled(u, y)))
  /\ \A p \in Calls, u \in Users, m \in Months : Owes(p, u, m) /\ call[p].at = "creditWrite" =>
       Covered(call[p].accrued, Cardinality(Settled(u, YearOfMonth(m))) + 1)

LEMMA AccruedMonth ==
  ASSUME NEW u, NEW y, NEW m
  PROVE  m \in MonthsAccrued(u, y) <=>
           m \in Months /\ YearOfMonth(m) = y /\ KeyTaken(u, "ACCRUAL", m)
  BY DEF MonthsAccrued, KeyTaken

LEMMA SettledIsFinite ==
  ASSUME NEW u, NEW y
  PROVE  IsFiniteSet(Settled(u, y)) /\ Cardinality(Settled(u, y)) \in Nat
  <1>1. Settled(u, y) \subseteq Months
    BY AccruedMonth DEF Settled
  <1>2. IsFiniteSet(Months)
    BY FS_Interval, QuantityAssumption DEF Months
  <1> QED
    BY <1>1, <1>2, FS_Subset, FS_CardinalityType

LEMMA CoveredByMore ==
  ASSUME NEW accrued \in Nat, NEW k \in Nat, NEW n \in Nat, k <= n, Covered(accrued, k)
  PROVE  Covered(accrued, n)
  <1>1. PICK d \in Nat : n = k + d
    <2>1. n - k \in Nat /\ n = k + (n - k)
      OBVIOUS
    <2> QED
      BY <2>1
  <1>2. PerMonth \in Nat /\ Cap \in Nat
    BY QuantityAssumption
  <1>3. PerMonth * (k + d) = PerMonth * k + PerMonth * d
    BY <1>2
  <1>4. PerMonth * k \in Nat /\ PerMonth * d \in Nat
    BY <1>2
  <1> QED
    BY <1>1, <1>2, <1>3, <1>4 DEF Covered

LEMMA CreditIsCovered ==
  ASSUME NEW accrued \in Nat, NEW k \in Nat, Covered(accrued, k)
  PROVE  Covered(Credited(accrued), k + 1)
  <1>1. PerMonth \in Nat /\ Cap \in Nat /\ PerMonth * k \in Nat
    BY QuantityAssumption
  <1>2. PerMonth * (k + 1) = PerMonth * k + PerMonth
    BY <1>1
  <1> QED
    BY <1>1, <1>2 DEF Covered, Credited

\* A month settled stays settled, if the ledger loses no accrual and a newly owed month is new.
LEMMA SettledGrows ==
  ASSUME NEW u \in Users, NEW y \in Years,
         \A m \in Months : KeyTaken(u, "ACCRUAL", m) => KeyTaken(u, "ACCRUAL", m)',
         \A m \in Months, q \in Calls : Owes(q, u, m)' =>
           ~ KeyTaken(u, "ACCRUAL", m) \/ \E p \in Calls : Owes(p, u, m)
  PROVE  /\ Cardinality(Settled(u, y)) \in Nat /\ Cardinality(Settled(u, y))' \in Nat
         /\ Cardinality(Settled(u, y)) <= Cardinality(Settled(u, y))'
  <1>1. \A m \in MonthsAccrued(u, y) : m \in MonthsAccrued(u, y)'
    BY AccruedMonth DEF MonthsAccrued, KeyTaken
  <1>2. \A m \in MonthsAccrued(u, y) : m \in Owed(u)' => m \in Owed(u)
    BY AccruedMonth DEF Owed
  <1>3. Settled(u, y) \subseteq Settled(u, y)'
    BY <1>1, <1>2 DEF Settled
  <1>4. IsFiniteSet(Settled(u, y)')
    <2>1. Settled(u, y)' \subseteq Months
      BY DEF Settled, MonthsAccrued
    <2>2. IsFiniteSet(Months)
      BY FS_Interval, QuantityAssumption DEF Months
    <2> QED
      BY <2>1, <2>2, FS_Subset
  <1> QED
    BY <1>3, <1>4, FS_Subset, FS_CardinalityType
\* A step that lets no handler come to owe a month, writes no accrual and raises no balance.
Unaccrued ==
  /\ \A q \in Calls : call'[q].at \in {"credit", "creditWrite"} => call'[q] = call[q]
  /\ \A u \in Users, m \in Months : KeyTaken(u, "ACCRUAL", m)' <=> KeyTaken(u, "ACCRUAL", m)
  /\ \A u \in Users, y \in Years : balance'[u][y].accrued \in {0, balance[u][y].accrued}

LEMMA UnaccruedKeeps ==
  ASSUME TypeOK, TypeOK', AccrualInv, Unaccrued
  PROVE  AccrualInv'
  <1>1. \A p \in Calls, u \in Users, m \in Months :
          Owes(p, u, m)' => Owes(p, u, m) /\ call'[p] = call[p]
    BY DEF Unaccrued, Owes
  <1>2. ASSUME NEW u \in Users, NEW y \in Years
        PROVE  /\ Cardinality(Settled(u, y)) \in Nat /\ Cardinality(Settled(u, y))' \in Nat
               /\ Cardinality(Settled(u, y)) <= Cardinality(Settled(u, y))'
    BY <1>1, SettledGrows DEF Unaccrued
  <1>3. \A p \in Calls, u \in Users, m \in Months : Owes(p, u, m)' =>
          KeyTaken(u, "ACCRUAL", m)' /\ \A q \in Calls : Owes(q, u, m)' => q = p
    BY <1>1 DEF AccrualInv, Unaccrued
  <1>4. ASSUME NEW u \in Users, NEW y \in Years
        PROVE  Covered(balance'[u][y].accrued, Cardinality(Settled(u, y))')
    <2> DEFINE was == balance[u][y].accrued
               is == balance'[u][y].accrued
    <2>1. was \in Nat /\ is \in Nat
      BY DEF TypeOK, BalanceRow
    <2>2. PICK k, n : k = Cardinality(Settled(u, y)) /\ n = Cardinality(Settled(u, y))'
      OBVIOUS
    <2>3. k \in Nat /\ n \in Nat /\ k <= n
      BY <1>2, <2>2
    <2>4. Covered(was, n)
      BY <2>1, <2>2, <2>3, CoveredByMore DEF AccrualInv
    <2>5. PerMonth * n \in Nat /\ Cap \in Nat
      BY <2>3, QuantityAssumption
    <2>6. is = 0 \/ is = was
      BY DEF Unaccrued
    <2> HIDE DEF was, is
    <2>7. Covered(is, n)
      BY <2>1, <2>4, <2>5, <2>6 DEF Covered
    <2> QED
      BY <2>2, <2>7 DEF is
  <1>5. ASSUME NEW p \in Calls, NEW u \in Users, NEW m \in Months, Owes(p, u, m)',
               call'[p].at = "creditWrite"
        PROVE  Covered(call'[p].accrued, Cardinality(Settled(u, YearOfMonth(m)))' + 1)
    <2>1. Owes(p, u, m) /\ call'[p] = call[p] /\ YearOfMonth(m) \in Years
      BY <1>1, <1>5, CalendarTypes
    <2>2. call[p].accrued \in Nat
      BY <1>5, <2>1, CallShape DEF CreditWriteCall
    <2>3. PICK k, n : /\ k = Cardinality(Settled(u, YearOfMonth(m)))
                      /\ n = Cardinality(Settled(u, YearOfMonth(m)))'
      OBVIOUS
    <2>4. k + 1 \in Nat /\ n + 1 \in Nat /\ k + 1 <= n + 1
      BY <1>2, <2>1, <2>3
    <2>5. Covered(call[p].accrued, k + 1)
      BY <1>5, <2>1, <2>3 DEF AccrualInv
    <2> QED
      BY <2>1, <2>2, <2>3, <2>4, <2>5, CoveredByMore
  <1> QED
    BY <1>3, <1>4, <1>5 DEF AccrualInv
LEMMA MovesElsewhere ==
  ASSUME TypeOK, NEW p \in Calls, NEW next, Become(p, next),
         next.at \notin {"credit", "creditWrite"}
  PROVE  \A q \in Calls : call'[q].at \in {"credit", "creditWrite"} => call'[q] = call[q]
  BY DEF Become, TypeOK

LEMMA SameKeys ==
  ASSUME TypeOK, NEW u, NEW m,
         \/ UNCHANGED ledger
         \/ \E row \in LedgerRow : row.entry # "ACCRUAL" /\ ledger' = Append(ledger, row)
  PROVE  KeyTaken(u, "ACCRUAL", m)' <=> KeyTaken(u, "ACCRUAL", m)
  <1>1. CASE UNCHANGED ledger
    BY <1>1 DEF KeyTaken
  <1>2. ASSUME NEW row \in LedgerRow, row.entry # "ACCRUAL", ledger' = Append(ledger, row)
        PROVE  KeyTaken(u, "ACCRUAL", m)' <=> KeyTaken(u, "ACCRUAL", m)
    <2>1. \A i \in DOMAIN ledger' :
            \/ i \in DOMAIN ledger /\ ledger'[i] = ledger[i]
            \/ ledger'[i] = row
      BY <1>2 DEF TypeOK
    <2>2. \A i \in DOMAIN ledger : i \in DOMAIN ledger' /\ ledger'[i] = ledger[i]
      BY <1>2 DEF TypeOK
    <2> QED
      BY <1>2, <2>1, <2>2 DEF KeyTaken
  <1> QED
    BY <1>1, <1>2

LEMMA SameCredit ==
  ASSUME TypeOK, UNCHANGED balance
  PROVE  \A u \in Users, y \in Years : balance'[u][y].accrued \in {0, balance[u][y].accrued}
  OBVIOUS

\* applyUsage: a charge or refund leaves the accrued days alone, or makes the year's row.
LEMMA UsageCreditsNothing ==
  ASSUME TypeOK, NEW v \in Users, NEW days, ApplyUsage(v, days)
  PROVE  \A u \in Users, y \in Years : balance'[u][y].accrued \in {0, balance[u][y].accrued}
  <1> DEFINE z == YearOf(today)
             row == balance[v][z]
             new == IF row.exists THEN [row EXCEPT !.used = row.used + days]
                    ELSE [exists |-> TRUE, accrued |-> 0, used |-> NonNegative(days)]
  <1>1. z \in Years
    BY CalendarTypes DEF TypeOK
  <1>2. row \in BalanceRow
    BY <1>1 DEF TypeOK
  <1>3. new.accrued \in {0, row.accrued}
    BY <1>2 DEF BalanceRow
  <1>4. balance' = [balance EXCEPT ![v][z] = new]
    BY DEF ApplyUsage
  <1> HIDE DEF new, z
  <1>5. \A u \in Users, y \in Years :
          balance'[u][y] = IF u = v /\ y = z THEN new ELSE balance[u][y]
    BY <1>1, <1>4 DEF TypeOK
  <1> QED
    BY <1>3, <1>5

LEMMA OthersUnaccrued ==
  ASSUME TypeOK, NEW p \in Calls,
         EmployeeStep(p) \/ ApproverStep(p) \/ AdminStep(p) \/ FinanceStep(p)
  PROVE  Unaccrued
  <1>1. CASE EmployeeStep(p)
    <2>1. UNCHANGED <<balance, ledger>>
      BY <1>1 DEF EmployeeStep, CreateCheck, CreateInsert, CancelCheck, CancelWrite, database
    <2>2. PICK next : Become(p, next) /\ next.at \notin {"credit", "creditWrite"}
      <3>1. CASE CreateCheck(p)
        BY <3>1 DEF CreateCheck, Idle
      <3>2. CASE CreateInsert(p)
        BY <3>2 DEF CreateInsert, Idle
      <3>3. CASE CancelCheck(p)
        BY <3>3 DEF CancelCheck, Idle
      <3>4. CASE CancelWrite(p)
        BY <3>4 DEF CancelWrite, Idle
      <3> QED
        BY <1>1, <3>1, <3>2, <3>3, <3>4 DEF EmployeeStep
    <2> QED
      BY <2>1, <2>2, MovesElsewhere, SameKeys, SameCredit DEF Unaccrued
  <1>2. CASE DecideCheck(p) \/ DecideSplit(p) \/ DecideClaim(p)
    <2>1. UNCHANGED <<balance, ledger>>
      BY <1>2 DEF DecideCheck, DecideSplit, DecideClaim, database
    <2>2. PICK next : Become(p, next) /\ next.at \notin {"credit", "creditWrite"}
      <3>1. CASE DecideCheck(p)
        BY <3>1 DEF DecideCheck, Idle
      <3>2. CASE DecideSplit(p)
        BY <3>2 DEF DecideSplit, Idle
      <3>3. CASE DecideClaim(p)
        BY <3>3 DEF DecideClaim, Idle
      <3> QED
        BY <1>2, <3>1, <3>2, <3>3
    <2> QED
      BY <2>1, <2>2, MovesElsewhere, SameKeys, SameCredit DEF Unaccrued
  <1>3. CASE ChargeBalance(p) \/ ChargeRow(p)
    <2> DEFINE row == LedgerEntry(Owner[call[p].request], "USAGE", call[p].days,
                                  call[p].request, 0)
    <2>1. call[p] \in ChargeCall
      BY <1>3, CallShape DEF ChargeBalance, ChargeRow
    <2>2. call[p].request \in Requests /\ call[p].days \in Nat
      BY <2>1 DEF ChargeCall
    <2>3. Owner[call[p].request] \in Users
      BY <2>2, PeopleAssumption
    <2>4. row \in LedgerRow /\ row.entry # "ACCRUAL"
      BY <2>2, <2>3 DEF LedgerRow, LedgerEntry
    <2>5. UNCHANGED ledger \/ ledger' = Append(ledger, row)
      BY <1>3 DEF ChargeBalance, ChargeRow
    <2>6. UNCHANGED balance \/ ApplyUsage(Owner[call[p].request], call[p].days)
      BY <1>3 DEF ChargeBalance, ChargeRow
    <2>7. PICK next : Become(p, next) /\ next.at \notin {"credit", "creditWrite"}
      BY <1>3, <2>1 DEF ChargeBalance, ChargeRow, Idle, ChargeCall
    <2> HIDE DEF row
    <2> QED
      BY <2>3, <2>4, <2>5, <2>6, <2>7, MovesElsewhere, SameKeys, SameCredit, UsageCreditsNothing
         DEF Unaccrued
  <1>4. CASE AddHoliday(p) \/ HolidaySnapshot(p) \/ HolidayRecount(p)
    <2>1. UNCHANGED <<balance, ledger>>
      BY <1>4 DEF AddHoliday, HolidaySnapshot, HolidayRecount, database
    <2>2. PICK next : Become(p, next) /\ next.at \notin {"credit", "creditWrite"}
      <3>1. CASE AddHoliday(p)
        BY <3>1 DEF AddHoliday, Continue, Idle
      <3>2. CASE HolidaySnapshot(p)
        BY <3>2 DEF HolidaySnapshot, Continue, Idle
      <3>3. CASE HolidayRecount(p)
        BY <3>3 DEF HolidayRecount, Continue, Idle
      <3> QED
        BY <1>4, <3>1, <3>2, <3>3
    <2> QED
      BY <2>1, <2>2, MovesElsewhere, SameKeys, SameCredit DEF Unaccrued
  <1>5. CASE HolidayShrink(p) \/ RefundBalance(p) \/ RefundRow(p)
    <2> DEFINE u == Owner[call[p].request]
               row == LedgerEntry(u, "REFUND", - call[p].days, call[p].request, call[p].date)
    <2>1. call[p] \in RefundCall
      BY <1>5, CallShape DEF HolidayShrink, RefundBalance, RefundRow
    <2>2. call[p].request \in Requests /\ call[p].days \in Nat /\ call[p].date \in Days
      BY <2>1 DEF RefundCall
    <2>3. u \in Users
      BY <2>2, PeopleAssumption
    <2>4. row \in LedgerRow /\ row.entry # "ACCRUAL"
      BY <2>2, <2>3, QuantityAssumption DEF LedgerRow, LedgerEntry, Days
    <2>5. UNCHANGED ledger \/ ledger' = Append(ledger, row)
      BY <1>5 DEF HolidayShrink, RefundBalance, RefundRow
    <2>6. UNCHANGED balance \/ ApplyUsage(u, - call[p].days)
      BY <1>5 DEF HolidayShrink, RefundBalance, RefundRow
    <2>7. PICK next : Become(p, next) /\ next.at \notin {"credit", "creditWrite"}
      BY <1>5, <2>1 DEF HolidayShrink, RefundBalance, RefundRow, Continue, Idle, RefundCall
    <2> HIDE DEF row, u
    <2> QED
      BY <2>3, <2>4, <2>5, <2>6, <2>7, MovesElsewhere, SameKeys, SameCredit, UsageCreditsNothing
         DEF Unaccrued
  <1>6. CASE DeleteHoliday(p) \/ FinanceStep(p)
    <2>1. UNCHANGED <<balance, ledger, call>>
      BY <1>6 DEF DeleteHoliday, FinanceStep, LockMonth, UnlockMonth
    <2> QED
      BY <2>1, SameKeys, SameCredit DEF Unaccrued
  <1> QED
    BY <1>1, <1>2, <1>3, <1>4, <1>5, <1>6 DEF ApproverStep, AdminStep, HolidayStep

LEMMA RestUnaccrued ==
  ASSUME TypeOK,
         \/ Environment
         \/ \E p \in Calls : Fail(p) \/ AccrualStart(p) \/ SweepRead(p) \/ SweepWrite(p)
         \/ UNCHANGED vars
  PROVE  Unaccrued
  <1>1. UNCHANGED <<balance, ledger>>
    BY DEF Environment, AdvanceDay, BecomeDue, Fail, AccrualStart, SweepRead, SweepWrite,
           database, vars
  <1>2. \A q \in Calls : call'[q].at \in {"credit", "creditWrite"} => call'[q] = call[q]
    <2>1. CASE Environment \/ UNCHANGED vars
      BY <2>1 DEF Environment, AdvanceDay, BecomeDue, vars
    <2>2. ASSUME NEW p \in Calls, SweepWrite(p)
          PROVE  \A q \in Calls : call'[q].at \in {"credit", "creditWrite"} => call'[q] = call[q]
      <3>1. call[p] \in EscalateCall
        BY <2>2, CallShape DEF SweepWrite
      <3>2. PICK next : Become(p, next) /\ next.at \notin {"credit", "creditWrite"}
        BY <2>2, <3>1 DEF SweepWrite, Idle, EscalateCall
      <3> QED
        BY <3>2, MovesElsewhere
    <2>3. ASSUME NEW p \in Calls, Fail(p) \/ AccrualStart(p) \/ SweepRead(p)
          PROVE  \A q \in Calls : call'[q].at \in {"credit", "creditWrite"} => call'[q] = call[q]
      <3>1. PICK next : Become(p, next) /\ next.at \notin {"credit", "creditWrite"}
        <4>1. CASE Fail(p)
          BY <4>1 DEF Fail, Idle
        <4>2. CASE AccrualStart(p)
          BY <4>2 DEF AccrualStart, Idle
        <4>3. CASE SweepRead(p)
          BY <4>3 DEF SweepRead, Idle
        <4> QED
          BY <2>3, <4>1, <4>2, <4>3
      <3> QED
        BY <3>1, MovesElsewhere
    <2> QED
      BY <2>1, <2>2, <2>3
  <1> QED
    BY <1>1, <1>2, SameKeys, SameCredit DEF Unaccrued

\* runAccrual, the ledger row: the month is owed from here on, and to nobody else.
LEMMA RowKeeps ==
  ASSUME TypeOK, TypeOK', AccrualInv, NEW p \in Calls, AccrualRow(p)
  PROVE  AccrualInv'
  <1> PICK c : c = call[p]
    OBVIOUS
  <1>1. c \in AccrueCall
    BY CallShape DEF AccrualRow
  <1>2. PICK w \in c.staff :
          \/ NextStaff(p, c.staff \ {w}) /\ UNCHANGED ledger
          \/ /\ ~ KeyTaken(w, "ACCRUAL", c.month)
             /\ ledger' = Append(ledger, LedgerEntry(w, "ACCRUAL", PerMonth, NoRequest, c.month))
             /\ Become(p, [at |-> "credit", month |-> c.month, staff |-> c.staff \ {w},
                           user |-> w])
    BY DEF AccrualRow
  <1>3. w \in Users /\ c.month \in Months /\ UNCHANGED balance
    BY <1>1 DEF AccrueCall, AccrualRow
  <1>4. CASE NextStaff(p, c.staff \ {w}) /\ UNCHANGED ledger
    <2>1. PICK next : Become(p, next) /\ next.at \notin {"credit", "creditWrite"}
      BY <1>4 DEF NextStaff, Idle
    <2>2. Unaccrued
      BY <1>3, <1>4, <2>1, MovesElsewhere, SameKeys, SameCredit DEF Unaccrued
    <2> QED
      BY <2>2, UnaccruedKeeps
  <1>5. CASE /\ ~ KeyTaken(w, "ACCRUAL", c.month)
             /\ ledger' = Append(ledger, LedgerEntry(w, "ACCRUAL", PerMonth, NoRequest, c.month))
             /\ Become(p, [at |-> "credit", month |-> c.month, staff |-> c.staff \ {w}, user |-> w])
    <2> DEFINE row == LedgerEntry(w, "ACCRUAL", PerMonth, NoRequest, c.month)
               next == [at |-> "credit", month |-> c.month, staff |-> c.staff \ {w}, user |-> w]
    <2>1. /\ \A i \in DOMAIN ledger : i \in DOMAIN ledger' /\ ledger'[i] = ledger[i]
          /\ Len(ledger) + 1 \in DOMAIN ledger' /\ ledger'[Len(ledger) + 1] = row
      <3>1. ledger \in Seq(LedgerRow) /\ ledger' = Append(ledger, row)
        BY <1>5 DEF TypeOK
      <3> HIDE DEF row
      <3> QED
        BY <3>1
    <2>2. row.user = w /\ row.entry = "ACCRUAL" /\ row.key = c.month
      BY DEF LedgerEntry
    <2> HIDE DEF row
    <2>3. /\ \A u, m : KeyTaken(u, "ACCRUAL", m) => KeyTaken(u, "ACCRUAL", m)'
          /\ KeyTaken(w, "ACCRUAL", c.month)'
      BY <2>1, <2>2 DEF KeyTaken
    <2>4. \A q \in Calls : call'[q] = IF q = p THEN next ELSE call[q]
      BY <1>5 DEF Become, TypeOK
    <2>5. \A u, m : Owes(p, u, m)' <=> u = w /\ m = c.month
      BY <2>4 DEF Owes
    <2>6. \A q \in Calls : \A u, m : q # p => (Owes(q, u, m)' <=> Owes(q, u, m))
      BY <2>4 DEF Owes
    <2>7. \A q \in Calls : ~ Owes(q, w, c.month)
      BY <1>3, <1>5 DEF AccrualInv
    <2>8. ASSUME NEW u \in Users, NEW y \in Years
          PROVE  /\ Cardinality(Settled(u, y)) \in Nat /\ Cardinality(Settled(u, y))' \in Nat
                 /\ Cardinality(Settled(u, y)) <= Cardinality(Settled(u, y))'
      <3>1. \A m \in Months, q \in Calls : Owes(q, u, m)' =>
              ~ KeyTaken(u, "ACCRUAL", m) \/ \E r \in Calls : Owes(r, u, m)
        BY <1>5, <2>5, <2>6
      <3> QED
        BY <2>3, <3>1, SettledGrows
    <2>9. \A q \in Calls, u \in Users, m \in Months : Owes(q, u, m)' =>
            KeyTaken(u, "ACCRUAL", m)' /\ \A r \in Calls : Owes(r, u, m)' => r = q
      BY <2>3, <2>5, <2>6, <2>7 DEF AccrualInv
    <2>10. ASSUME NEW u \in Users, NEW y \in Years
           PROVE  Covered(balance'[u][y].accrued, Cardinality(Settled(u, y))')
      <3>1. balance[u][y].accrued \in Nat
        BY DEF TypeOK, BalanceRow
      <3> QED
        BY <1>3, <2>8, <3>1, CoveredByMore DEF AccrualInv
    <2>11. ASSUME NEW q \in Calls, NEW u \in Users, NEW m \in Months, Owes(q, u, m)',
                  call'[q].at = "creditWrite"
           PROVE  Covered(call'[q].accrued, Cardinality(Settled(u, YearOfMonth(m)))' + 1)
      <3>1. q # p /\ call'[q] = call[q] /\ Owes(q, u, m) /\ YearOfMonth(m) \in Years
        BY <2>4, <2>6, <2>11, CalendarTypes
      <3>2. call[q].accrued \in Nat
        BY <2>11, <3>1, CallShape DEF CreditWriteCall
      <3>3. PICK k, n : /\ k = Cardinality(Settled(u, YearOfMonth(m)))
                        /\ n = Cardinality(Settled(u, YearOfMonth(m)))'
        OBVIOUS
      <3>4. k + 1 \in Nat /\ n + 1 \in Nat /\ k + 1 <= n + 1
        BY <2>8, <3>1, <3>3
      <3>5. Covered(call[q].accrued, k + 1)
        BY <2>11, <3>1, <3>3 DEF AccrualInv
      <3> QED
        BY <3>1, <3>2, <3>3, <3>4, <3>5, CoveredByMore
    <2> QED
      BY <2>9, <2>10, <2>11 DEF AccrualInv
  <1> QED
    BY <1>2, <1>4, <1>5

\* runAccrual, the read: what it is about to write exceeds the balance by the month it owes.
LEMMA ReadKeeps ==
  ASSUME TypeOK, TypeOK', AccrualInv, NEW p \in Calls, AccrualRead(p)
  PROVE  AccrualInv'
  <1> DEFINE v == call[p].user
             month == call[p].month
             z == YearOfMonth(month)
             next == [at |-> "creditWrite", month |-> month, staff |-> call[p].staff,
                      user |-> v, accrued |-> Credited(balance[v][z].accrued)]
  <1>1. call[p] \in CreditCall
    BY CallShape DEF AccrualRead
  <1>2. v \in Users /\ month \in Months /\ z \in Years /\ call[p].at = "credit"
    BY <1>1, CalendarTypes DEF CreditCall
  <1>3. UNCHANGED ledger /\ Become(p, next) /\ balance' = [balance EXCEPT ![v][z].exists = TRUE]
    BY DEF AccrualRead
  <1>4. \A q \in Calls : call'[q] = IF q = p THEN next ELSE call[q]
    BY <1>3 DEF Become, TypeOK
  <1>5. \A q \in Calls : \A u, m : Owes(q, u, m)' <=> Owes(q, u, m)
    BY <1>2, <1>4 DEF Owes
  <1>6. \A u, m : KeyTaken(u, "ACCRUAL", m)' <=> KeyTaken(u, "ACCRUAL", m)
    BY <1>3 DEF KeyTaken
  <1>7. ASSUME NEW u, NEW y PROVE Settled(u, y)' = Settled(u, y)
    <2>1. MonthsAccrued(u, y)' = MonthsAccrued(u, y)
      BY <1>3 DEF MonthsAccrued
    <2>2. Owed(u)' = Owed(u)
      BY <1>5 DEF Owed
    <2> QED
      BY <2>1, <2>2 DEF Settled
  <1>8. \A u \in Users, y \in Years : balance'[u][y].accrued = balance[u][y].accrued
    BY <1>2, <1>3 DEF TypeOK, BalanceRow
  <1>9. \A q \in Calls, u \in Users, m \in Months : Owes(q, u, m)' =>
          KeyTaken(u, "ACCRUAL", m)' /\ \A r \in Calls : Owes(r, u, m)' => r = q
    BY <1>5, <1>6 DEF AccrualInv
  <1>10. \A u \in Users, y \in Years : Covered(balance'[u][y].accrued, Cardinality(Settled(u, y))')
    BY <1>7, <1>8 DEF AccrualInv
  <1>11. ASSUME NEW q \in Calls, NEW u \in Users, NEW m \in Months, Owes(q, u, m)',
                call'[q].at = "creditWrite"
         PROVE  Covered(call'[q].accrued, Cardinality(Settled(u, YearOfMonth(m)))' + 1)
    <2>1. PICK k : k = Cardinality(Settled(u, YearOfMonth(m)))
      OBVIOUS
    <2>2. k = Cardinality(Settled(u, YearOfMonth(m)))' /\ k \in Nat
      BY <1>7, <2>1, SettledIsFinite
    <2>3. CASE q = p
      <3>1. u = v /\ m = month
        BY <1>4, <1>11, <2>3 DEF Owes
      <3>2. balance[v][z].accrued \in Nat /\ Covered(balance[v][z].accrued, k)
        BY <1>2, <2>1, <3>1 DEF TypeOK, BalanceRow, AccrualInv
      <3>3. call'[q].accrued = Credited(balance[v][z].accrued)
        BY <1>4, <2>3
      <3> QED
        BY <2>2, <3>2, <3>3, CreditIsCovered
    <2>4. CASE q # p
      BY <1>4, <1>5, <1>11, <2>1, <2>2, <2>4 DEF AccrualInv
    <2> QED
      BY <2>3, <2>4
  <1> QED
    BY <1>9, <1>10, <1>11 DEF AccrualInv

\* runAccrual, the write: the month it owed is settled.
LEMMA WriteKeeps ==
  ASSUME TypeOK, TypeOK', AccrualInv, NEW p \in Calls, AccrualWrite(p)
  PROVE  AccrualInv'
  <1> PICK v, month, z, gained : /\ v = call[p].user /\ month = call[p].month
                                 /\ z = YearOfMonth(month) /\ gained = call[p].accrued
    OBVIOUS
  <1>1. call[p] \in CreditWriteCall
    BY CallShape DEF AccrualWrite
  <1>2. /\ v \in Users /\ month \in Months /\ z \in Years /\ gained \in Nat
        /\ call[p].at = "creditWrite"
    BY <1>1, CalendarTypes DEF CreditWriteCall
  <1>3. UNCHANGED ledger /\ balance' = [balance EXCEPT ![v][z].accrued = gained]
    BY DEF AccrualWrite
  <1>4. PICK next : Become(p, next) /\ next.at \notin {"credit", "creditWrite"}
    BY DEF AccrualWrite, NextStaff, Idle
  <1>5. \A q \in Calls : call'[q] = IF q = p THEN next ELSE call[q]
    BY <1>4 DEF Become, TypeOK
  <1>6. \A q \in Calls : \A u, m : Owes(q, u, m)' <=> q # p /\ Owes(q, u, m)
    BY <1>4, <1>5 DEF Owes
  <1>7. Owes(p, v, month) /\ \A u, m : Owes(p, u, m) => u = v /\ m = month
    BY <1>2 DEF Owes
  <1>8. \A u, m : KeyTaken(u, "ACCRUAL", m)' <=> KeyTaken(u, "ACCRUAL", m)
    BY <1>3 DEF KeyTaken
  <1>9. ASSUME NEW u \in Users, NEW y \in Years
        PROVE  /\ Cardinality(Settled(u, y)) \in Nat /\ Cardinality(Settled(u, y))' \in Nat
               /\ Cardinality(Settled(u, y)) <= Cardinality(Settled(u, y))'
    BY <1>6, <1>8, SettledGrows
  <1>10. /\ Cardinality(Settled(v, z)) \in Nat
         /\ Cardinality(Settled(v, z))' = Cardinality(Settled(v, z)) + 1
    <2>1. month \notin Settled(v, z)
      BY <1>2, <1>7 DEF Settled, Owed
    <2>2. Owed(v)' = Owed(v) \ {month}
      BY <1>2, <1>6, <1>7 DEF Owed, AccrualInv
    <2>3. MonthsAccrued(v, z)' = MonthsAccrued(v, z)
      BY <1>3 DEF MonthsAccrued
    <2>4. month \in MonthsAccrued(v, z)
      BY <1>2, <1>7, AccruedMonth DEF AccrualInv
    <2>5. Settled(v, z)' = Settled(v, z) \cup {month}
      BY <2>2, <2>3, <2>4 DEF Settled
    <2>6. PICK before, after : before = Settled(v, z) /\ after = Settled(v, z)'
      OBVIOUS
    <2>7. IsFiniteSet(before) /\ Cardinality(before) \in Nat
      BY <2>6, SettledIsFinite
    <2>8. month \notin before /\ after = before \cup {month}
      BY <2>1, <2>5, <2>6
    <2>9. Cardinality(after) = Cardinality(before) + 1
      BY <2>7, <2>8, FS_AddElement
    <2> QED
      BY <2>6, <2>7, <2>9
  <1>11. \A q \in Calls, u \in Users, m \in Months : Owes(q, u, m)' =>
           KeyTaken(u, "ACCRUAL", m)' /\ \A r \in Calls : Owes(r, u, m)' => r = q
    BY <1>6, <1>8 DEF AccrualInv
  <1>12. ASSUME NEW u \in Users, NEW y \in Years
         PROVE  Covered(balance'[u][y].accrued, Cardinality(Settled(u, y))')
    <2>1. CASE u = v /\ y = z
      <3>1. balance'[u][y].accrued = gained
        BY <1>2, <1>3, <2>1 DEF TypeOK, BalanceRow
      <3>2. Covered(gained, Cardinality(Settled(v, z)) + 1)
        BY <1>2, <1>7 DEF AccrualInv
      <3> QED
        BY <1>10, <2>1, <3>1, <3>2
    <2>2. CASE ~ (u = v /\ y = z)
      <3>1. balance'[u][y].accrued = balance[u][y].accrued
        BY <1>2, <1>3, <2>2 DEF TypeOK, BalanceRow
      <3>2. balance[u][y].accrued \in Nat
        BY DEF TypeOK, BalanceRow
      <3> QED
        BY <1>9, <3>1, <3>2, CoveredByMore DEF AccrualInv
    <2> QED
      BY <2>1, <2>2
  <1>13. ASSUME NEW q \in Calls, NEW u \in Users, NEW m \in Months, Owes(q, u, m)',
                call'[q].at = "creditWrite"
         PROVE  Covered(call'[q].accrued, Cardinality(Settled(u, YearOfMonth(m)))' + 1)
    <2>1. q # p /\ call'[q] = call[q] /\ Owes(q, u, m) /\ YearOfMonth(m) \in Years
      BY <1>5, <1>6, <1>13, CalendarTypes
    <2>2. call[q].accrued \in Nat
      BY <1>13, <2>1, CallShape DEF CreditWriteCall
    <2>3. PICK k, n : /\ k = Cardinality(Settled(u, YearOfMonth(m)))
                      /\ n = Cardinality(Settled(u, YearOfMonth(m)))'
      OBVIOUS
    <2>4. k + 1 \in Nat /\ n + 1 \in Nat /\ k + 1 <= n + 1
      BY <1>9, <2>1, <2>3
    <2>5. Covered(call[q].accrued, k + 1)
      BY <1>13, <2>1, <2>3 DEF AccrualInv
    <2> QED
      BY <2>1, <2>2, <2>3, <2>4, <2>5, CoveredByMore
  <1> QED
    BY <1>11, <1>12, <1>13 DEF AccrualInv

LEMMA AccrualInitially == Init => AccrualInv
  <1> SUFFICES ASSUME Init PROVE AccrualInv
    OBVIOUS
  <1>1. \A p \in Calls : \A u, m : ~ Owes(p, u, m)
    BY DEF Init, Owes, Idle
  <1>2. ASSUME NEW u \in Users, NEW y \in Years
        PROVE  Covered(balance[u][y].accrued, Cardinality(Settled(u, y)))
    <2>1. balance[u][y].accrued = 0
      BY DEF Init
    <2>2. PICK k \in Nat : k = Cardinality(Settled(u, y))
      BY SettledIsFinite
    <2>3. PerMonth * k \in Nat /\ Cap \in Nat
      BY QuantityAssumption
    <2> QED
      BY <2>1, <2>2, <2>3 DEF Covered
  <1> QED
    BY <1>1, <1>2 DEF AccrualInv

LEMMA AccrualStep == TypeOK /\ TypeOK' /\ AccrualInv /\ [Next]_vars => AccrualInv'
  <1> SUFFICES ASSUME TypeOK, TypeOK', AccrualInv, [Next]_vars PROVE AccrualInv'
    OBVIOUS
  <1>1. ASSUME NEW p \in Calls, AccrualRow(p) \/ AccrualRead(p) \/ AccrualWrite(p)
        PROVE  AccrualInv'
    BY <1>1, RowKeeps, ReadKeeps, WriteKeeps
  <1>2. ASSUME NEW p \in Calls,
               EmployeeStep(p) \/ ApproverStep(p) \/ AdminStep(p) \/ FinanceStep(p)
        PROVE  AccrualInv'
    BY <1>2, OthersUnaccrued, UnaccruedKeeps
  <1>3. CASE \/ Environment
             \/ \E p \in Calls : Fail(p) \/ AccrualStart(p) \/ SweepRead(p) \/ SweepWrite(p)
             \/ UNCHANGED vars
    BY <1>3, RestUnaccrued, UnaccruedKeeps
  <1> QED
    BY <1>1, <1>2, <1>3 DEF Next, JobStep

\* runAccrual: re-run, run twice at once or killed half way, by any number of jobs over any
\* staff, it never credits more than one PerMonth for a month on the ledger, nor more than the
\* yearly quota.
THEOREM AccrualsAreBacked == Spec => []AccruedWithinLedger
  <1>1. TypeOK /\ AccrualInv => AccruedWithinLedger
    <2> SUFFICES ASSUME TypeOK, AccrualInv, NEW u \in Users, NEW y \in Years
                 PROVE  balance[u][y].accrued
                          <= Least(Cap, PerMonth * Cardinality(MonthsAccrued(u, y)))
      BY DEF AccruedWithinLedger
    <2>1. Settled(u, y) \subseteq MonthsAccrued(u, y) /\ MonthsAccrued(u, y) \subseteq Months
      BY DEF Settled, MonthsAccrued
    <2>2. IsFiniteSet(Months)
      BY FS_Interval, QuantityAssumption DEF Months
    <2>3. PICK k \in Nat, n \in Nat :
            /\ k = Cardinality(Settled(u, y)) /\ n = Cardinality(MonthsAccrued(u, y)) /\ k <= n
      BY <2>1, <2>2, FS_Subset, FS_CardinalityType
    <2>4. PICK accrued \in Nat : accrued = balance[u][y].accrued
      BY DEF TypeOK, BalanceRow
    <2>5. Covered(accrued, n)
      BY <2>3, <2>4, CoveredByMore DEF AccrualInv
    <2> QED
      BY <2>3, <2>4, <2>5 DEF Covered
  <1> QED
    BY <1>1, AccrualInitially, AccrualStep, TypeCorrect, PTL DEF Spec
-----------------------------------------------------------------------------
\* Balances, while one approval and one credit at a time are under way

\* A call that has split a request and is on its way to charge it; one about to write what it
\* has read and added to.
Approving(p) == (call[p].at = "claim" /\ call[p].verdict = "APPROVED") \/ call[p].at = "charge"
Crediting(p) == call[p].at = "creditWrite"
OneApproval == \A p, q \in Calls : Approving(p) /\ Approving(q) => p = q
OneCredit == \A p, q \in Calls : Crediting(p) /\ Crediting(q) => p = q

\* No year begins between the split of a request and its charge.
YearHolds == (\E p \in Calls : Approving(p)) => YearOf(today') = YearOf(today)

\* A balance that has no row yet holds nothing, and a credit has seen to its row.
RowsFit ==
  /\ \A u \in Users, y \in Years :
       ~ balance[u][y].exists => balance[u][y].accrued = 0 /\ balance[u][y].used = 0
  /\ \A p \in Calls : Crediting(p) => balance[call[p].user][YearOfMonth(call[p].month)].exists

\* A credit in flight takes nothing away.
CreditsGrow ==
  \A p \in Calls : Crediting(p) =>
    balance[call[p].user][YearOfMonth(call[p].month)].accrued <= call[p].accrued

\* What is left to take, and what a call may still charge.
Left(u, y) == balance[u][y].accrued - balance[u][y].used
Spendable(u, days) == days = 0 \/ days <= Left(u, YearOf(today))
CallFits(c) ==
  /\ c.at = "claim" /\ c.verdict = "APPROVED" => Spendable(Owner[c.request], c.paid)
  /\ c.at = "charge" => Spendable(Owner[c.request], c.days)
CallsFit == \A p \in Calls : CallFits(call[p])

WithinInv == NeverOverdrawn /\ CallsFit

\* A step without a decision, a charge or a credit: it spends nothing, and makes no call that will.
Modest ==
  /\ UNCHANGED balance \/ \E u \in Users, d \in Nat : ApplyUsage(u, - d)
  /\ \A p \in Calls :
       call'[p].at \in {"split", "claim", "charge", "creditWrite"} => call'[p] = call[p]

LEMMA StepAside ==
  ASSUME TypeOK, NEW p \in Calls, NEW next, Become(p, next),
         next.at \notin {"split", "claim", "charge", "creditWrite"}
  PROVE  \A q \in Calls :
           call'[q].at \in {"split", "claim", "charge", "creditWrite"} => call'[q] = call[q]
  BY DEF Become, TypeOK

LEMMA ModestCalls ==
  ASSUME TypeOK, NEW p \in Calls,
         \/ EmployeeStep(p) \/ AdminStep(p) \/ FinanceStep(p) \/ ChargeRow(p) \/ Fail(p)
         \/ AccrualStart(p) \/ AccrualRow(p) \/ SweepRead(p) \/ SweepWrite(p)
  PROVE  Modest
  <1>1. ASSUME NEW next, Become(p, next), UNCHANGED balance,
               next.at \notin {"split", "claim", "charge", "creditWrite"}
        PROVE  Modest
    BY <1>1, StepAside DEF Modest
  <1>2. CASE EmployeeStep(p)
    <2>1. CASE CreateCheck(p)
      BY <1>1, <2>1 DEF CreateCheck, database
    <2>2. CASE CreateInsert(p)
      BY <1>1, <2>2 DEF CreateInsert, Idle
    <2>3. CASE CancelCheck(p)
      BY <1>1, <2>3 DEF CancelCheck, database
    <2>4. CASE CancelWrite(p)
      BY <1>1, <2>4 DEF CancelWrite, Idle
    <2> QED
      BY <1>2, <2>1, <2>2, <2>3, <2>4 DEF EmployeeStep
  <1>3. CASE FinanceStep(p) \/ DeleteHoliday(p)
    BY <1>3 DEF FinanceStep, LockMonth, UnlockMonth, DeleteHoliday, Modest
  <1>4. CASE AddHoliday(p) \/ HolidaySnapshot(p) \/ HolidayRecount(p)
    <2>1. UNCHANGED balance
      BY <1>4 DEF AddHoliday, HolidaySnapshot, HolidayRecount, database
    <2>2. PICK next : Become(p, next) /\ next.at \notin {"split", "claim", "charge", "creditWrite"}
      <3>1. CASE AddHoliday(p)
        BY <3>1 DEF AddHoliday
      <3>2. CASE HolidaySnapshot(p)
        BY <3>2 DEF HolidaySnapshot, Idle
      <3>3. CASE HolidayRecount(p)
        BY <3>3 DEF HolidayRecount, Continue, Idle
      <3> QED
        BY <1>4, <3>1, <3>2, <3>3
    <2> QED
      BY <1>1, <2>1, <2>2
  <1>5. CASE HolidayShrink(p) \/ RefundBalance(p) \/ RefundRow(p)
    <2>1. call[p] \in RefundCall
      BY <1>5, CallShape DEF HolidayShrink, RefundBalance, RefundRow
    <2>2. call[p].days \in Nat /\ Owner[call[p].request] \in Users
      BY <2>1, PeopleAssumption DEF RefundCall
    <2>3. UNCHANGED balance \/ ApplyUsage(Owner[call[p].request], - call[p].days)
      BY <1>5 DEF HolidayShrink, RefundBalance, RefundRow
    <2>4. PICK next : Become(p, next) /\ next.at \notin {"split", "claim", "charge", "creditWrite"}
      BY <1>5, <2>1 DEF HolidayShrink, RefundBalance, RefundRow, Continue, Idle, RefundCall
    <2> QED
      BY <2>2, <2>3, <2>4, StepAside DEF Modest
  <1>6. CASE ChargeRow(p) \/ Fail(p) \/ AccrualStart(p) \/ SweepRead(p)
    <2>1. UNCHANGED balance
      BY <1>6 DEF ChargeRow, Fail, AccrualStart, SweepRead, database
    <2>2. PICK next : Become(p, next) /\ next.at \notin {"split", "claim", "charge", "creditWrite"}
      <3>1. CASE ChargeRow(p) \/ Fail(p)
        BY <3>1 DEF ChargeRow, Fail, Idle
      <3>2. CASE AccrualStart(p)
        BY <3>2 DEF AccrualStart
      <3>3. CASE SweepRead(p)
        BY <3>3 DEF SweepRead
      <3> QED
        BY <1>6, <3>1, <3>2, <3>3
    <2> QED
      BY <1>1, <2>1, <2>2
  <1>7. CASE AccrualRow(p)
    <2>1. UNCHANGED balance
      BY <1>7 DEF AccrualRow
    <2>2. PICK next : Become(p, next) /\ next.at \notin {"split", "claim", "charge", "creditWrite"}
      BY <1>7 DEF AccrualRow, NextStaff, Idle
    <2> QED
      BY <1>1, <2>1, <2>2
  <1>8. CASE SweepWrite(p)
    <2>1. call[p] \in EscalateCall
      BY <1>8, CallShape DEF SweepWrite
    <2>2. UNCHANGED balance
      BY <1>8 DEF SweepWrite
    <2>3. PICK next : Become(p, next) /\ next.at \notin {"split", "claim", "charge", "creditWrite"}
      BY <1>8, <2>1 DEF SweepWrite, Idle, EscalateCall
    <2> QED
      BY <1>1, <2>2, <2>3
  <1> QED
    BY <1>2, <1>3, <1>4, <1>5, <1>6, <1>7, <1>8 DEF AdminStep, HolidayStep

LEMMA ModestRest == ASSUME Environment \/ UNCHANGED vars PROVE Modest
  BY DEF Environment, AdvanceDay, BecomeDue, vars, database, Modest
\* applyUsage, row by row.
LEMMA UsageMoves ==
  ASSUME TypeOK, NEW v \in Users, NEW days \in Int, ApplyUsage(v, days), NEW z, z = YearOf(today)
  PROVE  /\ z \in Years
         /\ \A u \in Users, y \in Years : u # v \/ y # z => balance'[u][y] = balance[u][y]
         /\ balance'[v][z].exists
         /\ balance[v][z].exists => /\ balance'[v][z].accrued = balance[v][z].accrued
                                    /\ balance'[v][z].used = balance[v][z].used + days
         /\ ~ balance[v][z].exists =>
              balance'[v][z].accrued = 0 /\ balance'[v][z].used = NonNegative(days)
  <1> DEFINE row == balance[v][z]
             new == IF row.exists THEN [row EXCEPT !.used = row.used + days]
                    ELSE [exists |-> TRUE, accrued |-> 0, used |-> NonNegative(days)]
  <1>1. z \in Years
    BY CalendarTypes DEF TypeOK
  <1>2. row \in BalanceRow
    BY <1>1 DEF TypeOK
  <1>3. /\ new.exists
        /\ row.exists => new.accrued = row.accrued /\ new.used = row.used + days
        /\ ~ row.exists => new.accrued = 0 /\ new.used = NonNegative(days)
    BY <1>2 DEF BalanceRow
  <1>4. balance' = [balance EXCEPT ![v][z] = new]
    BY DEF ApplyUsage
  <1> HIDE DEF new
  <1>5. \A u \in Users, y \in Years :
          balance'[u][y] = IF u = v /\ y = z THEN new ELSE balance[u][y]
    BY <1>1, <1>4 DEF TypeOK
  <1> QED
    BY <1>1, <1>3, <1>5

\* The months read and written of an accrual.
LEMMA ReadMoves ==
  ASSUME TypeOK, NEW p \in Calls, AccrualRead(p)
  PROVE  \E v \in Users, z \in Years :
           /\ \A u \in Users, y \in Years :
                /\ u # v \/ y # z => balance'[u][y] = balance[u][y]
                /\ balance'[u][y].accrued = balance[u][y].accrued
                /\ balance'[u][y].used = balance[u][y].used
           /\ balance'[v][z].exists
           /\ call'[p].at = "creditWrite" /\ call'[p].user = v /\ YearOfMonth(call'[p].month) = z
           /\ call'[p].accrued = Credited(balance[v][z].accrued)
           /\ \A q \in Calls : q # p => call'[q] = call[q]
  <1>1. call[p] \in CreditCall
    BY CallShape DEF AccrualRead
  <1>2. PICK v \in Users, m \in Months, z \in Years :
          v = call[p].user /\ m = call[p].month /\ z = YearOfMonth(m)
    BY <1>1, CalendarTypes DEF CreditCall
  <1>3. balance' = [balance EXCEPT ![v][z].exists = TRUE]
    BY <1>2 DEF AccrualRead
  <1>4. /\ call'[p] = [at |-> "creditWrite", month |-> m, staff |-> call[p].staff, user |-> v,
                       accrued |-> Credited(balance[v][z].accrued)]
        /\ \A q \in Calls : q # p => call'[q] = call[q]
    BY <1>2 DEF AccrualRead, Become, TypeOK
  <1>5. \A u \in Users, y \in Years :
          /\ u # v \/ y # z => balance'[u][y] = balance[u][y]
          /\ balance'[u][y].accrued = balance[u][y].accrued
          /\ balance'[u][y].used = balance[u][y].used
    BY <1>3 DEF TypeOK, BalanceRow
  <1>6. balance'[v][z].exists
    BY <1>3 DEF TypeOK, BalanceRow
  <1> QED
    BY <1>2, <1>4, <1>5, <1>6

LEMMA WriteMoves ==
  ASSUME TypeOK, NEW p \in Calls, AccrualWrite(p)
  PROVE  \E v \in Users, z \in Years :
           /\ call[p].user = v /\ YearOfMonth(call[p].month) = z /\ Crediting(p)
           /\ \A u \in Users, y \in Years :
                /\ u # v \/ y # z => balance'[u][y] = balance[u][y]
                /\ balance'[u][y].exists = balance[u][y].exists
                /\ balance'[u][y].used = balance[u][y].used
           /\ balance'[v][z].accrued = call[p].accrued /\ call[p].accrued \in Nat
           /\ call'[p].at \in {"idle", "accrue"}
           /\ \A q \in Calls : q # p => call'[q] = call[q]
  <1>1. call[p] \in CreditWriteCall
    BY CallShape DEF AccrualWrite
  <1>2. PICK v \in Users, m \in Months, z \in Years, gained \in Nat :
          v = call[p].user /\ m = call[p].month /\ z = YearOfMonth(m) /\ gained = call[p].accrued
    BY <1>1, CalendarTypes DEF CreditWriteCall
  <1>3. balance' = [balance EXCEPT ![v][z].accrued = gained]
    BY <1>2 DEF AccrualWrite
  <1>4. PICK next : Become(p, next) /\ next.at \in {"idle", "accrue"}
    BY DEF AccrualWrite, NextStaff, Idle
  <1>5. call'[p].at \in {"idle", "accrue"} /\ \A q \in Calls : q # p => call'[q] = call[q]
    BY <1>4 DEF Become, TypeOK
  <1>6. \A u \in Users, y \in Years :
          /\ u # v \/ y # z => balance'[u][y] = balance[u][y]
          /\ balance'[u][y].exists = balance[u][y].exists
          /\ balance'[u][y].used = balance[u][y].used
    BY <1>3 DEF TypeOK, BalanceRow
  <1>7. balance'[v][z].accrued = gained
    BY <1>3 DEF TypeOK, BalanceRow
  <1>8. Crediting(p)
    BY DEF AccrualWrite, Crediting
  <1> QED
    BY <1>2, <1>5, <1>6, <1>7, <1>8

\* The kinds of steps.
Decides(p) == DecideCheck(p) \/ DecideSplit(p) \/ DecideClaim(p)

LEMMA StepsAre ==
  ASSUME TypeOK, [Next]_vars
  PROVE  \/ Modest
         \/ \E p \in Calls : Decides(p) \/ ChargeBalance(p) \/ AccrualRead(p) \/ AccrualWrite(p)
  <1>1. CASE Environment \/ UNCHANGED vars
    BY <1>1, ModestRest
  <1>2. ASSUME NEW p \in Calls,
               \/ EmployeeStep(p) \/ ApproverStep(p) \/ AdminStep(p)
               \/ FinanceStep(p) \/ JobStep(p) \/ Fail(p)
        PROVE  Modest \/ Decides(p) \/ ChargeBalance(p) \/ AccrualRead(p) \/ AccrualWrite(p)
    BY <1>2, ModestCalls DEF ApproverStep, JobStep, Decides
  <1> QED
    BY <1>1, <1>2 DEF Next

LEMMA DecidesReads ==
  ASSUME TypeOK, NEW p \in Calls, Decides(p)
  PROVE  /\ UNCHANGED <<balance, today>> /\ p \in ApproverCalls
         /\ \A q \in Calls : q # p => call'[q] = call[q]
         /\ call'[p].at \in {"idle", "split", "claim", "charge"}
  <1>1. UNCHANGED <<balance, today>> /\ p \in ApproverCalls
    BY DEF Decides, DecideCheck, DecideSplit, DecideClaim, database, counters
  <1>2. PICK next : Become(p, next) /\ next.at \in {"idle", "split", "claim", "charge"}
    <2>1. CASE DecideCheck(p)
      BY <2>1 DEF DecideCheck
    <2>2. CASE DecideSplit(p)
      BY <2>2 DEF DecideSplit
    <2>3. CASE DecideClaim(p)
      BY <2>3 DEF DecideClaim, Idle
    <2> QED
      BY <2>1, <2>2, <2>3 DEF Decides
  <1> QED
    BY <1>1, <1>2 DEF Become, TypeOK

LEMMA ChargesOnly ==
  ASSUME TypeOK, NEW p \in Calls, ChargeBalance(p)
  PROVE  \E u \in Users, days \in Nat :
           /\ u = Owner[call[p].request] /\ days = call[p].days /\ ApplyUsage(u, days)
           /\ call[p].at = "charge" /\ call'[p].at = "chargeRow" /\ p \in ApproverCalls
           /\ UNCHANGED today /\ \A q \in Calls : q # p => call'[q] = call[q]
  <1>1. PICK c \in ChargeCall : c = call[p]
    BY CallShape DEF ChargeBalance
  <1>2. c.days \in Nat /\ Owner[c.request] \in Users
    BY PeopleAssumption DEF ChargeCall
  <1>3. call'[p] = [c EXCEPT !.at = "chargeRow"] /\ \A q \in Calls : q # p => call'[q] = call[q]
    BY <1>1 DEF ChargeBalance, Become, TypeOK
  <1>4. call'[p].at = "chargeRow"
    BY <1>3 DEF ChargeCall
  <1>5. /\ ApplyUsage(Owner[c.request], c.days) /\ call[p].at = "charge" /\ p \in ApproverCalls
        /\ UNCHANGED today
    BY <1>1 DEF ChargeBalance, counters
  <1> QED
    BY <1>1, <1>2, <1>3, <1>4, <1>5
\* Rows are never deleted, and a credit sees to its row before it writes.
LEMMA RowsStay ==
  ASSUME TypeOK, RowsFit, [Next]_vars
  PROVE  RowsFit'
  <1>1. ASSUME \A u \in Users, y \in Years :
                 /\ balance[u][y].exists => balance'[u][y].exists
                 /\ ~ balance'[u][y].exists => balance'[u][y] = balance[u][y],
               \A p \in Calls : call'[p].at = "creditWrite" =>
                 \/ call'[p] = call[p]
                 \/ balance'[call'[p].user][YearOfMonth(call'[p].month)].exists
        PROVE  RowsFit'
    <2>1. ASSUME NEW p \in Calls, call'[p].at = "creditWrite"
          PROVE  balance'[call'[p].user][YearOfMonth(call'[p].month)].exists
      <3>1. CASE call'[p] = call[p]
        <4>1. call[p] \in CreditWriteCall
          BY <2>1, <3>1, CallShape
        <4>2. call[p].user \in Users /\ YearOfMonth(call[p].month) \in Years
          BY <4>1, CalendarTypes DEF CreditWriteCall
        <4> QED
          BY <1>1, <2>1, <3>1, <4>2 DEF RowsFit, Crediting
      <3> QED
        BY <1>1, <2>1, <3>1
    <2>2. \A u \in Users, y \in Years :
            ~ balance'[u][y].exists => balance'[u][y].accrued = 0 /\ balance'[u][y].used = 0
      BY <1>1 DEF RowsFit
    <2> QED
      BY <2>1, <2>2 DEF RowsFit, Crediting
  <1>2. ASSUME NEW u \in Users, NEW days \in Int, ApplyUsage(u, days),
               \A p \in Calls : call'[p].at = "creditWrite" => call'[p] = call[p]
        PROVE  RowsFit'
    BY <1>1, <1>2, UsageMoves
  <1>3. CASE Modest
    <2>1. \A p \in Calls : call'[p].at = "creditWrite" => call'[p] = call[p]
      BY <1>3 DEF Modest
    <2>2. CASE UNCHANGED balance
      BY <1>1, <2>1, <2>2
    <2>3. ASSUME NEW u \in Users, NEW d \in Nat, ApplyUsage(u, - d)
          PROVE  RowsFit'
      BY <1>2, <2>1, <2>3
    <2> QED
      BY <1>3, <2>2, <2>3 DEF Modest
  <1>4. ASSUME NEW p \in Calls, Decides(p)
        PROVE  RowsFit'
    BY <1>1, <1>4, DecidesReads
  <1>5. ASSUME NEW p \in Calls, ChargeBalance(p)
        PROVE  RowsFit'
    <2>1. PICK u \in Users, days \in Nat :
            /\ ApplyUsage(u, days) /\ call'[p].at = "chargeRow"
            /\ \A q \in Calls : q # p => call'[q] = call[q]
      BY <1>5, ChargesOnly
    <2> QED
      BY <1>2, <2>1
  <1>6. ASSUME NEW p \in Calls, AccrualRead(p)
        PROVE  RowsFit'
    BY <1>1, <1>6, ReadMoves
  <1>7. ASSUME NEW p \in Calls, AccrualWrite(p)
        PROVE  RowsFit'
    <2>1. PICK v \in Users, z \in Years :
            /\ balance[v][z].exists
            /\ \A u \in Users, y \in Years :
                 /\ u # v \/ y # z => balance'[u][y] = balance[u][y]
                 /\ balance'[u][y].exists = balance[u][y].exists
            /\ call'[p].at \in {"idle", "accrue"}
            /\ \A q \in Calls : q # p => call'[q] = call[q]
      BY <1>7, WriteMoves DEF RowsFit
    <2> QED
      BY <1>1, <2>1
  <1> QED
    BY <1>3, <1>4, <1>5, <1>6, <1>7, StepsAre

\* A credit adds to what it read, and nobody else adds to that meanwhile.
LEMMA CreditsStay ==
  ASSUME TypeOK, RowsFit, AccrualInv, OneCredit, CreditsGrow, [Next]_vars
  PROVE  CreditsGrow'
  <1>1. ASSUME \A u \in Users, y \in Years : balance[u][y].exists =>
                 balance'[u][y].accrued = balance[u][y].accrued,
               NEW p \in Calls, call'[p].at = "creditWrite", call'[p] = call[p]
        PROVE  balance'[call'[p].user][YearOfMonth(call'[p].month)].accrued <= call'[p].accrued
    <2>1. call[p] \in CreditWriteCall
      BY <1>1, CallShape
    <2>2. call[p].user \in Users /\ YearOfMonth(call[p].month) \in Years
      BY <2>1, CalendarTypes DEF CreditWriteCall
    <2> QED
      BY <1>1, <2>2 DEF RowsFit, CreditsGrow, Crediting
  <1>2. CASE Modest
    <2>1. \A p \in Calls : call'[p].at = "creditWrite" => call'[p] = call[p]
      BY <1>2 DEF Modest
    <2>2. \A u \in Users, y \in Years : balance[u][y].exists =>
            balance'[u][y].accrued = balance[u][y].accrued
      BY <1>2, UsageMoves DEF Modest
    <2> QED
      BY <1>1, <2>1, <2>2 DEF CreditsGrow, Crediting
  <1>3. ASSUME NEW p \in Calls, Decides(p)
        PROVE  CreditsGrow'
    BY <1>1, <1>3, DecidesReads DEF CreditsGrow, Crediting
  <1>4. ASSUME NEW p \in Calls, ChargeBalance(p)
        PROVE  CreditsGrow'
    <2>1. PICK v \in Users, days \in Nat :
            /\ ApplyUsage(v, days) /\ call'[p].at = "chargeRow"
            /\ \A q \in Calls : q # p => call'[q] = call[q]
      BY <1>4, ChargesOnly
    <2>2. \A u \in Users, y \in Years : balance[u][y].exists =>
            balance'[u][y].accrued = balance[u][y].accrued
      BY <2>1, UsageMoves
    <2> QED
      BY <1>1, <2>1, <2>2 DEF CreditsGrow, Crediting
  <1>5. ASSUME NEW p \in Calls, AccrualRead(p)
        PROVE  CreditsGrow'
    <2>1. PICK v \in Users, z \in Years :
            /\ \A u \in Users, y \in Years : balance'[u][y].accrued = balance[u][y].accrued
            /\ call'[p].user = v /\ YearOfMonth(call'[p].month) = z
            /\ call'[p].accrued = Credited(balance[v][z].accrued)
            /\ \A q \in Calls : q # p => call'[q] = call[q]
      BY <1>5, ReadMoves
    <2>2. PICK accrued \in Nat : accrued = balance[v][z].accrued
      BY DEF TypeOK, BalanceRow
    <2>3. accrued <= Credited(accrued)
      <3>1. accrued <= Cap
        BY <2>2 DEF AccrualInv, Covered
      <3> QED
        BY <3>1, QuantityAssumption DEF Credited
    <2>4. balance'[call'[p].user][YearOfMonth(call'[p].month)].accrued <= call'[p].accrued
      BY <2>1, <2>2, <2>3
    <2> QED
      BY <1>1, <2>1, <2>4 DEF CreditsGrow, Crediting
  <1>6. ASSUME NEW p \in Calls, AccrualWrite(p)
        PROVE  CreditsGrow'
    <2>1. /\ Crediting(p) /\ call'[p].at \in {"idle", "accrue"}
          /\ \A q \in Calls : q # p => call'[q] = call[q]
      BY <1>6, WriteMoves
    <2>2. \A q \in Calls : call'[q].at # "creditWrite"
      BY <2>1 DEF OneCredit, Crediting
    <2> QED
      BY <2>2 DEF CreditsGrow, Crediting
  <1> QED
    BY <1>2, <1>3, <1>4, <1>5, <1>6, StepsAre
\* A step that takes nothing from any balance, and takes no call to a claim or a charge.
LEMMA NothingSpent ==
  ASSUME TypeOK, TypeOK', WithinInv, YearHolds,
         \A u \in Users, y \in Years :
           balance[u][y].accrued - balance[u][y].used
             <= balance'[u][y].accrued - balance'[u][y].used,
         \A p \in Calls : call'[p].at \in {"claim", "charge"} =>
           call'[p] = call[p] \/ (call'[p].at = "claim" /\ call'[p].verdict = "REJECTED")
  PROVE  WithinInv'
  <1>1. /\ \A u \in Users, y \in Years :
             balance[u][y].accrued \in Nat /\ balance[u][y].used \in Int
        /\ \A u \in Users, y \in Years :
             balance'[u][y].accrued \in Nat /\ balance'[u][y].used \in Int
    BY DEF TypeOK, BalanceRow
  <1>2. \A u \in Users, y \in Years : balance'[u][y].used <= balance'[u][y].accrued
    BY <1>1 DEF WithinInv, NeverOverdrawn
  <1>3. ASSUME NEW p \in Calls, Approving(p)'
        PROVE  call'[p] = call[p] /\ YearOf(today') = YearOf(today) /\ CallFits(call[p])
    BY <1>3 DEF Approving, YearHolds, WithinInv, CallsFit
  <1>4. ASSUME NEW u \in Users, NEW days \in Nat, NEW z \in Years,
               days = 0 \/ days <= balance[u][z].accrued - balance[u][z].used
        PROVE  days = 0 \/ days <= balance'[u][z].accrued - balance'[u][z].used
    BY <1>1, <1>4
  <1>5. PICK z \in Years : z = YearOf(today)
    BY CalendarTypes DEF TypeOK
  <1>6. ASSUME NEW p \in Calls, call'[p].at = "claim", call'[p].verdict = "APPROVED"
        PROVE  \/ call'[p].paid = 0
               \/ call'[p].paid <= balance'[Owner[call'[p].request]][YearOf(today')].accrued
                                     - balance'[Owner[call'[p].request]][YearOf(today')].used
    <2>1. /\ call'[p] = call[p] /\ YearOf(today') = z
          /\ \/ call[p].paid = 0
             \/ call[p].paid <= balance[Owner[call[p].request]][z].accrued
                                  - balance[Owner[call[p].request]][z].used
      BY <1>3, <1>5, <1>6 DEF Approving, CallFits, Spendable, Left
    <2>2. call[p] \in ClaimCall
      BY <1>6, <2>1, CallShape
    <2>3. call[p].paid \in Nat /\ Owner[call[p].request] \in Users
      BY <2>2, PeopleAssumption DEF ClaimCall
    <2> QED
      BY <1>4, <2>1, <2>3
  <1>7. ASSUME NEW p \in Calls, call'[p].at = "charge"
        PROVE  \/ call'[p].days = 0
               \/ call'[p].days <= balance'[Owner[call'[p].request]][YearOf(today')].accrued
                                     - balance'[Owner[call'[p].request]][YearOf(today')].used
    <2>1. /\ call'[p] = call[p] /\ YearOf(today') = z
          /\ \/ call[p].days = 0
             \/ call[p].days <= balance[Owner[call[p].request]][z].accrued
                                  - balance[Owner[call[p].request]][z].used
      BY <1>3, <1>5, <1>7 DEF Approving, CallFits, Spendable, Left
    <2>2. call[p] \in ChargeCall
      BY <1>7, <2>1, CallShape
    <2>3. call[p].days \in Nat /\ Owner[call[p].request] \in Users
      BY <2>2, PeopleAssumption DEF ChargeCall
    <2> QED
      BY <1>4, <2>1, <2>3
  <1> QED
    BY <1>2, <1>6, <1>7 DEF WithinInv, NeverOverdrawn, CallsFit, CallFits, Spendable, Left
\* decide splits against what is left now, and claims and charges what it split.
LEMMA DecidesWithin ==
  ASSUME TypeOK, TypeOK', WithinInv, NEW p \in Calls, Decides(p)
  PROVE  WithinInv'
  <1>1. /\ UNCHANGED <<balance, today>> /\ \A q \in Calls : q # p => call'[q] = call[q]
        /\ call'[p].at \in {"idle", "split", "claim", "charge"}
    BY DecidesReads
  <1>2. NeverOverdrawn'
    BY <1>1 DEF WithinInv, NeverOverdrawn
  <1>3. ASSUME NEW next, Become(p, next), CallFits(next)
        PROVE  CallsFit'
    <2>1. \A q \in Calls : CallFits(call'[q])
      BY <1>1, <1>3 DEF Become, TypeOK, WithinInv, CallsFit
    <2> QED
      BY <1>1, <2>1 DEF CallsFit, CallFits, Spendable, Left
  <1>4. CASE DecideCheck(p)
    <2>1. PICK next : /\ Become(p, next)
                      /\ next.at = "split" \/ (next.at = "claim" /\ next.verdict = "REJECTED")
      BY <1>4 DEF DecideCheck
    <2> QED
      BY <1>2, <1>3, <2>1 DEF CallFits, WithinInv
  <1>5. CASE DecideSplit(p)
    <2>1. PICK c \in SplitCall : c = call[p]
      BY <1>5, CallShape DEF DecideSplit
    <2>2. PICK u, total, type : /\ u \in Users /\ u = Owner[c.request]
                                /\ total = c.total /\ type = request[c.request].type
      BY <2>1, PeopleAssumption DEF SplitCall
    <2>3. PICK next : /\ Become(p, next) /\ next.at = "claim" /\ next.request = c.request
                      /\ next.paid = PaidPart(type, total, u)
      BY <1>5, <2>1, <2>2 DEF DecideSplit
    <2>4. PICK left \in Int : left = Available(u) /\ left = Left(u, YearOf(today))
      <3>1. YearOf(today) \in Years
        BY CalendarTypes DEF TypeOK
      <3> QED
        BY <2>2, <3>1 DEF Available, Left, TypeOK, BalanceRow
    <2>5. PaidPart(type, total, u) = 0 \/ PaidPart(type, total, u) <= left
      BY <2>4 DEF PaidPart
    <2>6. CallFits(next)
      BY <2>2, <2>3, <2>4, <2>5 DEF CallFits, Spendable
    <2> QED
      BY <1>2, <1>3, <2>3, <2>6 DEF WithinInv
  <1>6. CASE DecideClaim(p)
    <2>1. PICK c : c = call[p] /\ c.at = "claim" /\ CallFits(c)
      BY <1>6 DEF DecideClaim, WithinInv, CallsFit
    <2>2. PICK next : /\ Become(p, next)
                      /\ \/ next = Idle
                         \/ /\ next = [at |-> "charge", request |-> c.request, days |-> c.paid]
                            /\ c.verdict = "APPROVED"
      BY <1>6, <2>1 DEF DecideClaim
    <2>3. CallFits(next)
      BY <2>1, <2>2 DEF CallFits, Idle
    <2> QED
      BY <1>2, <1>3, <2>2, <2>3 DEF WithinInv
  <1> QED
    BY <1>4, <1>5, <1>6 DEF Decides

\* The charge takes what the split left for it: nobody else is on their way to one.
LEMMA ChargeWithin ==
  ASSUME TypeOK, TypeOK', RowsFit, OneApproval, WithinInv, NEW p \in Calls, ChargeBalance(p)
  PROVE  WithinInv'
  <1>1. PICK v \in Users, days \in Nat :
          /\ v = Owner[call[p].request] /\ days = call[p].days /\ ApplyUsage(v, days)
          /\ call[p].at = "charge" /\ call'[p].at = "chargeRow"
          /\ \A q \in Calls : q # p => call'[q] = call[q]
    BY ChargesOnly
  <1>2. PICK z : z = YearOf(today)
    OBVIOUS
  <1>3. /\ z \in Years
        /\ \A u \in Users, y \in Years : u # v \/ y # z => balance'[u][y] = balance[u][y]
        /\ balance[v][z].exists => /\ balance'[v][z].accrued = balance[v][z].accrued
                                   /\ balance'[v][z].used = balance[v][z].used + days
        /\ ~ balance[v][z].exists =>
             balance'[v][z].accrued = 0 /\ balance'[v][z].used = NonNegative(days)
    BY <1>1, <1>2, UsageMoves
  <1>4. PICK accrued \in Nat, used \in Int :
          accrued = balance[v][z].accrued /\ used = balance[v][z].used
    BY <1>3 DEF TypeOK, BalanceRow
  <1>5. days = 0 \/ days <= accrued - used
    BY <1>1, <1>2, <1>4 DEF WithinInv, CallsFit, CallFits, Spendable, Left
  <1>6. used <= accrued
    BY <1>3, <1>4 DEF WithinInv, NeverOverdrawn
  <1>7. ~ balance[v][z].exists => accrued = 0 /\ used = 0
    BY <1>3, <1>4 DEF RowsFit
  <1>8. balance'[v][z].used <= balance'[v][z].accrued
    BY <1>3, <1>4, <1>5, <1>6, <1>7
  <1>9. NeverOverdrawn'
    BY <1>3, <1>8 DEF WithinInv, NeverOverdrawn
  <1>10. \A q \in Calls : ~ Approving(q)'
    BY <1>1 DEF OneApproval, Approving
  <1> QED
    BY <1>9, <1>10 DEF WithinInv, CallsFit, CallFits, Approving

LEMMA WithinStays ==
  ASSUME TypeOK, TypeOK', RowsFit, CreditsGrow, OneApproval, YearHolds, WithinInv, [Next]_vars
  PROVE  WithinInv'
  <1>1. /\ \A u \in Users, y \in Years :
             balance[u][y].accrued \in Nat /\ balance[u][y].used \in Int
        /\ \A u \in Users, y \in Years :
             balance'[u][y].accrued \in Nat /\ balance'[u][y].used \in Int
    BY DEF TypeOK, BalanceRow
  <1>2. CASE Modest
    <2>1. ASSUME NEW v \in Users, NEW d \in Nat, ApplyUsage(v, - d),
                 NEW u \in Users, NEW y \in Years
          PROVE  balance[u][y].accrued - balance[u][y].used
                   <= balance'[u][y].accrued - balance'[u][y].used
      <3>1. PICK z \in Years : z = YearOf(today)
        BY CalendarTypes DEF TypeOK
      <3>2. /\ u # v \/ y # z => balance'[u][y] = balance[u][y]
            /\ balance[v][z].exists => /\ balance'[v][z].accrued = balance[v][z].accrued
                                       /\ balance'[v][z].used = balance[v][z].used + (- d)
            /\ ~ balance[v][z].exists =>
                 balance'[v][z].accrued = 0 /\ balance'[v][z].used = NonNegative(- d)
        BY <2>1, <3>1, UsageMoves
      <3>3. ~ balance[v][z].exists => balance[v][z].accrued = 0 /\ balance[v][z].used = 0
        BY DEF RowsFit
      <3>4. CASE u # v \/ y # z
        BY <1>1, <3>2, <3>4
      <3>5. CASE u = v /\ y = z
        <4>1. PICK accrued \in Nat, used \in Int :
                accrued = balance[v][z].accrued /\ used = balance[v][z].used
          BY <1>1
        <4>2. \/ balance'[v][z].accrued = accrued /\ balance'[v][z].used = used - d
              \/ /\ balance'[v][z].accrued = 0 /\ balance'[v][z].used = 0
                 /\ accrued = 0 /\ used = 0
          BY <3>2, <3>3, <4>1
        <4>3. PICK after, taken : after = balance'[v][z].accrued /\ taken = balance'[v][z].used
          OBVIOUS
        <4>4. \/ after = accrued /\ taken = used - d
              \/ after = 0 /\ taken = 0 /\ accrued = 0 /\ used = 0
          BY <4>2, <4>3
        <4>5. accrued - used <= after - taken
          BY <4>4
        <4> QED
          BY <3>5, <4>1, <4>3, <4>5
      <3> QED
        BY <3>4, <3>5
    <2>2. \A u \in Users, y \in Years : balance[u][y].accrued - balance[u][y].used
                                          <= balance'[u][y].accrued - balance'[u][y].used
      <3>1. CASE UNCHANGED balance
        BY <1>1, <3>1
      <3>2. ASSUME NEW v \in Users, NEW d \in Nat, ApplyUsage(v, - d)
            PROVE  \A u \in Users, y \in Years : balance[u][y].accrued - balance[u][y].used
                                                  <= balance'[u][y].accrued - balance'[u][y].used
        BY <2>1, <3>2
      <3> QED
        BY <1>2, <3>1, <3>2 DEF Modest
    <2> QED
      BY <1>2, <2>2, NothingSpent DEF Modest
  <1>3. ASSUME NEW p \in Calls, AccrualRead(p)
        PROVE  WithinInv'
    <2>1. /\ \A u \in Users, y \in Years :
               /\ balance'[u][y].accrued = balance[u][y].accrued
               /\ balance'[u][y].used = balance[u][y].used
          /\ call'[p].at = "creditWrite"
          /\ \A q \in Calls : q # p => call'[q] = call[q]
      BY <1>3, ReadMoves
    <2>2. \A u \in Users, y \in Years : balance[u][y].accrued - balance[u][y].used
                                          <= balance'[u][y].accrued - balance'[u][y].used
      BY <1>1, <2>1
    <2> QED
      BY <2>1, <2>2, NothingSpent
  <1>4. ASSUME NEW p \in Calls, AccrualWrite(p)
        PROVE  WithinInv'
    <2>1. PICK v \in Users, z \in Years :
            /\ call[p].user = v /\ YearOfMonth(call[p].month) = z /\ Crediting(p)
            /\ \A u \in Users, y \in Years :
                 /\ u # v \/ y # z => balance'[u][y] = balance[u][y]
                 /\ balance'[u][y].used = balance[u][y].used
            /\ balance'[v][z].accrued = call[p].accrued
            /\ call'[p].at \in {"idle", "accrue"}
            /\ \A q \in Calls : q # p => call'[q] = call[q]
      BY <1>4, WriteMoves
    <2>2. balance[v][z].accrued <= balance'[v][z].accrued
      BY <2>1 DEF CreditsGrow
    <2>3. \A u \in Users, y \in Years : balance[u][y].accrued - balance[u][y].used
                                          <= balance'[u][y].accrued - balance'[u][y].used
      BY <1>1, <2>1, <2>2
    <2> QED
      BY <2>1, <2>3, NothingSpent
  <1> QED
    BY <1>2, <1>3, <1>4, DecidesWithin, ChargeWithin, StepsAre
\* decide, applyUsage and runAccrual: while one approval and one credit at a time are under way
\* and no leave year begins within an approval, the balance check at approval keeps everybody's
\* used days within the accrued ones, whoever asks, cancels, escalates, adds holidays or dies.
THEOREM BalancesStayWithin ==
  Spec /\ []OneApproval /\ []OneCredit /\ [][YearHolds]_vars => []NeverOverdrawn
  <1> DEFINE Inv == RowsFit /\ CreditsGrow /\ WithinInv
  <1>1. Init => Inv
    BY DEF Init, Idle, RowsFit, Crediting, CreditsGrow, WithinInv, NeverOverdrawn, CallsFit,
           CallFits
  <1>2. TypeOK /\ TypeOK' /\ AccrualInv /\ OneApproval /\ OneCredit /\ Inv
          /\ [Next]_vars /\ [YearHolds]_vars => Inv'
    <2> SUFFICES ASSUME TypeOK, TypeOK', AccrualInv, OneApproval, OneCredit, Inv,
                        [Next]_vars, [YearHolds]_vars
                 PROVE  Inv'
      OBVIOUS
    <2>1. YearHolds
      BY DEF YearHolds, vars
    <2> QED
      BY <2>1, RowsStay, CreditsStay, WithinStays
  <1>3. Inv => NeverOverdrawn
    BY DEF WithinInv
  <1> HIDE DEF Inv
  <1>4. Spec => []TypeOK
    BY TypeCorrect
  <1>5. Spec => []AccrualInv
    BY AccrualInitially, AccrualStep, TypeCorrect, PTL DEF Spec
  <1> QED
    BY <1>1, <1>2, <1>3, <1>4, <1>5, PTL DEF Spec

-----------------------------------------------------------------------------
\* ... and in the instance of the run LeaveBooks

\* Who is on the way to a charge, and who to a credit.
Placed ==
  /\ \A p \in Calls : call[p].at \in {"split", "claim", "charge"} => p \in ApproverCalls
  /\ \A p \in Calls : Crediting(p) => p \in JobCalls

\* Nobody decides, and nothing is used yet.
Quiet ==
  /\ \A p \in Calls : call[p].at \notin {"split", "claim", "charge"}
  /\ \A u \in Users, y \in Years : balance[u][y].used <= 0

LEMMA PlacedStays ==
  ASSUME TypeOK, Placed, [Next]_vars
  PROVE  Placed'
  <1>1. CASE Modest
    BY <1>1 DEF Modest, Placed, Crediting
  <1>2. ASSUME NEW p \in Calls, Decides(p)
        PROVE  Placed'
    BY <1>2, DecidesReads DEF Placed, Crediting
  <1>3. ASSUME NEW p \in Calls, ChargeBalance(p)
        PROVE  Placed'
    BY <1>3, ChargesOnly DEF Placed, Crediting
  <1>4. ASSUME NEW p \in Calls, AccrualRead(p)
        PROVE  Placed'
    <2>1. p \in JobCalls
      BY <1>4 DEF AccrualRead
    <2> QED
      BY <1>4, <2>1, ReadMoves DEF Placed, Crediting
  <1>5. ASSUME NEW p \in Calls, AccrualWrite(p)
        PROVE  Placed'
    BY <1>5, WriteMoves DEF Placed, Crediting
  <1> QED
    BY <1>1, <1>2, <1>3, <1>4, <1>5, StepsAre

\* Before the first request there is nothing to decide.
LEMMA QuietStays ==
  ASSUME TypeOK, Quiet, Filed = {}, [Next]_vars
  PROVE  Quiet'
  <1>1. CASE Modest
    <2>1. \A p \in Calls : call'[p].at \notin {"split", "claim", "charge"}
      BY <1>1 DEF Modest, Quiet
    <2>2. ASSUME NEW v \in Users, NEW d \in Nat, ApplyUsage(v, - d),
                 NEW u \in Users, NEW y \in Years
          PROVE  balance'[u][y].used <= 0
      <3>1. PICK z \in Years : z = YearOf(today)
        BY CalendarTypes DEF TypeOK
      <3>2. PICK used \in Int : used = balance[v][z].used /\ used <= 0
        BY DEF TypeOK, BalanceRow, Quiet
      <3>3. /\ u # v \/ y # z => balance'[u][y] = balance[u][y]
            /\ \/ balance'[v][z].used = used + (- d)
               \/ balance'[v][z].used = NonNegative(- d)
        BY <2>2, <3>1, <3>2, UsageMoves
      <3>4. used + (- d) <= 0 /\ NonNegative(- d) <= 0
        BY <3>2
      <3>5. balance'[v][z].used <= 0
        BY <3>3, <3>4
      <3> QED
        BY <3>3, <3>5 DEF Quiet
    <2> QED
      BY <1>1, <2>1, <2>2 DEF Modest, Quiet
  <1>2. ASSUME NEW p \in Calls
        PROVE  ~ Decides(p) /\ ~ ChargeBalance(p)
    BY DEF Decides, DecideCheck, DecideSplit, DecideClaim, ChargeBalance, Quiet, Filed
  <1>3. ASSUME NEW p \in Calls, AccrualRead(p)
        PROVE  Quiet'
    BY <1>3, ReadMoves DEF Quiet
  <1>4. ASSUME NEW p \in Calls, AccrualWrite(p)
        PROVE  Quiet'
    BY <1>4, WriteMoves DEF Quiet
  <1> QED
    BY <1>1, <1>2, <1>3, <1>4, StepsAre

\* A request that is filed stays filed.
LEMMA FiledStays ==
  ASSUME TypeOK, TypeOK', DecisionInv, [Next]_vars, Filed # {}
  PROVE  (Filed # {})'
  <1>1. PICK r \in Requests : request[r].status # "none"
    BY DEF Filed
  <1>2. CASE Neutral
    BY <1>1, <1>2 DEF Neutral, Filed
  <1>3. ASSUME NEW p \in Calls, DecideClaim(p)
        PROVE  request'[r].status # "none"
    <2>1. PICK c \in ClaimCall : c = call[p]
      BY <1>3, CallShape DEF DecideClaim
    <2>2. PICK row : /\ row = [request[c.request] EXCEPT !.status = c.verdict, !.reviewer = c.caller,
                                 !.paid = c.paid, !.unpaid = c.unpaid, !.approver = NoOne]
                     /\ request' \in {request, [request EXCEPT ![c.request] = row]}
      BY <1>3, <2>1 DEF DecideClaim
    <2>3. c.verdict # "none" /\ request[c.request] \in RequestRow /\ c.request \in Requests
      BY <2>1 DEF ClaimCall, TypeOK
    <2>4. row.status = c.verdict
      BY <2>2, <2>3 DEF RequestRow
    <2>5. \A s \in Requests : request'[s] = request[s] \/ request'[s] = row
      BY <2>2 DEF TypeOK
    <2> QED
      BY <1>1, <2>3, <2>4, <2>5
  <1>4. ASSUME NEW p \in Calls, ChargeRow(p)
        PROVE  request' = request
    BY <1>4 DEF ChargeRow
  <1> QED
    BY <1>1, <1>2, <1>3, <1>4, StepShape DEF Filed

\* The one month on the ledger is the one a credit is still to pay for.
LEMMA FirstCreditGrows ==
  ASSUME TypeOK, AccrualInv, Cardinality(Accruals) <= 1
  PROVE  CreditsGrow
  <1> SUFFICES ASSUME NEW p \in Calls, Crediting(p)
               PROVE  balance[call[p].user][YearOfMonth(call[p].month)].accrued <= call[p].accrued
    BY DEF CreditsGrow
  <1>1. call[p] \in CreditWriteCall
    BY CallShape DEF Crediting
  <1>2. PICK v \in Users, m \in Months, z \in Years :
          v = call[p].user /\ m = call[p].month /\ z = YearOfMonth(m)
    BY <1>1, CalendarTypes DEF CreditWriteCall
  <1>3. Owes(p, v, m)
    BY <1>2 DEF Owes, Crediting
  <1>4. KeyTaken(v, "ACCRUAL", m) /\ m \in Owed(v)
    BY <1>3 DEF AccrualInv, Owed
  <1>5. \A i, j \in Accruals : i = j
    <2>1. IsFiniteSet(DOMAIN ledger)
      BY FS_Interval DEF TypeOK
    <2>2. IsFiniteSet(Accruals)
      BY <2>1, FS_Subset DEF Accruals
    <2>3. Cardinality(Accruals) \in {0, 1}
      BY <2>2, FS_CardinalityType
    <2> QED
      BY <2>2, <2>3, FS_EmptySet, FS_Singleton
  <1>6. Settled(v, z) = {}
    <2>1. ASSUME NEW n \in MonthsAccrued(v, z)
          PROVE  n = m
      <3>1. KeyTaken(v, "ACCRUAL", n)
        BY <2>1, AccruedMonth
      <3> QED
        BY <1>4, <1>5, <3>1 DEF KeyTaken, Accruals
    <2> QED
      BY <1>4, <2>1 DEF Settled
  <1>7. balance[v][z].accrued <= PerMonth * 0
    BY <1>6, FS_EmptySet DEF AccrualInv, Covered
  <1>8. balance[v][z].accrued \in Nat /\ call[p].accrued \in Nat
    BY <1>1 DEF TypeOK, BalanceRow, CreditWriteCall
  <1>9. PerMonth * 0 = 0
    BY QuantityAssumption
  <1> QED
    BY <1>2, <1>7, <1>8, <1>9

\* What the run LeaveBooks keeps in "booking", and why that is enough.
Booked ==
  /\ RowsFit
  /\ Placed
  /\ mode = "booking" =>
       /\ OnlyOneOf(ApproverCalls, a1)
       /\ Filed # {} => OneAccrual
       /\ Filed = {} => Quiet
       /\ WithinInv

LEMMA BookedStays ==
  ASSUME TypeOK, TypeOK', AccrualInv, DecisionInv, Booked, YearHolds, [MCNext]_<<vars, mode>>
  PROVE  Booked'
  <1>1. [Next]_vars /\ mode' = mode
    BY DEF MCNext
  <1>2. RowsFit' /\ Placed'
    BY <1>1, RowsStay, PlacedStays DEF Booked
  <1>3. CASE mode = "booking"
    <2>1. OnlyOneOf(ApproverCalls, a1)' /\ (Filed # {} => OneAccrual)'
      <3>1. CASE MCNext
        BY <1>3, <3>1 DEF MCNext, InBooking
      <3>2. CASE UNCHANGED <<vars, mode>>
        BY <1>3, <3>2 DEF Booked, vars, OnlyOneOf, Filed, OneAccrual, Accruals
      <3> QED
        BY <3>1, <3>2
    <2>2. CASE Filed = {}
      <3>1. Quiet'
        BY <1>1, <1>3, <2>2, QuietStays DEF Booked
      <3>2. NeverOverdrawn'
        BY <3>1 DEF Quiet, NeverOverdrawn, TypeOK, BalanceRow
      <3>3. WithinInv'
        BY <3>1, <3>2 DEF Quiet, WithinInv, CallsFit, CallFits
      <3> QED
        BY <1>1, <1>2, <2>1, <3>1, <3>3 DEF Booked
    <2>3. CASE Filed # {}
      <3>1. OneApproval
        BY <1>3 DEF Booked, Placed, OneApproval, Approving, OnlyOneOf
      <3>2. CreditsGrow
        BY <1>3, <2>3, FirstCreditGrows DEF Booked, OneAccrual
      <3>3. WithinInv'
        BY <1>1, <1>3, <3>1, <3>2, WithinStays DEF Booked
      <3>4. (Filed # {})'
        BY <1>1, <2>3, FiledStays
      <3> QED
        BY <1>1, <1>2, <2>1, <3>3, <3>4 DEF Booked
    <2> QED
      BY <2>2, <2>3
  <1> QED
    BY <1>1, <1>2, <1>3 DEF Booked

\* decide: while one approver works, the split they make is against the balance they charge, so
\* no balance of the run LeaveBooks is overdrawn: with any staff and calls, any horizon and any
\* quota, unless a leave year begins within an approval.
THEOREM OneApproverBooks == MCSpec /\ [][YearHolds]_vars => []OneApproverStaysWithin
  <1>1. MCInit => Booked
    <2> SUFFICES ASSUME Init PROVE Booked
      BY DEF MCInit
    <2>1. \A p \in Calls : call[p].at = "idle"
      BY DEF Init, Idle
    <2>2. RowsFit /\ Placed /\ OnlyOneOf(ApproverCalls, a1)
      BY <2>1 DEF Init, RowsFit, Placed, Crediting, OnlyOneOf, Calls
    <2>3. Filed = {} /\ Quiet
      BY <2>1 DEF Init, Filed, Quiet
    <2>4. WithinInv
      BY <2>1 DEF Init, WithinInv, NeverOverdrawn, CallsFit, CallFits
    <2> QED
      BY <2>2, <2>3, <2>4 DEF Booked
  <1>2. TypeOK /\ TypeOK' /\ AccrualInv /\ DecisionInv /\ Booked
          /\ [MCNext]_<<vars, mode>> /\ [YearHolds]_vars => Booked'
    <2> SUFFICES ASSUME TypeOK, TypeOK', AccrualInv, DecisionInv, Booked,
                        [MCNext]_<<vars, mode>>, [YearHolds]_vars
                 PROVE  Booked'
      OBVIOUS
    <2>1. YearHolds
      BY DEF YearHolds, vars
    <2> QED
      BY <2>1, BookedStays
  <1>3. Booked => OneApproverStaysWithin
    BY DEF Booked, OneApproverStaysWithin, WithinInv
  <1>4. MCSpec => Spec
    <2>1. MCInit => Init
      BY DEF MCInit
    <2>2. [MCNext]_<<vars, mode>> => [Next]_vars
      BY DEF MCNext
    <2> QED
      BY <2>1, <2>2, PTL DEF MCSpec, Spec
  <1>5. Spec => []TypeOK /\ []DecisionInv
    BY TypeCorrect, DecisionInvariant, PTL
  <1>6. Spec => []AccrualInv
    BY AccrualInitially, AccrualStep, TypeCorrect, PTL DEF Spec
  <1> QED
    BY <1>1, <1>2, <1>3, <1>4, <1>5, <1>6, PTL DEF MCSpec
-----------------------------------------------------------------------------
\* Sums over a finite set

\* The element a sum takes next; g, which gives the sum of F over every subset of S, whatever
\* the order; i, which follows the recursion of the community module's fold.
Pick(s) == CHOOSE x \in s : TRUE
Sums(g, F, S) ==
  /\ g \in [SUBSET S -> Int]
  /\ g[{}] = 0
  /\ \A s \in SUBSET S : \A x \in s : g[s] = F[x] + g[s \ {x}]
Recurses(i, F, S) ==
  i = [s \in SUBSET S |-> IF s = {} THEN 0 ELSE F[Pick(s)] + i[s \ {Pick(s)}]]
Total(F, S) == MapThenSumSet(LAMBDA x : F[x], S)

\* Induction over the subsets of a finite set: one that is in T is there without needing a
\* smaller one.
LEMMA SmallestSubset ==
  ASSUME NEW S, IsFiniteSet(S), NEW T \in SUBSET SUBSET S, T # {}
  PROVE  \E s \in T : \A x \in s : s \ {x} \notin T
  <1>1. IsWellFoundedOn(StrictSubsetOrdering(S), SUBSET S)
    BY FS_StrictSubsetOrderingWellFounded, FS_FiniteSubsetsOfFinite
  <1>2. PICK s \in T : \A t \in T : <<t, s>> \notin StrictSubsetOrdering(S)
    BY <1>1, WFMin
  <1>3. ASSUME NEW x \in s, s \ {x} \in T
        PROVE  <<s \ {x}, s>> \in StrictSubsetOrdering(S)
    BY <1>2, <1>3 DEF StrictSubsetOrdering
  <1> QED
    BY <1>2, <1>3

LEMMA SumsExtend ==
  ASSUME NEW S, NEW e \in S, NEW F \in [S -> Int], NEW h, Sums(h, F, S \ {e})
  PROVE  \E g : Sums(g, F, S)
  <1> DEFINE g == [s \in SUBSET S |-> h[s \ {e}] + (IF e \in s THEN F[e] ELSE 0)]
  <1>1. \A s \in SUBSET S : s \ {e} \in SUBSET (S \ {e})
    OBVIOUS
  <1>2. g \in [SUBSET S -> Int]
    BY <1>1 DEF Sums
  <1>3. g[{}] = 0
    <2>1. {} \ {e} = {} /\ {} \in SUBSET S
      OBVIOUS
    <2> QED
      BY <2>1 DEF Sums
  <1>4. ASSUME NEW s \in SUBSET S, NEW x \in s
        PROVE  g[s] = F[x] + g[s \ {x}]
    <2>1. s \ {x} \in SUBSET S /\ F[x] \in Int /\ F[e] \in Int
      OBVIOUS
    <2>2. h[s \ {e}] \in Int /\ h[(s \ {x}) \ {e}] \in Int
      BY <1>1, <2>1 DEF Sums
    <2>3. CASE x = e
      <3>1. (s \ {x}) \ {e} = s \ {e}
        BY <2>3
      <3>2. g[s] = h[s \ {e}] + F[e] /\ g[s \ {x}] = h[s \ {e}] + 0
        BY <2>1, <2>3, <3>1
      <3> QED
        BY <2>1, <2>2, <2>3, <3>2
    <2>4. CASE x # e
      <3>1. x \in s \ {e} /\ (s \ {e}) \ {x} = (s \ {x}) \ {e} /\ (e \in s \ {x} <=> e \in s)
        BY <2>4
      <3>2. h[s \ {e}] = F[x] + h[(s \ {x}) \ {e}]
        <4>1. PICK t \in SUBSET (S \ {e}) : t = s \ {e}
          BY <1>1
        <4>2. h[t] = F[x] + h[t \ {x}]
          BY <3>1, <4>1 DEF Sums
        <4> QED
          BY <3>1, <4>1, <4>2
      <3>3. PICK more \in Int : more = IF e \in s THEN F[e] ELSE 0
        BY <2>1
      <3>4. g[s] = h[s \ {e}] + more /\ g[s \ {x}] = h[(s \ {x}) \ {e}] + more
        BY <2>1, <3>1, <3>3
      <3> HIDE DEF g
      <3>5. PICK n \in Int, f \in Int : n = h[(s \ {x}) \ {e}] /\ f = F[x]
        BY <2>1, <2>2
      <3>6. g[s] = (f + n) + more /\ g[s \ {x}] = n + more
        BY <3>2, <3>4, <3>5
      <3>7. (f + n) + more = f + (n + more)
        BY <3>3, <3>5
      <3> QED
        BY <3>5, <3>6, <3>7
    <2> QED
      BY <2>3, <2>4
  <1> HIDE DEF g
  <1> QED
    BY <1>2, <1>3, <1>4 DEF Sums

LEMMA SumsExist ==
  ASSUME NEW S, IsFiniteSet(S), NEW F \in [S -> Int]
  PROVE  \E g : Sums(g, F, S)
  <1> DEFINE T == {s \in SUBSET S : ~ \E g : Sums(g, [x \in s |-> F[x]], s)}
  <1>1. ASSUME NEW s \in T, \A x \in s : s \ {x} \notin T
        PROVE  FALSE
    <2>1. CASE s = {}
      <3>1. Sums([t \in SUBSET s |-> 0], [x \in s |-> F[x]], s)
        BY <2>1 DEF Sums
      <3> QED
        BY <3>1
    <2>2. CASE s # {}
      <3>1. PICK e \in s : TRUE
        BY <2>2
      <3>2. PICK h : Sums(h, [x \in s \ {e} |-> F[x]], s \ {e})
        BY <1>1
      <3>3. Sums(h, [x \in s |-> F[x]], s \ {e})
        BY <3>2 DEF Sums
      <3>4. [x \in s |-> F[x]] \in [s -> Int]
        OBVIOUS
      <3> QED
        BY <3>3, <3>4, SumsExtend
    <2> QED
      BY <2>1, <2>2
  <1> HIDE DEF T
  <1>2. T = {}
    <2>1. T \in SUBSET SUBSET S
      BY DEF T
    <2> QED
      BY <1>1, <2>1, SmallestSubset
  <1>3. [x \in S |-> F[x]] = F
    OBVIOUS
  <1> QED
    BY <1>2, <1>3 DEF T

\* The fold computes that sum.
LEMMA FoldIsSum ==
  ASSUME NEW S, IsFiniteSet(S), NEW F, NEW g, Sums(g, F, S)
  PROVE  /\ Recurses(g, F, S)
         /\ \A i : Recurses(i, F, S) => \A s \in SUBSET S : i[s] = g[s]
  <1>1. \A s \in SUBSET S : s # {} => Pick(s) \in s
    BY DEF Pick
  <1>2. Recurses(g, F, S)
    BY <1>1 DEF Recurses, Sums
  <1>3. ASSUME NEW i, Recurses(i, F, S)
        PROVE  \A s \in SUBSET S : i[s] = g[s]
    <2> DEFINE T == {s \in SUBSET S : i[s] # g[s]}
    <2>1. ASSUME NEW s \in T, \A x \in s : s \ {x} \notin T
          PROVE  FALSE
      <3>1. i[s] = IF s = {} THEN 0 ELSE F[Pick(s)] + i[s \ {Pick(s)}]
        BY <1>3 DEF Recurses
      <3>2. s # {} => i[s \ {Pick(s)}] = g[s \ {Pick(s)}]
        BY <1>1, <2>1
      <3> QED
        BY <1>1, <3>1, <3>2 DEF Sums
    <2> QED
      BY <2>1, SmallestSubset
  <1> QED
    BY <1>2, <1>3

LEMMA TotalIsSum ==
  ASSUME NEW S, IsFiniteSet(S), NEW F, NEW g, Sums(g, F, S)
  PROVE  Total(F, S) = g[S]
  <1> DEFINE i == CHOOSE i : i = [s \in SUBSET S |->
                               IF s = {} THEN 0 ELSE F[Pick(s)] + i[s \ {Pick(s)}]]
  <1>1. Total(F, S) = i[S]
    BY DEF Total, MapThenSumSet, MapThenFoldSet, Pick
  <1>2. Recurses(i, F, S)
    <2>1. Recurses(g, F, S)
      BY FoldIsSum
    <2>2. \A j : Recurses(j, F, S) <=>
            j = [s \in SUBSET S |-> IF s = {} THEN 0 ELSE F[Pick(s)] + j[s \ {Pick(s)}]]
      BY DEF Recurses
    <2> QED
      BY <2>1, <2>2
  <1> HIDE DEF i
  <1> QED
    BY <1>1, <1>2, FoldIsSum

LEMMA TotalSame ==
  ASSUME NEW S, IsFiniteSet(S), NEW F, NEW G, \A x \in S : F[x] = G[x] /\ F[x] \in Int
  PROVE  Total(F, S) = Total(G, S)
  <1> DEFINE H == [x \in S |-> F[x]]
  <1>1. PICK g : Sums(g, H, S)
    BY SumsExist
  <1>2. Sums(g, F, S) /\ Sums(g, G, S)
    BY <1>1 DEF Sums
  <1> QED
    BY <1>2, TotalIsSum

\* A total, one element at a time.
LEMMA TotalStep ==
  ASSUME NEW S, IsFiniteSet(S), NEW F, \A x \in S : F[x] \in Int
  PROVE  /\ Total(F, S) \in Int
         /\ S = {} => Total(F, S) = 0
         /\ \A x \in S : Total(F, S) = F[x] + Total(F, S \ {x})
  <1>1. PICK g : Sums(g, [x \in S |-> F[x]], S)
    BY SumsExist
  <1>2. Sums(g, F, S)
    BY <1>1 DEF Sums
  <1>3. Total(F, S) = g[S]
    BY <1>2, TotalIsSum
  <1>4. ASSUME NEW x \in S
        PROVE  Total(F, S \ {x}) = g[S \ {x}]
    <2> DEFINE h == [s \in SUBSET (S \ {x}) |-> g[s]]
    <2>1. Sums(h, F, S \ {x})
      BY <1>2 DEF Sums
    <2>2. IsFiniteSet(S \ {x})
      BY FS_Subset
    <2>3. Total(F, S \ {x}) = h[S \ {x}]
      BY <2>1, <2>2, TotalIsSum
    <2> QED
      BY <2>3
  <1>5. /\ g[S] \in Int
        /\ S = {} => g[S] = 0
        /\ \A x \in S : g[S] = F[x] + g[S \ {x}]
    BY <1>2 DEF Sums
  <1> QED
    BY <1>3, <1>4, <1>5

\* What follows the recursion of the fold has the total: how a sum of the model is reached.
LEMMA RecursionIsTotal ==
  ASSUME NEW S, IsFiniteSet(S), NEW F, \A x \in S : F[x] \in Int
  PROVE  /\ \E i : Recurses(i, F, S)
         /\ \A i : Recurses(i, F, S) => i[S] = Total(F, S)
  <1>1. PICK g : Sums(g, [x \in S |-> F[x]], S)
    BY SumsExist
  <1>2. Sums(g, F, S)
    BY <1>1 DEF Sums
  <1>3. Recurses(g, F, S) /\ \A i : Recurses(i, F, S) => i[S] = g[S]
    BY <1>2, FoldIsSum
  <1> QED
    BY <1>2, <1>3, TotalIsSum

LEMMA TotalZero ==
  ASSUME NEW S, IsFiniteSet(S), NEW F, \A x \in S : F[x] = 0
  PROVE  Total(F, S) = 0
  <1>1. Sums([s \in SUBSET S |-> 0], F, S)
    BY DEF Sums
  <1> QED
    BY <1>1, TotalIsSum

\* One element that changes changes the total by as much.
LEMMA TotalChange ==
  ASSUME NEW S, IsFiniteSet(S), NEW F, NEW G, NEW x \in S, F[x] \in Int, G[x] \in Int,
         \A y \in S : y # x => F[y] = G[y] /\ F[y] \in Int
  PROVE  Total(G, S) = Total(F, S) - F[x] + G[x]
  <1>1. IsFiniteSet(S \ {x})
    BY FS_Subset
  <1>2. Total(F, S \ {x}) = Total(G, S \ {x}) /\ Total(F, S \ {x}) \in Int
    BY <1>1, TotalSame, TotalStep
  <1>3. Total(F, S) = F[x] + Total(F, S \ {x}) /\ Total(G, S) = G[x] + Total(G, S \ {x})
    BY TotalStep
  <1> QED
    BY <1>2, <1>3

-----------------------------------------------------------------------------
\* Used days and the ledger

\* What a person's balances have in use, what the rows led of the ledger have them use, and what
\* the handlers c have still to write there.
UsedOf(bal, u) == MapThenSumSet(LAMBDA y : bal[u][y].used, Years)
UsageOf(led, u) == {i \in DOMAIN led : led[i].user = u /\ led[i].entry # "ACCRUAL"}
SumRows(led, S) == MapThenSumSet(LAMBDA i : led[i].days, S)
DaysOf(led, u) == SumRows(led, UsageOf(led, u))
Unwritten(c, u) ==
  IF c.at = "chargeRow" /\ Owner[c.request] = u THEN c.days
  ELSE IF c.at = "refundRow" /\ Owner[c.request] = u THEN - c.days
  ELSE 0
UnwrittenOf(calls, u) == MapThenSumSet(LAMBDA p : Unwritten(calls[p], u), Calls)

LEMMA UsedIsTotal ==
  ASSUME NEW bal \in [Users -> [Years -> BalanceRow]], NEW u \in Users
  PROVE  /\ UsedOf(bal, u) = Total([y \in Years |-> bal[u][y].used], Years)
         /\ IsFiniteSet(Years) /\ \A y \in Years : bal[u][y].used \in Int
  <1> DEFINE F == [y \in Years |-> bal[u][y].used]
             iter == CHOOSE it : it = [s \in SUBSET Years |->
                       IF s = {} THEN 0 ELSE bal[u][Pick(s)].used + it[s \ {Pick(s)}]]
  <1>1. \A s \in SUBSET Years : s # {} => Pick(s) \in Years
    BY DEF Pick
  <1>2. \A it : Recurses(it, F, Years) <=>
          it = [s \in SUBSET Years |->
                  IF s = {} THEN 0 ELSE bal[u][Pick(s)].used + it[s \ {Pick(s)}]]
    BY <1>1 DEF Recurses
  <1>3. UsedOf(bal, u) = iter[Years]
    BY DEF UsedOf, MapThenSumSet, MapThenFoldSet, Pick
  <1>4. IsFiniteSet(Years)
    BY QuantityAssumption, FS_Interval DEF Years
  <1>5. \A y \in Years : F[y] \in Int /\ bal[u][y].used \in Int
    BY DEF BalanceRow
  <1> HIDE DEF F
  <1>6. PICK g : Recurses(g, F, Years)
    BY <1>4, <1>5, RecursionIsTotal
  <1>7. Recurses(iter, F, Years)
    BY <1>2, <1>6
  <1> HIDE DEF iter
  <1> QED
    BY <1>3, <1>4, <1>5, <1>7, RecursionIsTotal DEF F

LEMMA UsageTyped ==
  ASSUME NEW led \in Seq(LedgerRow), NEW u
  PROVE  /\ IsFiniteSet(UsageOf(led, u))
         /\ \A i \in DOMAIN led : led[i] \in LedgerRow /\ led[i].days \in Int
  <1>1. DOMAIN led = 1 .. Len(led) /\ Len(led) \in Nat
    OBVIOUS
  <1>2. IsFiniteSet(DOMAIN led)
    BY <1>1, FS_Interval
  <1>3. IsFiniteSet(UsageOf(led, u))
    BY <1>2, FS_Subset DEF UsageOf
  <1>4. \A i \in DOMAIN led : led[i] \in LedgerRow
    OBVIOUS
  <1> QED
    BY <1>3, <1>4 DEF LedgerRow

DaysIn(led) == [i \in DOMAIN led |-> led[i].days]

LEMMA SumRowsIsTotal ==
  ASSUME NEW led \in Seq(LedgerRow), NEW S \in SUBSET DOMAIN led
  PROVE  /\ SumRows(led, S) = Total(DaysIn(led), S)
         /\ IsFiniteSet(S) /\ \A i \in S : DaysIn(led)[i] \in Int
  <1> DEFINE F == DaysIn(led)
             iter == CHOOSE it : it = [s \in SUBSET S |->
                       IF s = {} THEN 0 ELSE led[Pick(s)].days + it[s \ {Pick(s)}]]
  <1>1. \A s \in SUBSET S : s # {} => Pick(s) \in DOMAIN led
    BY DEF Pick
  <1>2. \A i \in DOMAIN led : F[i] = led[i].days
    BY DEF DaysIn
  <1>3. \A it : Recurses(it, F, S) <=>
          it = [s \in SUBSET S |->
                  IF s = {} THEN 0 ELSE led[Pick(s)].days + it[s \ {Pick(s)}]]
    BY <1>1, <1>2 DEF Recurses
  <1>4. SumRows(led, S) = iter[S]
    BY DEF SumRows, MapThenSumSet, MapThenFoldSet, Pick
  <1> HIDE DEF F
  <1>5. IsFiniteSet(S) /\ \A i \in S : F[i] \in Int
    <2>1. DOMAIN led = 1 .. Len(led) /\ Len(led) \in Nat
      OBVIOUS
    <2>2. IsFiniteSet(DOMAIN led)
      BY <2>1, FS_Interval
    <2>3. IsFiniteSet(S)
      BY <2>2, FS_Subset
    <2>4. \A i \in DOMAIN led : led[i].days \in Int
      BY UsageTyped
    <2> QED
      BY <1>2, <2>3, <2>4
  <1>6. PICK g : Recurses(g, F, S)
    BY <1>5, RecursionIsTotal
  <1>7. Recurses(iter, F, S)
    BY <1>3, <1>6
  <1> HIDE DEF iter
  <1> QED
    BY <1>4, <1>5, <1>7, RecursionIsTotal DEF F

LEMMA DaysIsTotal ==
  ASSUME NEW led \in Seq(LedgerRow), NEW u
  PROVE  DaysOf(led, u) = Total(DaysIn(led), UsageOf(led, u))
  <1>1. UsageOf(led, u) \in SUBSET DOMAIN led
    BY DEF UsageOf
  <1> QED
    BY <1>1, SumRowsIsTotal DEF DaysOf

UnwrittenBy(calls, u) == [p \in Calls |-> Unwritten(calls[p], u)]

LEMMA UnwrittenTyped ==
  ASSUME NEW calls \in [Calls -> CallState], NEW u, NEW p \in Calls
  PROVE  UnwrittenBy(calls, u)[p] \in Int /\ UnwrittenBy(calls, u)[p] = Unwritten(calls[p], u)
  <1>1. PICK c \in CallState : c = calls[p]
    OBVIOUS
  <1>2. c.at \in {"chargeRow", "refundRow"} => c.days \in Nat
    BY DEF CallState, Idle, InsertCall, CancelCall, SplitCall, ClaimCall, ChargeCall, SnapshotCall,
           RecomputeCall, RefundCall, AccrueCall, CreditCall, CreditWriteCall, EscalateCall
  <1>3. Unwritten(c, u) \in Int
    BY <1>2 DEF Unwritten
  <1> QED
    BY <1>1, <1>3 DEF UnwrittenBy

LEMMA UnwrittenIsTotal ==
  ASSUME IsFiniteSet(Calls), NEW calls \in [Calls -> CallState], NEW u
  PROVE  UnwrittenOf(calls, u) = Total(UnwrittenBy(calls, u), Calls)
  <1> DEFINE F == UnwrittenBy(calls, u)
             iter == CHOOSE it : it = [s \in SUBSET Calls |->
                       IF s = {} THEN 0 ELSE Unwritten(calls[Pick(s)], u) + it[s \ {Pick(s)}]]
  <1>1. \A s \in SUBSET Calls : s # {} => Pick(s) \in Calls
    BY DEF Pick
  <1>2. \A p \in Calls : F[p] = Unwritten(calls[p], u) /\ F[p] \in Int
    BY UnwrittenTyped
  <1> HIDE DEF F
  <1>3. \A it : Recurses(it, F, Calls) <=>
          it = [s \in SUBSET Calls |->
                  IF s = {} THEN 0 ELSE Unwritten(calls[Pick(s)], u) + it[s \ {Pick(s)}]]
    BY <1>1, <1>2 DEF Recurses
  <1>4. UnwrittenOf(calls, u) = iter[Calls]
    BY DEF UnwrittenOf, MapThenSumSet, MapThenFoldSet, Pick
  <1>5. PICK g : Recurses(g, F, Calls)
    BY <1>2, RecursionIsTotal
  <1>6. Recurses(iter, F, Calls)
    BY <1>3, <1>5
  <1> HIDE DEF iter
  <1> QED
    BY <1>2, <1>4, <1>6, RecursionIsTotal DEF F
\* What a change to one balance, a new row and a change to one handler add.
SameElsewhere(old, new, v, z) ==
  \A u \in Users, y \in Years : u # v \/ y # z => new[u][y].used = old[u][y].used

LEMMA YearsChange ==
  ASSUME NEW F, NEW G, NEW z \in Years, F[z] \in Int, G[z] \in Int, IsFiniteSet(Years),
         \A y \in Years : y # z => F[y] = G[y] /\ F[y] \in Int
  PROVE  Total(G, Years) = Total(F, Years) - F[z] + G[z]
  BY TotalChange

LEMMA UsedMoves ==
  ASSUME NEW old \in [Users -> [Years -> BalanceRow]], NEW new \in [Users -> [Years -> BalanceRow]],
         NEW v \in Users, NEW z \in Years, SameElsewhere(old, new, v, z), NEW u \in Users
  PROVE  /\ u # v => UsedOf(new, u) = UsedOf(old, u)
         /\ u = v => UsedOf(new, u) = UsedOf(old, u) + (new[v][z].used - old[v][z].used)
  <1> DEFINE F == [y \in Years |-> old[u][y].used]
             G == [y \in Years |-> new[u][y].used]
  <1>1. /\ UsedOf(old, u) = Total(F, Years) /\ UsedOf(new, u) = Total(G, Years)
        /\ IsFiniteSet(Years) /\ \A y \in Years : F[y] \in Int /\ G[y] \in Int
    BY UsedIsTotal
  <1>2. \A y \in Years : F[y] = old[u][y].used /\ G[y] = new[u][y].used
    OBVIOUS
  <1> HIDE DEF F, G
  <1>3. Total(F, Years) \in Int
    BY <1>1, TotalStep
  <1>4. CASE u # v
    <2>1. Total(F, Years) = Total(G, Years)
      BY <1>1, <1>2, <1>4, TotalSame DEF SameElsewhere
    <2> QED
      BY <1>1, <1>3, <1>4, <2>1
  <1>5. CASE u = v
    <2>1. F[z] = old[v][z].used /\ G[z] = new[v][z].used
      BY <1>2, <1>5
    <2>2. Total(G, Years) = Total(F, Years) - F[z] + G[z]
      <3>1. \A y \in Years : y # z => F[y] = G[y] /\ F[y] \in Int
        BY <1>1, <1>2, <1>5 DEF SameElsewhere
      <3>2. F[z] \in Int /\ G[z] \in Int /\ IsFiniteSet(Years)
        BY <1>1
      <3> QED
        BY <3>1, <3>2, YearsChange
    <2>3. Total(G, Years) = Total(F, Years) + (new[v][z].used - old[v][z].used)
      BY <1>1, <1>3, <2>1, <2>2
    <2> QED
      BY <1>1, <1>3, <1>5, <2>3
  <1> QED
    BY <1>4, <1>5

LEMMA RowsGrow ==
  ASSUME NEW led \in Seq(LedgerRow), NEW row \in LedgerRow, NEW S \in SUBSET DOMAIN led, NEW T,
         T = S \/ T = S \cup {Len(led) + 1}
  PROVE  /\ SumRows(led, S) \in Int
         /\ SumRows(Append(led, row), T) =
              SumRows(led, S) + (IF Len(led) + 1 \in T THEN row.days ELSE 0)
  <1> DEFINE more == Append(led, row)
             m == Len(led) + 1
  <1>1. more = Append(led, row) /\ m = Len(led) + 1
    OBVIOUS
  <1>2. /\ more \in Seq(LedgerRow) /\ m \in DOMAIN more /\ more[m] = row
        /\ m \notin DOMAIN led /\ DOMAIN more = DOMAIN led \cup {m}
        /\ \A i \in DOMAIN led : more[i] = led[i]
    OBVIOUS
  <1> HIDE DEF more, m
  <1>3. /\ \A i \in DOMAIN led : DaysIn(more)[i] = DaysIn(led)[i] /\ DaysIn(led)[i] \in Int
        /\ DaysIn(more)[m] = row.days /\ row.days \in Int
    BY <1>2, UsageTyped DEF DaysIn, LedgerRow
  <1>4. SumRows(led, S) = Total(DaysIn(led), S) /\ IsFiniteSet(S)
    BY SumRowsIsTotal
  <1>5. Total(DaysIn(led), S) = Total(DaysIn(more), S)
    BY <1>3, <1>4, TotalSame
  <1>6. SumRows(led, S) = Total(DaysIn(more), S) /\ SumRows(led, S) \in Int
    BY <1>3, <1>4, <1>5, TotalStep
  <1>7. T \in SUBSET DOMAIN more
    BY <1>1, <1>2
  <1>8. /\ SumRows(more, T) = Total(DaysIn(more), T) /\ IsFiniteSet(T)
        /\ \A i \in T : DaysIn(more)[i] \in Int
    BY <1>2, <1>7, SumRowsIsTotal
  <1>9. CASE m \in T
    <2>1. T \ {m} = S
      BY <1>1, <1>2, <1>9
    <2>2. Total(DaysIn(more), T) = row.days + Total(DaysIn(more), S)
      BY <1>3, <1>8, <1>9, <2>1, TotalStep
    <2>3. SumRows(more, T) = SumRows(led, S) + row.days
      BY <1>3, <1>6, <1>8, <2>2
    <2> QED
      BY <1>1, <1>6, <1>9, <2>3
  <1>10. CASE m \notin T
    <2>1. T = S
      BY <1>1, <1>10
    <2> QED
      BY <1>1, <1>6, <1>8, <1>10, <2>1
  <1> QED
    BY <1>9, <1>10

LEMMA DaysGrow ==
  ASSUME NEW led \in Seq(LedgerRow), NEW row \in LedgerRow, NEW u
  PROVE  /\ DaysOf(led, u) \in Int
         /\ DaysOf(Append(led, row), u) =
              DaysOf(led, u) + (IF row.user = u /\ row.entry # "ACCRUAL" THEN row.days ELSE 0)
  <1> DEFINE S == UsageOf(led, u)
             T == UsageOf(Append(led, row), u)
  <1>1. S \in SUBSET DOMAIN led
    BY DEF UsageOf
  <1>2. T = IF row.user = u /\ row.entry # "ACCRUAL" THEN S \cup {Len(led) + 1} ELSE S
    BY DEF UsageOf
  <1>3. Len(led) + 1 \in T <=> row.user = u /\ row.entry # "ACCRUAL"
    BY <1>2 DEF UsageOf
  <1>4. DaysOf(led, u) = SumRows(led, S) /\ DaysOf(Append(led, row), u) = SumRows(Append(led, row), T)
    BY DEF DaysOf
  <1> HIDE DEF S, T
  <1>5. T = S \/ T = S \cup {Len(led) + 1}
    BY <1>2
  <1> QED
    BY <1>1, <1>3, <1>4, <1>5, RowsGrow

LEMMA UnwrittenMoves ==
  ASSUME IsFiniteSet(Calls), NEW old \in [Calls -> CallState], NEW new \in [Calls -> CallState],
         NEW p \in Calls, NEW u,
         \A q \in Calls : q # p => Unwritten(new[q], u) = Unwritten(old[q], u)
  PROVE  /\ UnwrittenOf(old, u) \in Int
         /\ UnwrittenOf(new, u) = UnwrittenOf(old, u) - Unwritten(old[p], u) + Unwritten(new[p], u)
  <1> DEFINE F == UnwrittenBy(old, u)
             G == UnwrittenBy(new, u)
  <1>1. \A q \in Calls : /\ F[q] \in Int /\ F[q] = Unwritten(old[q], u)
                         /\ G[q] \in Int /\ G[q] = Unwritten(new[q], u)
    BY UnwrittenTyped
  <1>2. UnwrittenOf(old, u) = Total(F, Calls) /\ UnwrittenOf(new, u) = Total(G, Calls)
    BY UnwrittenIsTotal
  <1> HIDE DEF F, G
  <1>3. \A q \in Calls : q # p => F[q] = G[q] /\ F[q] \in Int
    BY <1>1
  <1>4. F[p] \in Int /\ G[p] \in Int
    BY <1>1
  <1>5. Total(G, Calls) = Total(F, Calls) - F[p] + G[p]
    BY <1>3, <1>4, TotalChange
  <1>6. Total(F, Calls) \in Int
    BY <1>1, TotalStep
  <1> QED
    BY <1>1, <1>2, <1>5, <1>6
\* Between the balance and the ledger row of a charge or a refund.
HalfWritten(c) == c.at \in {"chargeRow", "refundRow"}

\* A step that is no half of one uses no day, and leaves such handlers where they are.
Bookless ==
  /\ \A u \in Users, y \in Years : balance'[u][y].used = balance[u][y].used
  /\ \/ ledger' = ledger
     \/ \E row \in LedgerRow : row.entry = "ACCRUAL" /\ ledger' = Append(ledger, row)
  /\ \A p \in Calls : call'[p] = call[p] \/ ~ (HalfWritten(call[p]) \/ HalfWritten(call'[p]))

LEMMA BooklessCall ==
  ASSUME TypeOK, NEW p \in Calls, NEW next, Become(p, next), ~ HalfWritten(call[p]),
         ~ HalfWritten(next), UNCHANGED balance,
         \/ ledger' = ledger
         \/ \E row \in LedgerRow : row.entry = "ACCRUAL" /\ ledger' = Append(ledger, row)
  PROVE  Bookless
  <1>1. \A q \in Calls : call'[q] = IF q = p THEN next ELSE call[q]
    BY DEF Become, TypeOK
  <1> QED
    BY <1>1 DEF Bookless, HalfWritten

LEMMA HolidayBookless ==
  ASSUME TypeOK, NEW p \in Calls,
         \/ AddHoliday(p) \/ HolidaySnapshot(p) \/ HolidayRecount(p) \/ HolidayShrink(p)
         \/ DeleteHoliday(p)
  PROVE  Bookless
  <1>1. CASE AddHoliday(p)
    <2>1. PICK next : Become(p, next) /\ next.at = "snapshot"
      BY <1>1 DEF AddHoliday
    <2> QED
      BY <1>1, <2>1, BooklessCall DEF AddHoliday, HalfWritten, Idle
  <1>2. CASE HolidaySnapshot(p)
    <2>1. PICK next : Become(p, next) /\ next.at \in {"idle", "recompute"}
      BY <1>2 DEF HolidaySnapshot, Idle
    <2> QED
      BY <1>2, <2>1, BooklessCall DEF HolidaySnapshot, HalfWritten, database
  <1>3. CASE HolidayRecount(p)
    <2>1. PICK next : Become(p, next) /\ next.at \in {"idle", "recompute", "shrink"}
      BY <1>3 DEF HolidayRecount, Continue, Idle
    <2> QED
      BY <1>3, <2>1, BooklessCall DEF HolidayRecount, HalfWritten, database
  <1>4. CASE HolidayShrink(p)
    <2>1. call[p] \in RefundCall
      BY <1>4, CallShape DEF HolidayShrink
    <2>2. PICK next : Become(p, next) /\ next.at = "refund"
      BY <1>4, <2>1 DEF HolidayShrink, RefundCall
    <2> QED
      BY <1>4, <2>2, BooklessCall DEF HolidayShrink, HalfWritten
  <1>5. CASE DeleteHoliday(p)
    BY <1>5 DEF DeleteHoliday, Bookless
  <1> QED
    BY <1>1, <1>2, <1>3, <1>4, <1>5

LEMMA EmployeeBookless ==
  ASSUME TypeOK, NEW p \in Calls, EmployeeStep(p)
  PROVE  Bookless
  <1>1. PICK next : Become(p, next) /\ next.at \in {"idle", "insert", "cancel"}
    <2>1. CASE CreateCheck(p)
      BY <2>1 DEF CreateCheck
    <2>2. CASE CancelCheck(p)
      BY <2>2 DEF CancelCheck
    <2>3. CASE CreateInsert(p) \/ CancelWrite(p)
      BY <2>3 DEF CreateInsert, CancelWrite, Idle
    <2> QED
      BY <2>1, <2>2, <2>3 DEF EmployeeStep
  <1>2. UNCHANGED <<balance, ledger>> /\ ~ HalfWritten(call[p])
    BY DEF EmployeeStep, CreateCheck, CreateInsert, CancelCheck, CancelWrite, database, Idle,
       HalfWritten
  <1> QED
    BY <1>1, <1>2, BooklessCall DEF HalfWritten

LEMMA JobBookless ==
  ASSUME TypeOK, NEW p \in Calls, JobStep(p)
  PROVE  Bookless
  <1>1. CASE AccrualStart(p)
    <2>1. PICK next : Become(p, next) /\ next.at = "accrue"
      BY <1>1 DEF AccrualStart
    <2> QED
      BY <1>1, <2>1, BooklessCall DEF AccrualStart, HalfWritten, database, Idle
  <1>2. CASE AccrualRow(p)
    <2>1. PICK next : Become(p, next) /\ next.at \in {"idle", "accrue", "credit"}
      BY <1>2 DEF AccrualRow, NextStaff, Idle
    <2>2. call[p] \in AccrueCall /\ UNCHANGED balance /\ ~ HalfWritten(call[p])
      BY <1>2, CallShape DEF AccrualRow, HalfWritten
    <2>3. ASSUME NEW u \in call[p].staff
          PROVE  LedgerEntry(u, "ACCRUAL", PerMonth, NoRequest, call[p].month) \in LedgerRow
      <3>1. call[p].month \in Nat /\ u \in Users /\ PerMonth \in Int
        BY <2>2, QuantityAssumption DEF AccrueCall, Months
      <3> QED
        BY <3>1 DEF LedgerEntry, LedgerRow
    <2>4. ASSUME ledger' # ledger
          PROVE  \E row \in LedgerRow : row.entry = "ACCRUAL" /\ ledger' = Append(ledger, row)
      <3>1. PICK u \in call[p].staff :
              ledger' = Append(ledger, LedgerEntry(u, "ACCRUAL", PerMonth, NoRequest, call[p].month))
        BY <1>2, <2>4 DEF AccrualRow
      <3> QED
        BY <2>3, <3>1 DEF LedgerEntry
    <2> QED
      BY <2>1, <2>2, <2>4, BooklessCall DEF HalfWritten
  <1>3. CASE AccrualRead(p)
    <2>1. /\ \A u \in Users, y \in Years : balance'[u][y].used = balance[u][y].used
          /\ call'[p].at = "creditWrite" /\ \A q \in Calls : q # p => call'[q] = call[q]
      BY <1>3, ReadMoves
    <2> QED
      BY <1>3, <2>1 DEF AccrualRead, Bookless, HalfWritten
  <1>4. CASE AccrualWrite(p)
    <2>1. /\ \A u \in Users, y \in Years : balance'[u][y].used = balance[u][y].used
          /\ call'[p].at \in {"idle", "accrue"} /\ \A q \in Calls : q # p => call'[q] = call[q]
      BY <1>4, WriteMoves
    <2> QED
      BY <1>4, <2>1 DEF AccrualWrite, Bookless, HalfWritten
  <1>5. CASE SweepRead(p)
    <2>1. PICK next : Become(p, next) /\ next.at = "escalate"
      BY <1>5 DEF SweepRead
    <2> QED
      BY <1>5, <2>1, BooklessCall DEF SweepRead, HalfWritten, database, Idle
  <1>6. CASE SweepWrite(p)
    <2>1. call[p] \in EscalateCall
      BY <1>6, CallShape DEF SweepWrite
    <2>2. PICK next : Become(p, next) /\ next.at \in {"idle", "escalate"}
      BY <1>6, <2>1 DEF SweepWrite, Idle, EscalateCall
    <2> QED
      BY <1>6, <2>2, BooklessCall DEF SweepWrite, HalfWritten
  <1> QED
    BY <1>1, <1>2, <1>3, <1>4, <1>5, <1>6 DEF JobStep

LEMMA DecidesBookless ==
  ASSUME TypeOK, NEW p \in Calls, Decides(p)
  PROVE  Bookless
  <1>1. /\ UNCHANGED balance /\ \A q \in Calls : q # p => call'[q] = call[q]
        /\ call'[p].at \in {"idle", "split", "claim", "charge"}
    BY DecidesReads
  <1>2. ledger' = ledger /\ ~ HalfWritten(call[p])
    BY DEF Decides, DecideCheck, DecideSplit, DecideClaim, database, HalfWritten, Idle
  <1> QED
    BY <1>1, <1>2 DEF Bookless, HalfWritten

\* The steps that write one half of a charge or a refund, and a handler's death.
Books(p) == ChargeBalance(p) \/ RefundBalance(p) \/ ChargeRow(p) \/ RefundRow(p) \/ Fail(p)

LEMMA BooksOrNot ==
  ASSUME TypeOK, [Next]_vars
  PROVE  Bookless \/ \E p \in Calls : Books(p)
  <1>1. CASE Environment \/ UNCHANGED vars
    BY <1>1 DEF Environment, AdvanceDay, BecomeDue, vars, database, Bookless
  <1>2. ASSUME NEW p \in Calls, FinanceStep(p) PROVE Bookless
    BY <1>2 DEF FinanceStep, LockMonth, UnlockMonth, Bookless
  <1>3. ASSUME NEW p \in Calls, AdminStep(p) \/ ApproverStep(p) PROVE Bookless \/ Books(p)
    BY <1>3, HolidayBookless, DecidesBookless DEF AdminStep, HolidayStep, ApproverStep, Decides, Books
  <1> QED
    BY <1>1, <1>2, <1>3, EmployeeBookless, JobBookless DEF Next, Books
LEMMA UnwrittenSame ==
  ASSUME IsFiniteSet(Calls), NEW old \in [Calls -> CallState], NEW new \in [Calls -> CallState],
         NEW u, \A q \in Calls : Unwritten(new[q], u) = Unwritten(old[q], u)
  PROVE  UnwrittenOf(old, u) \in Int /\ UnwrittenOf(new, u) = UnwrittenOf(old, u)
  <1> DEFINE F == UnwrittenBy(old, u)
             G == UnwrittenBy(new, u)
  <1>1. \A q \in Calls : /\ F[q] \in Int /\ F[q] = Unwritten(old[q], u)
                         /\ G[q] \in Int /\ G[q] = Unwritten(new[q], u)
    BY UnwrittenTyped
  <1>2. UnwrittenOf(old, u) = Total(F, Calls) /\ UnwrittenOf(new, u) = Total(G, Calls)
    BY UnwrittenIsTotal
  <1> HIDE DEF F, G
  <1>3. \A q \in Calls : F[q] = G[q] /\ F[q] \in Int
    BY <1>1
  <1>4. Total(F, Calls) = Total(G, Calls) /\ Total(F, Calls) \in Int
    BY <1>3, TotalSame, TotalStep
  <1> QED
    BY <1>2, <1>4

LEMMA UsedSame ==
  ASSUME NEW old \in [Users -> [Years -> BalanceRow]], NEW new \in [Users -> [Years -> BalanceRow]],
         NEW u \in Users, \A y \in Years : new[u][y].used = old[u][y].used
  PROVE  UsedOf(old, u) \in Int /\ UsedOf(new, u) = UsedOf(old, u)
  <1> DEFINE F == [y \in Years |-> old[u][y].used]
             G == [y \in Years |-> new[u][y].used]
  <1>1. /\ UsedOf(old, u) = Total(F, Years) /\ UsedOf(new, u) = Total(G, Years)
        /\ IsFiniteSet(Years) /\ \A y \in Years : F[y] \in Int
    BY UsedIsTotal
  <1>2. \A y \in Years : F[y] = G[y]
    OBVIOUS
  <1> HIDE DEF F, G
  <1> QED
    BY <1>1, <1>2, TotalSame, TotalStep

LEMMA DaysIsInt ==
  ASSUME NEW led \in Seq(LedgerRow), NEW u
  PROVE  DaysOf(led, u) \in Int
  <1>1. \A i \in UsageOf(led, u) : DaysIn(led)[i] \in Int
    BY UsageTyped DEF UsageOf, DaysIn
  <1>2. IsFiniteSet(UsageOf(led, u))
    BY UsageTyped
  <1> QED
    BY <1>1, <1>2, DaysIsTotal, TotalStep

\* What UsedIsBackedByLedger says of one person.
Squares(u) == UsedOf(balance, u) = DaysOf(ledger, u) + UnwrittenOf(call, u)
StillSquares(u) == UsedOf(balance', u) = DaysOf(ledger', u) + UnwrittenOf(call', u)

LEMMA SquaresIsBacked ==
  /\ UsedIsBackedByLedger <=> (failures = 0 => \A u \in Users : Squares(u))
  /\ UsedIsBackedByLedger' <=> (failures' = 0 => \A u \in Users : StillSquares(u))
  <1>1. UsedIsBackedByLedger <=> (failures = 0 => \A u \in Users : Squares(u))
    BY DEF UsedIsBackedByLedger, Squares, UsedOf, DaysOf, SumRows, UsageOf, UnwrittenOf, Unwritten, LedgerDays,
           MapThenSumSet, MapThenFoldSet
  <1>2. UsedIsBackedByLedger' <=> (failures' = 0 => \A u \in Users : StillSquares(u))
    BY DEF UsedIsBackedByLedger, StillSquares, UsedOf, DaysOf, SumRows, UsageOf, UnwrittenOf, Unwritten,
           LedgerDays, MapThenSumSet, MapThenFoldSet
  <1> QED
    BY <1>1, <1>2

LEMMA BooklessSquares ==
  ASSUME IsFiniteSet(Calls), TypeOK, TypeOK', Bookless, NEW u \in Users, Squares(u)
  PROVE  StillSquares(u)
  <1>1. UsedOf(balance', u) = UsedOf(balance, u)
    <2>1. PICK old \in [Users -> [Years -> BalanceRow]], new \in [Users -> [Years -> BalanceRow]] :
            old = balance /\ new = balance'
      BY DEF TypeOK
    <2>2. \A y \in Years : new[u][y].used = old[u][y].used
      BY <2>1 DEF Bookless
    <2> QED
      BY <2>1, <2>2, UsedSame
  <1>2. UnwrittenOf(call', u) = UnwrittenOf(call, u)
    <2>1. PICK old \in [Calls -> CallState], new \in [Calls -> CallState] : old = call /\ new = call'
      BY DEF TypeOK
    <2>2. \A q \in Calls : Unwritten(new[q], u) = Unwritten(old[q], u)
      BY <2>1 DEF Bookless, HalfWritten, Unwritten
    <2> QED
      BY <2>1, <2>2, UnwrittenSame
  <1>3. DaysOf(ledger', u) = DaysOf(ledger, u)
    <2>1. CASE ledger' = ledger
      BY <2>1
    <2>2. CASE ledger' # ledger
      <3>1. PICK row \in LedgerRow : row.entry = "ACCRUAL" /\ ledger' = Append(ledger, row)
        BY <2>2 DEF Bookless
      <3>2. PICK led \in Seq(LedgerRow) : led = ledger
        BY DEF TypeOK
      <3>3. DaysOf(led, u) \in Int
        BY <3>1, DaysGrow
      <3>4. DaysOf(Append(led, row), u) = DaysOf(led, u) + 0
        BY <3>1, DaysGrow
      <3> QED
        BY <3>1, <3>2, <3>3, <3>4
    <2> QED
      BY <2>1, <2>2
  <1> QED
    BY <1>1, <1>2, <1>3 DEF Squares, StillSquares

\* The balance takes d days of v, which activation p has now to write to the ledger.
LEMMA BalanceHalfSquares ==
  ASSUME IsFiniteSet(Calls), TypeOK, TypeOK', NEW p \in Calls, NEW v \in Users, NEW d \in Int,
         RowsFit, ApplyUsage(v, d), d >= 0 \/ balance[v][YearOf(today)].exists, ledger' = ledger,
         \A q \in Calls : q # p => call'[q] = call[q],
         NEW u \in Users, Unwritten(call[p], u) = 0,
         Unwritten(call'[p], u) = IF u = v THEN d ELSE 0, Squares(u)
  PROVE  StillSquares(u)
  <1>1. PICK z : z = YearOf(today)
    OBVIOUS
  <1>2. PICK old \in [Users -> [Years -> BalanceRow]], new \in [Users -> [Years -> BalanceRow]] :
          old = balance /\ new = balance'
    BY DEF TypeOK
  <1>3. /\ z \in Years
        /\ \A w \in Users, y \in Years : w # v \/ y # z => new[w][y] = old[w][y]
        /\ old[v][z].exists => new[v][z].used = old[v][z].used + d
        /\ ~ old[v][z].exists => new[v][z].used = NonNegative(d)
    BY <1>1, <1>2, UsageMoves
  <1>4. ~ old[v][z].exists => d >= 0 /\ old[v][z].used = 0
    BY <1>1, <1>2, <1>3 DEF RowsFit
  <1>5. new[v][z].used = old[v][z].used + d
    BY <1>3, <1>4
  <1>6. UsedOf(old, u) \in Int /\ UsedOf(new, u) = UsedOf(old, u) + (IF u = v THEN d ELSE 0)
    <2>1. SameElsewhere(old, new, v, z)
      BY <1>3 DEF SameElsewhere
    <2>2. z \in Years
      BY <1>3
    <2>4. /\ u # v => UsedOf(new, u) = UsedOf(old, u)
          /\ u = v => UsedOf(new, u) = UsedOf(old, u) + (new[v][z].used - old[v][z].used)
      BY <2>1, <2>2, UsedMoves
    <2>5. old[v][z].used \in Int
      BY <2>2, UsedIsTotal
    <2>3. UsedOf(old, u) \in Int
      BY UsedSame
    <2> QED
      BY <1>5, <2>3, <2>4, <2>5
  <1>7. PICK was \in [Calls -> CallState], is \in [Calls -> CallState] : was = call /\ is = call'
    BY DEF TypeOK
  <1>8. \A q \in Calls : q # p => Unwritten(is[q], u) = Unwritten(was[q], u)
    BY <1>7
  <1>9. /\ UnwrittenOf(was, u) \in Int
        /\ UnwrittenOf(is, u) = UnwrittenOf(was, u) - Unwritten(was[p], u) + Unwritten(is[p], u)
    BY <1>8, UnwrittenMoves
  <1>10. Unwritten(was[p], u) = 0 /\ Unwritten(is[p], u) = IF u = v THEN d ELSE 0
    BY <1>7
  <1>11. PICK led \in Seq(LedgerRow) : led = ledger
    BY DEF TypeOK
  <1>12. DaysOf(led, u) \in Int
    BY DaysIsInt
  <1>13. UsedOf(old, u) = DaysOf(led, u) + UnwrittenOf(was, u)
    BY <1>2, <1>7, <1>11 DEF Squares
  <1>14. UsedOf(new, u) = DaysOf(led, u) + UnwrittenOf(is, u)
    BY <1>6, <1>9, <1>10, <1>12, <1>13
  <1> QED
    BY <1>2, <1>7, <1>11, <1>14 DEF StillSquares

\* The ledger gets the row.
LEMMA LedgerHalfSquares ==
  ASSUME IsFiniteSet(Calls), TypeOK, TypeOK', NEW p \in Calls, NEW row \in LedgerRow,
         row.entry # "ACCRUAL", UNCHANGED balance, ledger' = Append(ledger, row),
         \A q \in Calls : q # p => call'[q] = call[q],
         NEW u \in Users, Unwritten(call'[p], u) = 0,
         Unwritten(call[p], u) = IF u = row.user THEN row.days ELSE 0, Squares(u)
  PROVE  StillSquares(u)
  <1>1. PICK was \in [Calls -> CallState], is \in [Calls -> CallState] : was = call /\ is = call'
    BY DEF TypeOK
  <1>2. \A q \in Calls : q # p => Unwritten(is[q], u) = Unwritten(was[q], u)
    BY <1>1
  <1>3. /\ UnwrittenOf(was, u) \in Int
        /\ UnwrittenOf(is, u) = UnwrittenOf(was, u) - Unwritten(was[p], u) + Unwritten(is[p], u)
    BY <1>2, UnwrittenMoves
  <1>4. Unwritten(is[p], u) = 0 /\ Unwritten(was[p], u) = IF u = row.user THEN row.days ELSE 0
    BY <1>1
  <1>5. PICK led \in Seq(LedgerRow) : led = ledger
    BY DEF TypeOK
  <1>6. DaysOf(led, u) \in Int
    BY <1>5, DaysGrow
  <1>7. DaysOf(Append(led, row), u) = DaysOf(led, u) + (IF row.user = u THEN row.days ELSE 0)
    BY <1>5, DaysGrow
  <1>8. PICK old \in [Users -> [Years -> BalanceRow]] : old = balance /\ old = balance'
    BY DEF TypeOK
  <1>9. UsedOf(old, u) = DaysOf(led, u) + UnwrittenOf(was, u)
    BY <1>1, <1>5, <1>8 DEF Squares
  <1>10. row.days \in Int
    BY DEF LedgerRow
  <1>11. UsedOf(old, u) = DaysOf(Append(led, row), u) + UnwrittenOf(is, u)
    BY <1>3, <1>4, <1>6, <1>7, <1>9, <1>10
  <1> QED
    BY <1>1, <1>5, <1>8, <1>11 DEF StillSquares
\* applyUsage does all it means to: a refund finds the balance row of the year it runs in, and
\* its row in the ledger has a key of its own.
RefundKeysAreFree ==
  \A p \in Calls : RefundRow(p) => ~ KeyTaken(Owner[call[p].request], "REFUND", call[p].date)
RefundsLand ==
  /\ \A p \in Calls : RefundBalance(p) => balance[Owner[call[p].request]][YearOf(today)].exists
  /\ RefundKeysAreFree

LEMMA BooksSquare ==
  ASSUME IsFiniteSet(Calls), TypeOK, TypeOK', RowsFit, RefundsLand, NEW p \in Calls, Books(p),
         failures' = 0, NEW u \in Users, Squares(u)
  PROVE  StillSquares(u)
  <1>1. CASE ChargeBalance(p)
    <2>1. PICK v \in Users, days \in Nat :
            /\ v = Owner[call[p].request] /\ days = call[p].days /\ ApplyUsage(v, days)
            /\ call[p].at = "charge" /\ call'[p].at = "chargeRow"
            /\ \A q \in Calls : q # p => call'[q] = call[q]
      BY <1>1, ChargesOnly
    <2>2. call[p] \in ChargeCall /\ call' = [call EXCEPT ![p] = [call[p] EXCEPT !.at = "chargeRow"]]
      BY <1>1, CallShape DEF ChargeBalance, Become
    <2>3. call'[p].request = call[p].request /\ call'[p].days = call[p].days
      BY <2>2 DEF ChargeCall, TypeOK
    <2>4. Unwritten(call[p], u) = 0 /\ Unwritten(call'[p], u) = IF u = v THEN days ELSE 0
      BY <2>1, <2>3 DEF Unwritten
    <2>5. ledger' = ledger /\ days \in Int /\ days >= 0
      BY <1>1 DEF ChargeBalance
    <2> QED
      BY <2>1, <2>4, <2>5, BalanceHalfSquares
  <1>2. CASE RefundBalance(p)
    <2>1. call[p] \in RefundCall /\ call' = [call EXCEPT ![p] = [call[p] EXCEPT !.at = "refundRow"]]
      BY <1>2, CallShape DEF RefundBalance, Become
    <2>2. PICK v \in Users, days \in Nat : v = Owner[call[p].request] /\ days = call[p].days
      BY <2>1, PeopleAssumption DEF RefundCall
    <2>3. /\ call'[p].at = "refundRow" /\ call'[p].request = call[p].request
          /\ call'[p].days = call[p].days /\ \A q \in Calls : q # p => call'[q] = call[q]
      BY <2>1 DEF RefundCall, TypeOK
    <2>4. call[p].at = "refund" /\ ApplyUsage(v, - days) /\ ledger' = ledger
      BY <1>2, <2>2 DEF RefundBalance
    <2>5. Unwritten(call[p], u) = 0 /\ Unwritten(call'[p], u) = IF u = v THEN - days ELSE 0
      BY <2>2, <2>3, <2>4 DEF Unwritten
    <2>6. - days \in Int /\ balance[v][YearOf(today)].exists
      BY <1>2, <2>2 DEF RefundsLand
    <2> QED
      BY <2>3, <2>4, <2>5, <2>6, BalanceHalfSquares
  <1>3. CASE ChargeRow(p)
    <2>1. call[p] \in ChargeCall /\ call[p].at = "chargeRow"
      BY <1>3, CallShape DEF ChargeRow
    <2>2. PICK v \in Users, days \in Nat, r \in Requests :
            v = Owner[r] /\ r = call[p].request /\ days = call[p].days
      BY <2>1, PeopleAssumption DEF ChargeCall
    <2>3. PICK row \in LedgerRow : row = LedgerEntry(v, "USAGE", days, r, 0)
      <3>1. LedgerEntry(v, "USAGE", days, r, 0) \in LedgerRow
        BY DEF LedgerEntry, LedgerRow
      <3> QED
        BY <3>1
    <2>4. row.user = v /\ row.entry = "USAGE" /\ row.days = days
      BY <2>3 DEF LedgerEntry
    <2>5. ledger' = Append(ledger, row) /\ UNCHANGED balance
      BY <1>3, <2>2, <2>3 DEF ChargeRow
    <2>6. call'[p].at = "idle" /\ \A q \in Calls : q # p => call'[q] = call[q]
      BY <1>3 DEF ChargeRow, Become, Idle, TypeOK
    <2>7. /\ Unwritten(call'[p], u) = 0
          /\ Unwritten(call[p], u) = IF u = row.user THEN row.days ELSE 0
      BY <2>1, <2>2, <2>4, <2>6 DEF Unwritten
    <2> QED
      BY <2>4, <2>5, <2>6, <2>7, LedgerHalfSquares
  <1>4. CASE RefundRow(p)
    <2>1. call[p] \in RefundCall /\ call[p].at = "refundRow"
      BY <1>4, CallShape DEF RefundRow
    <2>2. PICK v \in Users, days \in Nat, r \in Requests, d \in Days :
            v = Owner[r] /\ r = call[p].request /\ days = call[p].days /\ d = call[p].date
      BY <2>1, PeopleAssumption DEF RefundCall
    <2>3. PICK row \in LedgerRow : row = LedgerEntry(v, "REFUND", - days, r, d)
      <3>1. - days \in Int /\ d \in Nat
        BY DEF Days
      <3>2. LedgerEntry(v, "REFUND", - days, r, d) \in LedgerRow
        BY <3>1 DEF LedgerEntry, LedgerRow
      <3> QED
        BY <3>2
    <2>4. row.user = v /\ row.entry = "REFUND" /\ row.days = - days
      BY <2>3 DEF LedgerEntry
    <2>5. ledger' = Append(ledger, row) /\ UNCHANGED balance /\ Continue(p, call[p].todo)
      BY <1>4, <2>2, <2>3 DEF RefundRow, RefundsLand, RefundKeysAreFree
    <2>6. PICK next : Become(p, next) /\ next.at \in {"idle", "recompute"}
      BY <2>5 DEF Continue, Idle
    <2>7. call'[p].at \in {"idle", "recompute"} /\ \A q \in Calls : q # p => call'[q] = call[q]
      BY <2>6 DEF Become, TypeOK
    <2>8. /\ Unwritten(call'[p], u) = 0
          /\ Unwritten(call[p], u) = IF u = row.user THEN row.days ELSE 0
      BY <2>1, <2>2, <2>4, <2>7 DEF Unwritten
    <2> QED
      BY <2>4, <2>5, <2>7, <2>8, LedgerHalfSquares
  <1>5. CASE Fail(p)
    BY <1>5 DEF Fail, TypeOK
  <1> QED
    BY <1>1, <1>2, <1>3, <1>4, <1>5 DEF Books

LEMMA FailuresStay == ASSUME TypeOK, [Next]_vars, failures' = 0 PROVE failures = 0
  <1>1. failures' = failures \/ failures' = failures + 1
    <2>1. ASSUME NEW p \in Calls, EmployeeStep(p) \/ ApproverStep(p) PROVE failures' = failures
      BY <2>1 DEF EmployeeStep, CreateCheck, CreateInsert, CancelCheck, CancelWrite, ApproverStep,
         DecideCheck, DecideSplit, DecideClaim, ChargeBalance, ChargeRow, counters
    <2>2. ASSUME NEW p \in Calls, AdminStep(p) \/ FinanceStep(p) PROVE failures' = failures
      BY <2>2 DEF AdminStep, AddHoliday, HolidayStep, HolidaySnapshot, HolidayRecount,
         HolidayShrink, RefundBalance, RefundRow, DeleteHoliday, FinanceStep, LockMonth,
         UnlockMonth, counters
    <2>3. ASSUME NEW p \in Calls, JobStep(p) PROVE failures' = failures
      BY <2>3 DEF JobStep, AccrualStart, AccrualRow, AccrualRead, AccrualWrite, SweepRead,
         SweepWrite, counters
    <2>4. CASE Environment \/ UNCHANGED vars
      BY <2>4 DEF Environment, AdvanceDay, BecomeDue, vars, counters
    <2> QED
      BY <2>1, <2>2, <2>3, <2>4 DEF Next, Fail
  <1> QED
    BY <1>1 DEF TypeOK

LEMMA SquaresAtFirst == ASSUME IsFiniteSet(Calls), Init PROVE UsedIsBackedByLedger
  <1>1. TypeOK
    BY QuantityAssumption DEF Init, TypeOK, Days, RequestRow, Statuses, Types, Levels,
         BalanceRow, CallState
  <1>2. ASSUME NEW u \in Users PROVE UsedOf(balance, u) = 0
    <2>1. PICK bal \in [Users -> [Years -> BalanceRow]] : bal = balance
      BY <1>1 DEF TypeOK
    <2> DEFINE F == [y \in Years |-> bal[u][y].used]
    <2>2. \A y \in Years : F[y] = 0
      BY <2>1 DEF Init
    <2>3. UsedOf(bal, u) = Total(F, Years) /\ IsFiniteSet(Years)
      BY UsedIsTotal
    <2> HIDE DEF F
    <2> QED
      BY <2>1, <2>2, <2>3, TotalZero
  <1>3. ASSUME NEW u \in Users PROVE DaysOf(ledger, u) = 0
    <2>1. PICK led \in Seq(LedgerRow) : led = ledger /\ led = <<>>
      BY <1>1 DEF Init, TypeOK
    <2>2. UsageOf(led, u) = {}
      BY <2>1 DEF UsageOf
    <2>3. DaysOf(led, u) = Total(DaysIn(led), UsageOf(led, u)) /\ IsFiniteSet(UsageOf(led, u))
      BY DaysIsTotal, UsageTyped
    <2> QED
      BY <2>1, <2>2, <2>3, TotalZero
  <1>4. ASSUME NEW u \in Users PROVE UnwrittenOf(call, u) = 0
    <2>1. PICK calls \in [Calls -> CallState] : calls = call
      BY <1>1 DEF TypeOK
    <2> DEFINE F == UnwrittenBy(calls, u)
    <2>2. \A p \in Calls : F[p] = 0
      <3>1. \A p \in Calls : Unwritten(calls[p], u) = 0
        BY <2>1 DEF Init, Idle, Unwritten
      <3> QED
        BY <3>1 DEF UnwrittenBy
    <2>3. UnwrittenOf(calls, u) = Total(F, Calls)
      BY UnwrittenIsTotal
    <2> HIDE DEF F
    <2> QED
      BY <2>1, <2>2, <2>3, TotalZero
  <1>5. \A u \in Users : Squares(u)
    BY <1>2, <1>3, <1>4 DEF Squares
  <1> QED
    BY <1>5, SquaresIsBacked

\* applyUsage: however the handlers interleave, whoever's and however many they are, what a
\* person has used is what the ledger says, once the rows still to be written are counted; as
\* long as no handler dies between the two writes and every refund lands.
THEOREM LedgerBacksUsed ==
  IsFiniteSet(Calls) => (Spec /\ [][RefundsLand]_vars => []UsedIsBackedByLedger)
  <1> SUFFICES ASSUME IsFiniteSet(Calls)
               PROVE  Spec /\ [][RefundsLand]_vars => []UsedIsBackedByLedger
    OBVIOUS
  <1>1. Init => RowsFit /\ UsedIsBackedByLedger
    BY SquaresAtFirst DEF Init, Idle, RowsFit, Crediting
  <1>2. TypeOK /\ TypeOK' /\ RowsFit /\ UsedIsBackedByLedger /\ [Next]_vars /\ [RefundsLand]_vars
          => RowsFit' /\ UsedIsBackedByLedger'
    <2> SUFFICES ASSUME TypeOK, TypeOK', RowsFit, UsedIsBackedByLedger, [Next]_vars,
                        [RefundsLand]_vars, failures' = 0, NEW u \in Users
                 PROVE  StillSquares(u)
      BY RowsStay, SquaresIsBacked
    <2>1. Squares(u)
      BY FailuresStay, SquaresIsBacked
    <2>2. CASE Bookless
      BY <2>1, <2>2, BooklessSquares
    <2>3. ASSUME NEW p \in Calls, Books(p), RefundsLand PROVE StillSquares(u)
      BY <2>1, <2>3, BooksSquare
    <2>4. CASE UNCHANGED vars
      BY <2>1, <2>4 DEF vars, Squares, StillSquares
    <2> QED
      BY <2>2, <2>3, <2>4, BooksOrNot
  <1>3. Spec => []TypeOK
    BY TypeCorrect
  <1> QED
    BY <1>1, <1>2, <1>3, PTL DEF Spec
-----------------------------------------------------------------------------
\* What an approval is charged

\* The days the ledger has for a request, and those a handler c has still to write there.
RowsFor(led, r) == {i \in DOMAIN led : led[i].request = r}
Unbooked(c, r) ==
  IF c.at \in {"charge", "chargeRow"} /\ c.request = r THEN c.days
  ELSE IF c.at \in {"refund", "refundRow"} /\ c.request = r THEN - c.days
  ELSE 0
UnbookedBy(calls, r) == [p \in Calls |-> Unbooked(calls[p], r)]
Charged(led, calls, r) == SumRows(led, RowsFor(led, r)) + Total(UnbookedBy(calls, r), Calls)

LEMMA UnbookedTyped ==
  ASSUME NEW calls \in [Calls -> CallState], NEW r, NEW p \in Calls
  PROVE  UnbookedBy(calls, r)[p] \in Int /\ UnbookedBy(calls, r)[p] = Unbooked(calls[p], r)
  <1>1. PICK c \in CallState : c = calls[p]
    OBVIOUS
  <1>2. c.at \in {"charge", "chargeRow", "refund", "refundRow"} => c.days \in Nat
    BY DEF CallState, Idle, InsertCall, CancelCall, SplitCall, ClaimCall, ChargeCall, SnapshotCall,
           RecomputeCall, RefundCall, AccrueCall, CreditCall, CreditWriteCall, EscalateCall
  <1>3. Unbooked(c, r) \in Int
    BY <1>2 DEF Unbooked
  <1> QED
    BY <1>1, <1>3 DEF UnbookedBy

LEMMA ChargedIsInt ==
  ASSUME IsFiniteSet(Calls), NEW led \in Seq(LedgerRow), NEW calls \in [Calls -> CallState], NEW r
  PROVE  /\ Charged(led, calls, r) \in Int /\ SumRows(led, RowsFor(led, r)) \in Int
         /\ Total(UnbookedBy(calls, r), Calls) \in Int
  <1>1. RowsFor(led, r) \in SUBSET DOMAIN led
    BY DEF RowsFor
  <1>2. SumRows(led, RowsFor(led, r)) \in Int
    BY <1>1, SumRowsIsTotal, TotalStep
  <1>3. Total(UnbookedBy(calls, r), Calls) \in Int
    BY UnbookedTyped, TotalStep
  <1> QED
    BY <1>2, <1>3 DEF Charged

\* A handler that moves on, and a new row, change what a request is charged by as much.
LEMMA ChargedMoves ==
  ASSUME IsFiniteSet(Calls), NEW led \in Seq(LedgerRow), NEW r,
         NEW old \in [Calls -> CallState], NEW new \in [Calls -> CallState], NEW p \in Calls,
         \A q \in Calls : q # p => new[q] = old[q]
  PROVE  Charged(led, new, r) = Charged(led, old, r) - Unbooked(old[p], r) + Unbooked(new[p], r)
  <1> DEFINE F == UnbookedBy(old, r)
             G == UnbookedBy(new, r)
  <1>1. \A q \in Calls : /\ F[q] \in Int /\ F[q] = Unbooked(old[q], r)
                         /\ G[q] \in Int /\ G[q] = Unbooked(new[q], r)
    BY UnbookedTyped
  <1>2. /\ Charged(led, old, r) = SumRows(led, RowsFor(led, r)) + Total(F, Calls)
        /\ Charged(led, new, r) = SumRows(led, RowsFor(led, r)) + Total(G, Calls)
    BY DEF Charged
  <1>3. SumRows(led, RowsFor(led, r)) \in Int
    BY ChargedIsInt
  <1> HIDE DEF F, G
  <1>4. \A q \in Calls : q # p => F[q] = G[q] /\ F[q] \in Int
    BY <1>1
  <1>5. F[p] \in Int /\ G[p] \in Int
    BY <1>1
  <1>6. Total(G, Calls) = Total(F, Calls) - F[p] + G[p]
    BY <1>4, <1>5, TotalChange
  <1>7. Total(F, Calls) \in Int
    BY <1>1, TotalStep
  <1> QED
    BY <1>1, <1>2, <1>3, <1>5, <1>6, <1>7

LEMMA ChargedGrows ==
  ASSUME IsFiniteSet(Calls), NEW led \in Seq(LedgerRow), NEW row \in LedgerRow, NEW r,
         NEW calls \in [Calls -> CallState]
  PROVE  Charged(Append(led, row), calls, r) =
           Charged(led, calls, r) + (IF row.request = r THEN row.days ELSE 0)
  <1> DEFINE S == RowsFor(led, r)
             T == RowsFor(Append(led, row), r)
  <1>1. S \in SUBSET DOMAIN led
    BY DEF RowsFor
  <1>2. T = IF row.request = r THEN S \cup {Len(led) + 1} ELSE S
    BY DEF RowsFor
  <1>3. Len(led) + 1 \in T <=> row.request = r
    BY <1>2 DEF RowsFor
  <1>4. /\ Charged(led, calls, r) = SumRows(led, S) + Total(UnbookedBy(calls, r), Calls)
        /\ Charged(Append(led, row), calls, r) =
             SumRows(Append(led, row), T) + Total(UnbookedBy(calls, r), Calls)
    BY DEF Charged
  <1> HIDE DEF S, T
  <1>5. T = S \/ T = S \cup {Len(led) + 1}
    BY <1>2
  <1>6. /\ SumRows(led, S) \in Int
        /\ SumRows(Append(led, row), T) =
             SumRows(led, S) + (IF row.request = r THEN row.days ELSE 0)
    BY <1>1, <1>3, <1>5, RowsGrow
  <1>7. Total(UnbookedBy(calls, r), Calls) \in Int /\ row.days \in Int
    BY ChargedIsInt DEF LedgerRow
  <1> QED
    BY <1>4, <1>6, <1>7

\* One handler at a time recomputes approved leave for a holiday.
Recomputes(c) == c.at \in {"recompute", "shrink", "refund", "refundRow"}
OneHoliday == \A p, q \in Calls : Recomputes(call[p]) /\ Recomputes(call[q]) => p = q

\* What it has read of the requests is what their rows say, and a request it is about to shrink
\* has been approved.
WasApproved(row) == row.status \in {"APPROVED", "CANCELLED"}
HolidayFits(c, rows) ==
  /\ Recomputes(c) => \A r \in c.todo : WasApproved(rows[r]) /\ rows[r].paid = c.seen[r].paid
  /\ Recomputes(c) /\ c.at # "recompute" => c.request \notin c.todo
  /\ c.at = "shrink" => WasApproved(rows[c.request]) /\ rows[c.request].paid = c.paid + c.days

\* LedgerMatchesPaid says nothing of a request that handlers are still charging or refunding.
ChargedIsPaid(row, days) ==
  /\ row.status \in {"none", "PENDING"} => days = 0
  /\ row.status = "APPROVED" /\ row.type # "UNPAID" => days = row.paid
PaidInv ==
  /\ \A r \in Requests : ChargedIsPaid(request[r], Charged(ledger, call, r))
  /\ \A p \in Calls : HolidayFits(call[p], request)

\* What happens to a row other than by a claim or a refund.
Follows(old, new) ==
  \/ new.status = old.status /\ new.paid = old.paid /\ new.type = old.type
  \/ new.status = "CANCELLED" /\ new.paid = old.paid
  \/ old.status = "none" /\ new.status = "PENDING"
RowsFollow == \A r \in Requests : Follows(request[r], request'[r])

\* A step of p that charges nothing anew: what it has no longer to write is in the ledger.
Carries(p, row) ==
  \A r \in Requests :
    Unbooked(call[p], r) = Unbooked(call'[p], r) + (IF row.request = r THEN row.days ELSE 0)
Even(p) ==
  /\ \A q \in Calls : q # p => call'[q] = call[q]
  /\ RowsFollow
  /\ \/ ledger' = ledger /\ \A r \in Requests : Unbooked(call[p], r) = Unbooked(call'[p], r)
     \/ \E row \in LedgerRow : ledger' = Append(ledger, row) /\ Carries(p, row)
  /\ HolidayFits(call[p], request) => HolidayFits(call'[p], request)

LEMMA FollowsFits ==
  ASSUME NEW c \in CallState, NEW old \in [Requests -> RequestRow],
         NEW new \in [Requests -> RequestRow], \A r \in Requests : Follows(old[r], new[r]),
         HolidayFits(c, old)
  PROVE  HolidayFits(c, new)
  <1>1. Recomputes(c) => c.todo \in SUBSET Requests
    BY DEF Recomputes, CallState, Idle, InsertCall, CancelCall, SplitCall, ClaimCall, ChargeCall,
       SnapshotCall, RecomputeCall, RefundCall, AccrueCall, CreditCall, CreditWriteCall, EscalateCall
  <1>2. c.at = "shrink" => c.request \in Requests
    BY DEF CallState, Idle, InsertCall, CancelCall, SplitCall, ClaimCall, ChargeCall, SnapshotCall,
       RecomputeCall, RefundCall, AccrueCall, CreditCall, CreditWriteCall, EscalateCall
  <1> QED
    BY <1>1, <1>2 DEF HolidayFits, Follows, WasApproved

LEMMA EvenKeepsPaid ==
  ASSUME IsFiniteSet(Calls), TypeOK, TypeOK', PaidInv, NEW p \in Calls, Even(p)
  PROVE  PaidInv'
  <1>1. PICK old \in [Calls -> CallState], new \in [Calls -> CallState] : old = call /\ new = call'
    BY DEF TypeOK
  <1>2. PICK was \in [Requests -> RequestRow], is \in [Requests -> RequestRow] :
          was = request /\ is = request'
    BY DEF TypeOK
  <1>3. PICK led \in Seq(LedgerRow) : led = ledger
    BY DEF TypeOK
  <1>4. ASSUME NEW q \in Calls PROVE HolidayFits(call'[q], request')
    <2>1. HolidayFits(new[q], was)
      BY <1>1, <1>2 DEF PaidInv, Even
    <2>2. \A r \in Requests : Follows(was[r], is[r])
      BY <1>2 DEF Even, RowsFollow
    <2>3. new[q] \in CallState
      OBVIOUS
    <2> QED
      BY <1>1, <1>2, <2>1, <2>2, <2>3, FollowsFits
  <1>5. ASSUME NEW r \in Requests
        PROVE  Charged(ledger', call', r) = Charged(ledger, call, r)
    <2>1. Charged(led, new, r) = Charged(led, old, r) - Unbooked(old[p], r) + Unbooked(new[p], r)
      BY <1>1, ChargedMoves DEF Even
    <2>2. /\ Charged(led, old, r) \in Int /\ Unbooked(old[p], r) \in Int
          /\ Unbooked(new[p], r) \in Int
      BY ChargedIsInt, UnbookedTyped
    <2>3. CASE ledger' = ledger /\ Unbooked(old[p], r) = Unbooked(new[p], r)
      BY <1>1, <1>3, <2>1, <2>2, <2>3
    <2>4. CASE \E row \in LedgerRow : ledger' = Append(ledger, row) /\ Carries(p, row)
      <3>1. PICK row \in LedgerRow : ledger' = Append(led, row) /\ Carries(p, row)
        BY <1>3, <2>4
      <3>2. Unbooked(old[p], r) = Unbooked(new[p], r) + (IF row.request = r THEN row.days ELSE 0)
        BY <1>1, <3>1 DEF Carries
      <3>3. Charged(Append(led, row), new, r) =
              Charged(led, new, r) + (IF row.request = r THEN row.days ELSE 0)
        BY ChargedGrows
      <3>4. row.days \in Int
        BY DEF LedgerRow
      <3>5. Charged(Append(led, row), new, r) = Charged(led, old, r)
        BY <2>1, <2>2, <3>2, <3>3, <3>4
      <3> QED
        BY <1>1, <1>3, <3>1, <3>5
    <2> QED
      BY <1>1, <2>3, <2>4 DEF Even
  <1>6. ASSUME NEW r \in Requests
        PROVE  ChargedIsPaid(request'[r], Charged(ledger', call', r))
    <2>1. PICK days : days = Charged(ledger, call, r)
      OBVIOUS
    <2>2. ChargedIsPaid(was[r], days) /\ Follows(was[r], is[r])
      BY <1>2, <2>1 DEF PaidInv, Even, RowsFollow
    <2>3. ChargedIsPaid(is[r], days)
      BY <2>2 DEF ChargedIsPaid, Follows
    <2> QED
      BY <1>2, <1>5, <2>1, <2>3
  <1> QED
    BY <1>4, <1>6 DEF PaidInv
\* Handlers that neither charge nor refund are even.
Pays(c) == Recomputes(c) \/ c.at \in {"charge", "chargeRow"}

LEMMA AsideIsEven ==
  ASSUME TypeOK, NEW p \in Calls, NEW next, Become(p, next), ~ Pays(call[p]), ~ Pays(next), RowsFollow,
         \/ ledger' = ledger
         \/ \E row \in LedgerRow : row.request = NoRequest /\ ledger' = Append(ledger, row)
  PROVE  Even(p)
  <1>1. call'[p] = next /\ \A q \in Calls : q # p => call'[q] = call[q]
    BY DEF Become, TypeOK
  <1>2. \A r \in Requests : Unbooked(call[p], r) = 0 /\ Unbooked(call'[p], r) = 0
    BY <1>1 DEF Unbooked, Pays, Recomputes
  <1>3. HolidayFits(call'[p], request)
    BY <1>1 DEF HolidayFits, Pays, Recomputes
  <1>4. \A row : row.request = NoRequest => \A r \in Requests : row.request # r
    BY PeopleAssumption
  <1>5. ASSUME NEW row \in LedgerRow, row.request = NoRequest PROVE Carries(p, row)
    BY <1>2, <1>4, <1>5 DEF Carries
  <1> QED
    BY <1>1, <1>2, <1>3, <1>5 DEF Even

LEMMA SameRowsFollow == ASSUME request' = request PROVE RowsFollow
  BY DEF RowsFollow, Follows

LEMMA EmployeeEven == ASSUME TypeOK, NEW p \in Calls, EmployeeStep(p) PROVE Even(p)
  <1>1. PICK next : Become(p, next) /\ ~ Pays(next)
    <2>1. CASE CreateCheck(p)
      BY <2>1 DEF CreateCheck, Pays, Recomputes
    <2>2. CASE CancelCheck(p)
      BY <2>2 DEF CancelCheck, Pays, Recomputes
    <2>3. CASE CreateInsert(p) \/ CancelWrite(p)
      BY <2>3 DEF CreateInsert, CancelWrite, Idle, Pays, Recomputes
    <2> QED
      BY <2>1, <2>2, <2>3 DEF EmployeeStep
  <1>2. ledger' = ledger /\ ~ Pays(call[p])
    BY DEF EmployeeStep, CreateCheck, CreateInsert, CancelCheck, CancelWrite, database, Idle, Pays,
       Recomputes
  <1>3. RowsFollow
    <2>1. CASE CreateCheck(p) \/ CancelCheck(p)
      BY <2>1, SameRowsFollow DEF CreateCheck, CancelCheck, database
    <2>2. CASE CreateInsert(p)
      <3>1. CASE request' = request
        BY <3>1, SameRowsFollow
      <3>2. CASE request' # request
        <4>1. PICK r \in Requests : /\ request[r].status = "none" /\ request'[r].status = "PENDING"
                                    /\ \A s \in Requests : s # r => request'[s] = request[s]
          BY <2>2, <3>2 DEF CreateInsert, TypeOK
        <4> QED
          BY <4>1 DEF RowsFollow, Follows
      <3> QED
        BY <3>1, <3>2
    <2>3. CASE CancelWrite(p)
      <3>1. call[p] \in CancelCall
        BY <2>3, CallShape DEF CancelWrite
      <3>2. PICK r \in Requests : request' = [request EXCEPT ![r].status = "CANCELLED"]
        BY <2>3, <3>1 DEF CancelWrite, CancelCall
      <3>3. request'[r] = [request[r] EXCEPT !.status = "CANCELLED"] /\ request[r] \in RequestRow
        BY <3>2 DEF TypeOK
      <3>4. request'[r].status = "CANCELLED" /\ request'[r].paid = request[r].paid
        BY <3>3 DEF RequestRow
      <3>5. \A s \in Requests : s # r => request'[s] = request[s]
        BY <3>2 DEF TypeOK
      <3> QED
        BY <3>4, <3>5 DEF RowsFollow, Follows
    <2> QED
      BY <2>1, <2>2, <2>3 DEF EmployeeStep
  <1> QED
    BY <1>1, <1>2, <1>3, AsideIsEven

LEMMA JobEven == ASSUME TypeOK, NEW p \in Calls, JobStep(p) PROVE Even(p)
  <1>1. PICK next : Become(p, next) /\ ~ Pays(next)
    <2>1. CASE AccrualStart(p)
      BY <2>1 DEF AccrualStart, Pays, Recomputes
    <2>2. CASE AccrualRow(p)
      BY <2>2 DEF AccrualRow, NextStaff, Idle, Pays, Recomputes
    <2>3. CASE AccrualRead(p)
      BY <2>3 DEF AccrualRead, Pays, Recomputes
    <2>4. CASE AccrualWrite(p)
      BY <2>4 DEF AccrualWrite, NextStaff, Idle, Pays, Recomputes
    <2>5. CASE SweepRead(p)
      BY <2>5 DEF SweepRead, Pays, Recomputes
    <2>6. CASE SweepWrite(p)
      <3>1. call[p] \in EscalateCall
        BY <2>6, CallShape DEF SweepWrite
      <3> QED
        BY <2>6, <3>1 DEF SweepWrite, Idle, EscalateCall, Pays, Recomputes
    <2> QED
      BY <2>1, <2>2, <2>3, <2>4, <2>5, <2>6 DEF JobStep
  <1>2. ~ Pays(call[p])
    BY DEF JobStep, AccrualStart, AccrualRow, AccrualRead, AccrualWrite, SweepRead, SweepWrite, Idle,
       Pays, Recomputes
  <1>3. RowsFollow
    <2>1. CASE ~ SweepWrite(p)
      BY <2>1, SameRowsFollow DEF JobStep, AccrualStart, AccrualRow, AccrualRead, AccrualWrite,
         SweepRead, database
    <2>2. CASE SweepWrite(p)
      <3>1. call[p] \in EscalateCall
        BY <2>2, CallShape DEF SweepWrite
      <3>2. PICK r \in Requests :
              \/ request' = [request EXCEPT ![r].due = FALSE]
              \/ \E a \in Users \cup {NoOne} : request' = [request EXCEPT ![r] = Escalated(@, a)]
        BY <2>2, <3>1 DEF SweepWrite, EscalateCall
      <3>3. request[r] \in RequestRow
        BY DEF TypeOK
      <3>4. \/ request'[r] = [request[r] EXCEPT !.due = FALSE]
            \/ \E a \in Users \cup {NoOne} : request'[r] = Escalated(request[r], a)
        BY <3>2 DEF TypeOK
      <3>5. /\ request'[r].status = request[r].status /\ request'[r].paid = request[r].paid
            /\ request'[r].type = request[r].type
        BY <3>3, <3>4 DEF RequestRow, Escalated
      <3>6. \A s \in Requests : s # r => request'[s] = request[s]
        BY <3>2 DEF TypeOK
      <3> QED
        BY <3>5, <3>6 DEF RowsFollow, Follows
    <2> QED
      BY <2>1, <2>2
  <1>4. \/ ledger' = ledger
        \/ \E row \in LedgerRow : row.request = NoRequest /\ ledger' = Append(ledger, row)
    <2>1. CASE ~ AccrualRow(p)
      BY <2>1 DEF JobStep, AccrualStart, AccrualRead, AccrualWrite, SweepRead, SweepWrite, database
    <2>2. CASE AccrualRow(p) /\ ledger' # ledger
      <3>1. call[p] \in AccrueCall
        BY <2>2, CallShape DEF AccrualRow
      <3>2. PICK u \in call[p].staff :
              ledger' = Append(ledger, LedgerEntry(u, "ACCRUAL", PerMonth, NoRequest, call[p].month))
        BY <2>2 DEF AccrualRow
      <3>3. call[p].month \in Nat /\ u \in Users /\ PerMonth \in Int
        BY <3>1, QuantityAssumption DEF AccrueCall, Months
      <3>4. LedgerEntry(u, "ACCRUAL", PerMonth, NoRequest, call[p].month) \in LedgerRow
        BY <3>3 DEF LedgerEntry, LedgerRow
      <3> QED
        BY <3>2, <3>4 DEF LedgerEntry
    <2> QED
      BY <2>1, <2>2
  <1> QED
    BY <1>1, <1>2, <1>3, <1>4, AsideIsEven

\* decide reads, or writes what it charges.
LEMMA ApproverEven ==
  ASSUME TypeOK, NEW p \in Calls, ApproverStep(p), ~ DecideClaim(p)
  PROVE  Even(p)
  <1>1. CASE DecideCheck(p) \/ DecideSplit(p)
    <2>1. PICK next : Become(p, next) /\ next.at \in {"split", "claim"}
      <3>1. CASE DecideCheck(p)
        BY <3>1 DEF DecideCheck
      <3>2. CASE DecideSplit(p)
        BY <3>2 DEF DecideSplit
      <3> QED
        BY <1>1, <3>1, <3>2
    <2>2. ~ Pays(next) /\ ~ Pays(call[p]) /\ ledger' = ledger /\ RowsFollow
      BY <1>1, <2>1, SameRowsFollow DEF DecideCheck, DecideSplit, database, Idle, Pays, Recomputes
    <2> QED
      BY <2>1, <2>2, AsideIsEven
  <1>2. CASE ChargeBalance(p)
    <2>1. call[p] \in ChargeCall /\ call[p].at = "charge"
      BY <1>2, CallShape DEF ChargeBalance
    <2>2. call' = [call EXCEPT ![p] = [call[p] EXCEPT !.at = "chargeRow"]]
      BY <1>2 DEF ChargeBalance, Become
    <2>3. /\ call'[p].at = "chargeRow" /\ call'[p].request = call[p].request
          /\ call'[p].days = call[p].days /\ \A q \in Calls : q # p => call'[q] = call[q]
      BY <2>1, <2>2 DEF ChargeCall, TypeOK
    <2>4. \A r \in Requests : Unbooked(call[p], r) = Unbooked(call'[p], r)
      BY <2>1, <2>3 DEF Unbooked
    <2>5. HolidayFits(call'[p], request)
      BY <2>3 DEF HolidayFits, Recomputes
    <2>6. ledger' = ledger /\ RowsFollow
      BY <1>2, SameRowsFollow DEF ChargeBalance
    <2> QED
      BY <2>3, <2>4, <2>5, <2>6 DEF Even
  <1>3. CASE ChargeRow(p)
    <2>1. call[p] \in ChargeCall /\ call[p].at = "chargeRow"
      BY <1>3, CallShape DEF ChargeRow
    <2>2. PICK days \in Nat, s \in Requests : s = call[p].request /\ days = call[p].days
      BY <2>1 DEF ChargeCall
    <2>3. PICK row \in LedgerRow : row = LedgerEntry(Owner[s], "USAGE", days, s, 0)
      <3>1. Owner[s] \in Users
        BY PeopleAssumption
      <3>2. LedgerEntry(Owner[s], "USAGE", days, s, 0) \in LedgerRow
        BY <3>1 DEF LedgerEntry, LedgerRow
      <3> QED
        BY <3>2
    <2>4. row.request = s /\ row.days = days
      BY <2>3 DEF LedgerEntry
    <2>5. ledger' = Append(ledger, row) /\ RowsFollow
      BY <1>3, <2>2, <2>3, SameRowsFollow DEF ChargeRow
    <2>6. call'[p].at = "idle" /\ \A q \in Calls : q # p => call'[q] = call[q]
      BY <1>3 DEF ChargeRow, Become, Idle, TypeOK
    <2>7. Carries(p, row)
      BY <2>1, <2>2, <2>4, <2>6 DEF Carries, Unbooked
    <2>8. HolidayFits(call'[p], request)
      BY <2>6 DEF HolidayFits, Recomputes
    <2> QED
      BY <2>5, <2>6, <2>7, <2>8 DEF Even
  <1> QED
    BY <1>1, <1>2, <1>3 DEF ApproverStep

\* A loop goes on with what is left of what it has read.
LEMMA ContinueFits ==
  ASSUME TypeOK, NEW p \in Calls, call[p] \in RecomputeCall \cup RefundCall,
         NEW todo \in SUBSET call[p].todo, Continue(p, todo)
  PROVE  /\ \A q \in Calls : q # p => call'[q] = call[q]
         /\ \A r \in Requests : Unbooked(call'[p], r) = 0
         /\ HolidayFits(call[p], request) => HolidayFits(call'[p], request)
  <1>1. /\ call'[p] = Idle \/ (/\ call'[p].at = "recompute" /\ call'[p].todo = todo
                               /\ call'[p].seen = call[p].seen)
        /\ \A q \in Calls : q # p => call'[q] = call[q]
    BY DEF Continue, Become, TypeOK
  <1>2. \A r \in Requests : Unbooked(call'[p], r) = 0
    BY <1>1 DEF Unbooked, Idle
  <1>3. Recomputes(call[p])
    BY DEF Recomputes, RecomputeCall, RefundCall
  <1>4. HolidayFits(call[p], request) => HolidayFits(call'[p], request)
    BY <1>1, <1>3 DEF HolidayFits, Idle, Recomputes
  <1> QED
    BY <1>1, <1>2, <1>4

LEMMA SnapshotEven == ASSUME TypeOK, NEW p \in Calls, HolidaySnapshot(p) PROVE Even(p)
  <1>1. PICK d \in Days : d = call[p].date
    BY CallShape DEF HolidaySnapshot, SnapshotCall
  <1>2. PICK affected, seen :
          /\ affected = Affected(d)
          /\ seen = [r \in Requests |->
                      IF r \in affected THEN [paid |-> request[r].paid, unpaid |-> request[r].unpaid]
                                        ELSE [paid |-> 0, unpaid |-> 0]]
    OBVIOUS
  <1>3. /\ \/ call'[p] = Idle
           \/ call'[p].at = "recompute" /\ call'[p].todo = affected /\ call'[p].seen = seen
        /\ \A q \in Calls : q # p => call'[q] = call[q]
    BY <1>1, <1>2 DEF HolidaySnapshot, Become, TypeOK
  <1>4. \A r \in affected : WasApproved(request[r]) /\ request[r].paid = seen[r].paid
    BY <1>2 DEF Affected, WasApproved
  <1>5. HolidayFits(call'[p], request)
    BY <1>3, <1>4 DEF HolidayFits, Recomputes, Idle
  <1>6. \A r \in Requests : Unbooked(call[p], r) = 0 /\ Unbooked(call'[p], r) = 0
    BY <1>3 DEF Unbooked, Idle, HolidaySnapshot
  <1>7. ledger' = ledger /\ RowsFollow
    BY SameRowsFollow DEF HolidaySnapshot, database
  <1> QED
    BY <1>3, <1>5, <1>6, <1>7 DEF Even

LEMMA RecountEven == ASSUME TypeOK, TypeOK', NEW p \in Calls, HolidayRecount(p) PROVE Even(p)
  <1>1. call[p] \in RecomputeCall /\ call[p].at = "recompute"
    BY CallShape DEF HolidayRecount
  <1>2. ledger' = ledger /\ RowsFollow
    BY SameRowsFollow DEF HolidayRecount, database
  <1>3. \A r \in Requests : Unbooked(call[p], r) = 0
    BY <1>1 DEF Unbooked
  <1>4. ASSUME NEW todo \in SUBSET call[p].todo, Continue(p, todo) PROVE Even(p)
    BY <1>1, <1>2, <1>3, <1>4, ContinueFits DEF Even
  <1>5. ASSUME NEW r \in call[p].todo, NEW total, NEW paid,
               paid = PaidAfter(call[p].seen[r], total),
               Become(p, [at |-> "shrink", date |-> call[p].date, todo |-> call[p].todo \ {r},
                          seen |-> call[p].seen, request |-> r, total |-> total,
                          paid |-> paid, days |-> call[p].seen[r].paid - paid])
        PROVE  Even(p)
    <2>1. /\ call'[p].at = "shrink" /\ call'[p].todo = call[p].todo \ {r}
          /\ call'[p].seen = call[p].seen /\ call'[p].request = r /\ call'[p].paid = paid
          /\ call'[p].days = call[p].seen[r].paid - paid
          /\ \A q \in Calls : q # p => call'[q] = call[q]
      BY <1>5 DEF Become, TypeOK
    <2>2. call'[p] \in CallState
      BY DEF TypeOK
    <2>3. call'[p].paid \in Nat
      BY <2>1, <2>2 DEF CallState, Idle, InsertCall, CancelCall, SplitCall, ClaimCall, ChargeCall,
         SnapshotCall, RecomputeCall, RefundCall, AccrueCall, CreditCall, CreditWriteCall, EscalateCall
    <2>4. call[p].seen[r].paid \in Nat
      BY <1>1 DEF RecomputeCall, Split
    <2>5. call[p].seen[r].paid = call'[p].paid + call'[p].days
      BY <2>1, <2>3, <2>4
    <2>6. HolidayFits(call[p], request) => HolidayFits(call'[p], request)
      BY <1>1, <2>1, <2>5 DEF HolidayFits, Recomputes
    <2>7. \A s \in Requests : Unbooked(call'[p], s) = 0
      BY <2>1 DEF Unbooked
    <2> QED
      BY <1>2, <1>3, <2>1, <2>6, <2>7 DEF Even
  <1>6. PICK r \in call[p].todo, total \in {CountWorkingDays(request[s].span, holidays) : s \in call[p].todo} :
          \/ Continue(p, call[p].todo \ {r})
          \/ \E paid \in {PaidAfter(call[p].seen[r], total)} :
               Become(p, [at |-> "shrink", date |-> call[p].date, todo |-> call[p].todo \ {r},
                          seen |-> call[p].seen, request |-> r, total |-> total,
                          paid |-> paid, days |-> call[p].seen[r].paid - paid])
    BY DEF HolidayRecount
  <1> QED
    BY <1>4, <1>5, <1>6
LEMMA RefundEven ==
  ASSUME TypeOK, NEW p \in Calls,
         RefundBalance(p) \/ (RefundRow(p) /\ ~ KeyTaken(Owner[call[p].request], "REFUND", call[p].date))
  PROVE  Even(p)
  <1>1. CASE RefundBalance(p)
    <2>1. call[p] \in RefundCall /\ call[p].at = "refund"
      BY <1>1, CallShape DEF RefundBalance
    <2>2. call' = [call EXCEPT ![p] = [call[p] EXCEPT !.at = "refundRow"]]
      BY <1>1 DEF RefundBalance, Become
    <2>3. /\ call'[p].at = "refundRow" /\ call'[p].request = call[p].request
          /\ call'[p].days = call[p].days /\ call'[p].todo = call[p].todo
          /\ call'[p].seen = call[p].seen /\ \A q \in Calls : q # p => call'[q] = call[q]
      BY <2>1, <2>2 DEF RefundCall, TypeOK
    <2>4. \A r \in Requests : Unbooked(call[p], r) = Unbooked(call'[p], r)
      BY <2>1, <2>3 DEF Unbooked
    <2>5. HolidayFits(call[p], request) => HolidayFits(call'[p], request)
      BY <2>1, <2>3 DEF HolidayFits, Recomputes
    <2>6. ledger' = ledger /\ RowsFollow
      BY <1>1, SameRowsFollow DEF RefundBalance
    <2> QED
      BY <2>3, <2>4, <2>5, <2>6 DEF Even
  <1>2. CASE RefundRow(p) /\ ~ KeyTaken(Owner[call[p].request], "REFUND", call[p].date)
    <2>1. call[p] \in RefundCall /\ call[p].at = "refundRow"
      BY <1>2, CallShape DEF RefundRow
    <2>2. PICK days \in Nat, s \in Requests, d \in Days :
            s = call[p].request /\ days = call[p].days /\ d = call[p].date
      BY <2>1 DEF RefundCall
    <2>3. PICK row \in LedgerRow : row = LedgerEntry(Owner[s], "REFUND", - days, s, d)
      <3>1. - days \in Int /\ d \in Nat /\ Owner[s] \in Users
        BY PeopleAssumption DEF Days
      <3>2. LedgerEntry(Owner[s], "REFUND", - days, s, d) \in LedgerRow
        BY <3>1 DEF LedgerEntry, LedgerRow
      <3> QED
        BY <3>2
    <2>4. row.request = s /\ row.days = - days
      BY <2>3 DEF LedgerEntry
    <2>5. ledger' = Append(ledger, row) /\ RowsFollow /\ Continue(p, call[p].todo)
      BY <1>2, <2>2, <2>3, SameRowsFollow DEF RefundRow
    <2>6. /\ \A q \in Calls : q # p => call'[q] = call[q]
          /\ \A r \in Requests : Unbooked(call'[p], r) = 0
          /\ HolidayFits(call[p], request) => HolidayFits(call'[p], request)
      BY <2>1, <2>5, ContinueFits
    <2>7. Carries(p, row)
      BY <2>1, <2>2, <2>4, <2>6 DEF Carries, Unbooked
    <2> QED
      BY <2>5, <2>6, <2>7 DEF Even
  <1> QED
    BY <1>1, <1>2

LEMMA AdminEven ==
  ASSUME TypeOK, TypeOK', NEW p \in Calls, AdminStep(p), ~ HolidayShrink(p), RefundKeysAreFree
  PROVE  Even(p)
  <1>1. CASE AddHoliday(p)
    <2>1. PICK next : Become(p, next) /\ next.at = "snapshot"
      BY <1>1 DEF AddHoliday
    <2>2. ~ Pays(next) /\ ~ Pays(call[p]) /\ ledger' = ledger /\ RowsFollow
      BY <1>1, <2>1, SameRowsFollow DEF AddHoliday, Idle, Pays, Recomputes
    <2> QED
      BY <2>1, <2>2, AsideIsEven
  <1>2. CASE DeleteHoliday(p)
    BY <1>2, SameRowsFollow DEF DeleteHoliday, Even
  <1>3. CASE RefundBalance(p) \/ RefundRow(p)
    BY <1>3, RefundEven DEF RefundKeysAreFree
  <1> QED
    BY <1>1, <1>2, <1>3, SnapshotEven, RecountEven DEF AdminStep, HolidayStep

\* A claim that wins is of a request nobody was charged for: it owes what it wrote as paid.
LEMMA ClaimKeepsPaid ==
  ASSUME IsFiniteSet(Calls), TypeOK, TypeOK', PaidInv, NEW p \in Calls, DecideClaim(p)
  PROVE  PaidInv'
  <1>1. call[p] \in ClaimCall /\ call[p].at = "claim"
    BY CallShape DEF DecideClaim
  <1>2. PICK s \in Requests, paid \in Nat :
          s = call[p].request /\ paid = call[p].paid
    BY <1>1 DEF ClaimCall
  <1>3. CASE ~ Claimable(s)
    <2>1. Become(p, Idle) /\ ledger' = ledger /\ request' = request
      BY <1>2, <1>3 DEF DecideClaim
    <2>2. ~ Pays(Idle) /\ ~ Pays(call[p])
      BY <1>1 DEF Pays, Recomputes, Idle
    <2> QED
      BY <2>1, <2>2, SameRowsFollow, AsideIsEven, EvenKeepsPaid
  <1>4. CASE Claimable(s)
    <2>1. PICK was \in [Requests -> RequestRow], is \in [Requests -> RequestRow],
               old \in [Calls -> CallState], new \in [Calls -> CallState], led \in Seq(LedgerRow) :
            was = request /\ is = request' /\ old = call /\ new = call' /\ led = ledger
      BY DEF TypeOK
    <2>2. is = [was EXCEPT ![s] =
                 [@ EXCEPT !.status = call[p].verdict, !.reviewer = call[p].caller, !.paid = paid,
                           !.unpaid = call[p].unpaid, !.approver = NoOne]]
      BY <1>2, <1>4, <2>1 DEF DecideClaim
    <2>3. /\ is[s].status = call[p].verdict /\ is[s].paid = paid /\ is[s].type = was[s].type
          /\ \A r \in Requests : r # s => is[r] = was[r]
      BY <2>2 DEF RequestRow
    <2>4. was[s].status = "PENDING"
      BY <1>4, <2>1 DEF Claimable
    <2>5. PICK owed \in BOOLEAN :
            owed <=> (call[p].verdict = "APPROVED" /\ paid > 0 /\ was[s].type # "UNPAID")
      OBVIOUS
    <2>6. /\ new[p] = IF owed THEN [at |-> "charge", request |-> s, days |-> paid] ELSE Idle
          /\ \A q \in Calls : q # p => new[q] = old[q]
          /\ ledger' = ledger
      BY <1>2, <1>4, <2>1, <2>5 DEF DecideClaim, Become
    <2>7. ASSUME NEW q \in Calls PROVE HolidayFits(new[q], is)
      <3>1. CASE q = p
        BY <2>6, <3>1 DEF HolidayFits, Recomputes, Idle
      <3>2. CASE q # p
        <4>1. HolidayFits(new[q], was) /\ new[q] \in CallState
          BY <2>1, <2>6, <3>2 DEF PaidInv
        <4>2. Recomputes(new[q]) => new[q].todo \in SUBSET Requests
          BY <4>1 DEF Recomputes, CallState, Idle, InsertCall, CancelCall, SplitCall, ClaimCall,
             ChargeCall, SnapshotCall, RecomputeCall, RefundCall, AccrueCall, CreditCall,
             CreditWriteCall, EscalateCall
        <4>3. new[q].at = "shrink" => new[q].request \in Requests
          BY <4>1 DEF CallState, Idle, InsertCall, CancelCall, SplitCall, ClaimCall, ChargeCall,
             SnapshotCall, RecomputeCall, RefundCall, AccrueCall, CreditCall, CreditWriteCall,
             EscalateCall
        <4>4. ~ WasApproved(was[s])
          BY <2>4 DEF WasApproved
        <4> QED
          BY <2>3, <4>1, <4>2, <4>3, <4>4 DEF HolidayFits
      <3> QED
        BY <3>1, <3>2
    <2>8. ASSUME NEW r \in Requests PROVE ChargedIsPaid(is[r], Charged(led, new, r))
      <3>1. /\ Charged(led, new, r) = Charged(led, old, r) - Unbooked(old[p], r) + Unbooked(new[p], r)
            /\ Charged(led, old, r) \in Int
        BY <2>6, ChargedMoves, ChargedIsInt
      <3>2. Unbooked(old[p], r) = 0 /\ Unbooked(new[p], r) = IF owed /\ r = s THEN paid ELSE 0
        BY <1>1, <2>1, <2>6 DEF Unbooked, Idle
      <3>3. ChargedIsPaid(was[r], Charged(led, old, r))
        BY <2>1 DEF PaidInv
      <3>4. PICK before \in Int, after \in Int :
              before = Charged(led, old, r) /\ after = Charged(led, new, r)
        BY <3>1, <3>2
      <3>5. after = before + (IF owed /\ r = s THEN paid ELSE 0)
        BY <3>1, <3>2, <3>4
      <3>6. ChargedIsPaid(was[r], before)
        BY <3>3, <3>4
      <3>7. CASE r # s
        BY <2>3, <3>4, <3>5, <3>6, <3>7
      <3>8. CASE r = s
        <4>1. before = 0
          BY <2>4, <3>6, <3>8 DEF ChargedIsPaid
        <4>2. call[p].verdict \in {"APPROVED", "REJECTED"}
          BY <1>1 DEF ClaimCall
        <4>3. CASE owed
          BY <2>3, <2>5, <3>4, <3>5, <3>8, <4>1, <4>2, <4>3 DEF ChargedIsPaid
        <4>4. CASE ~ owed
          <5>1. call[p].verdict # "APPROVED" \/ paid = 0 \/ was[s].type = "UNPAID"
            BY <1>2, <2>5, <4>4
          <5>2. after = 0 /\ is[s].status = call[p].verdict /\ is[s].paid = paid
            BY <2>3, <3>5, <4>1, <4>4
          <5>3. ChargedIsPaid(is[s], after)
            BY <2>3, <4>2, <5>1, <5>2 DEF ChargedIsPaid
          <5> QED
            BY <3>4, <3>8, <5>3
        <4> QED
          BY <4>3, <4>4
      <3> QED
        BY <3>7, <3>8
    <2> QED
      BY <2>1, <2>6, <2>7, <2>8 DEF PaidInv
  <1> QED
    BY <1>3, <1>4
\* The row gives up what the handler has now to give back.
LEMMA ShrinkKeepsPaid ==
  ASSUME IsFiniteSet(Calls), TypeOK, TypeOK', PaidInv, OneHoliday, NEW p \in Calls, HolidayShrink(p)
  PROVE  PaidInv'
  <1>1. call[p] \in RefundCall /\ call[p].at = "shrink"
    BY CallShape DEF HolidayShrink
  <1>2. PICK s \in Requests, paid \in Nat, days \in Nat :
          s = call[p].request /\ paid = call[p].paid /\ days = call[p].days
    BY <1>1 DEF RefundCall
  <1>3. PICK was \in [Requests -> RequestRow], is \in [Requests -> RequestRow],
             old \in [Calls -> CallState], new \in [Calls -> CallState], led \in Seq(LedgerRow) :
          was = request /\ is = request' /\ old = call /\ new = call' /\ led = ledger
    BY DEF TypeOK
  <1>4. is = [was EXCEPT ![s] = [@ EXCEPT !.total = call[p].total, !.paid = paid]]
    BY <1>2, <1>3 DEF HolidayShrink
  <1>5. /\ is[s].status = was[s].status /\ is[s].paid = paid /\ is[s].type = was[s].type
        /\ \A r \in Requests : r # s => is[r] = was[r]
    BY <1>4 DEF RequestRow
  <1>6. new = [old EXCEPT ![p] = [old[p] EXCEPT !.at = "refund"]] /\ ledger' = ledger
    BY <1>3 DEF HolidayShrink, Become
  <1>7. /\ new[p].at = "refund" /\ new[p].request = s /\ new[p].days = days
        /\ new[p].todo = old[p].todo /\ new[p].seen = old[p].seen
        /\ \A q \in Calls : q # p => new[q] = old[q]
    BY <1>1, <1>2, <1>3, <1>6 DEF RefundCall
  <1>8. HolidayFits(old[p], was)
    BY <1>3 DEF PaidInv
  <1>9. /\ \A r \in old[p].todo : WasApproved(was[r]) /\ was[r].paid = old[p].seen[r].paid
        /\ s \notin old[p].todo /\ WasApproved(was[s]) /\ was[s].paid = paid + days
    BY <1>1, <1>2, <1>3, <1>8 DEF HolidayFits, Recomputes
  <1>10. ASSUME NEW q \in Calls PROVE HolidayFits(new[q], is)
    <2>1. CASE q = p
      <3>1. old[p].todo \in SUBSET Requests
        BY <1>1, <1>3 DEF RefundCall
      <3>2. \A r \in old[p].todo : is[r] = was[r]
        BY <1>5, <1>9, <3>1
      <3> QED
        BY <1>7, <1>9, <2>1, <3>2 DEF HolidayFits
    <2>2. CASE q # p
      <3>1. ~ Recomputes(new[q])
        BY <1>1, <1>3, <1>7, <2>2 DEF OneHoliday, Recomputes
      <3> QED
        BY <3>1 DEF HolidayFits, Recomputes
    <2> QED
      BY <2>1, <2>2
  <1>11. ASSUME NEW r \in Requests PROVE ChargedIsPaid(is[r], Charged(led, new, r))
    <2>1. /\ Charged(led, new, r) = Charged(led, old, r) - Unbooked(old[p], r) + Unbooked(new[p], r)
          /\ Charged(led, old, r) \in Int
      BY <1>7, ChargedMoves, ChargedIsInt
    <2>2. Unbooked(old[p], r) = 0 /\ Unbooked(new[p], r) = IF r = s THEN - days ELSE 0
      BY <1>1, <1>3, <1>7 DEF Unbooked
    <2>3. ChargedIsPaid(was[r], Charged(led, old, r))
      BY <1>3 DEF PaidInv
    <2>4. PICK before \in Int, after \in Int :
            before = Charged(led, old, r) /\ after = Charged(led, new, r)
      BY <2>1, <2>2
    <2>5. after = before + (IF r = s THEN - days ELSE 0)
      BY <2>1, <2>2, <2>4
    <2>6. ChargedIsPaid(was[r], before)
      BY <2>3, <2>4
    <2>7. CASE r # s
      BY <1>5, <2>4, <2>5, <2>6, <2>7
    <2>8. CASE r = s
      <3>1. after = before - days /\ was[s].status \in {"APPROVED", "CANCELLED"}
        BY <1>9, <2>5, <2>8 DEF WasApproved
      <3>2. ChargedIsPaid(is[s], after)
        BY <1>5, <1>9, <2>6, <2>8, <3>1 DEF ChargedIsPaid
      <3> QED
        BY <2>4, <2>8, <3>2
    <2> QED
      BY <2>7, <2>8
  <1> QED
    BY <1>3, <1>6, <1>10, <1>11 DEF PaidInv

LEMMA PaidAtFirst == ASSUME IsFiniteSet(Calls), Init PROVE PaidInv
  <1>1. PICK led \in Seq(LedgerRow), calls \in [Calls -> CallState] :
          led = ledger /\ calls = call /\ led = <<>> /\ \A p \in Calls : calls[p] = Idle
    <2>1. ledger \in Seq(LedgerRow) /\ ledger = <<>>
      BY DEF Init
    <2>2. call \in [Calls -> CallState] /\ \A p \in Calls : call[p] = Idle
      BY DEF Init, CallState
    <2> QED
      BY <2>1, <2>2
  <1>2. ASSUME NEW r \in Requests PROVE Charged(led, calls, r) = 0
    <2> DEFINE F == UnbookedBy(calls, r)
               S == RowsFor(led, r)
    <2>1. \A p \in Calls : F[p] = 0
      BY <1>1 DEF UnbookedBy, Unbooked, Idle
    <2>2. S = {}
      BY <1>1 DEF RowsFor
    <2>3. S \in SUBSET DOMAIN led
      BY <2>2
    <2>4. Charged(led, calls, r) = SumRows(led, S) + Total(F, Calls)
      BY DEF Charged
    <2> HIDE DEF F, S
    <2>5. SumRows(led, S) = Total(DaysIn(led), S) /\ IsFiniteSet(S)
      BY <2>3, SumRowsIsTotal
    <2>6. Total(DaysIn(led), S) = 0 /\ Total(F, Calls) = 0
      BY <2>1, <2>2, <2>5, TotalZero
    <2> QED
      BY <2>4, <2>5, <2>6
  <1>3. \A r \in Requests : ChargedIsPaid(request[r], Charged(ledger, call, r))
    <2>1. \A r \in Requests : request[r].status = "none"
      BY DEF Init
    <2> QED
      BY <1>1, <1>2, <2>1 DEF ChargedIsPaid
  <1>4. \A p \in Calls : HolidayFits(call[p], request)
    BY DEF Init, Idle, HolidayFits, Recomputes
  <1> QED
    BY <1>3, <1>4 DEF PaidInv

LEMMA StillKeepsPaid ==
  ASSUME TypeOK, TypeOK', PaidInv, UNCHANGED <<ledger, call>>, RowsFollow
  PROVE  PaidInv'
  <1>1. ASSUME NEW q \in Calls PROVE HolidayFits(call'[q], request')
    <2>1. PICK was \in [Requests -> RequestRow], is \in [Requests -> RequestRow], c \in CallState :
            was = request /\ is = request' /\ c = call[q]
      BY DEF TypeOK
    <2>2. \A r \in Requests : Follows(was[r], is[r])
      BY <2>1 DEF RowsFollow
    <2>3. HolidayFits(c, was)
      BY <2>1 DEF PaidInv
    <2> QED
      BY <2>1, <2>2, <2>3, FollowsFits
  <1>2. ASSUME NEW r \in Requests
        PROVE  ChargedIsPaid(request'[r], Charged(ledger', call', r))
    <2>1. PICK days : days = Charged(ledger, call, r)
      OBVIOUS
    <2>2. ChargedIsPaid(request[r], days) /\ Follows(request[r], request'[r])
      BY <2>1 DEF PaidInv, RowsFollow
    <2>3. ChargedIsPaid(request'[r], days)
      BY <2>2 DEF ChargedIsPaid, Follows
    <2> QED
      BY <2>1, <2>3
  <1> QED
    BY <1>1, <1>2 DEF PaidInv

LEMMA EnvironmentFollows == ASSUME TypeOK, Environment PROVE UNCHANGED <<ledger, call>> /\ RowsFollow
  <1>1. CASE AdvanceDay
    BY <1>1, SameRowsFollow DEF AdvanceDay, database
  <1>2. ASSUME NEW r \in Requests, BecomeDue(r) PROVE UNCHANGED <<ledger, call>> /\ RowsFollow
    <2>1. request' = [request EXCEPT ![r].due = TRUE] /\ request[r] \in RequestRow
      BY <1>2 DEF BecomeDue, TypeOK
    <2>2. request'[r] = [request[r] EXCEPT !.due = TRUE]
      BY <2>1 DEF TypeOK
    <2>3. /\ request'[r].status = request[r].status /\ request'[r].paid = request[r].paid
          /\ request'[r].type = request[r].type
      BY <2>1, <2>2 DEF RequestRow
    <2>4. \A s \in Requests : s # r => request'[s] = request[s]
      BY <2>1 DEF TypeOK
    <2> QED
      BY <1>2, <2>3, <2>4 DEF BecomeDue, RowsFollow, Follows
  <1> QED
    BY <1>1, <1>2 DEF Environment

LEMMA PaidStep ==
  ASSUME IsFiniteSet(Calls), TypeOK, TypeOK', PaidInv, OneHoliday, [Next]_vars, RefundKeysAreFree,
         failures' = 0
  PROVE  PaidInv'
  <1>1. CASE UNCHANGED vars
    BY <1>1, SameRowsFollow, StillKeepsPaid DEF vars
  <1>2. CASE Environment
    BY <1>2, EnvironmentFollows, StillKeepsPaid
  <1>3. ASSUME NEW p \in Calls, EmployeeStep(p) \/ JobStep(p) PROVE PaidInv'
    BY <1>3, EmployeeEven, JobEven, EvenKeepsPaid
  <1>4. ASSUME NEW p \in Calls, ApproverStep(p) PROVE PaidInv'
    BY <1>4, ApproverEven, ClaimKeepsPaid, EvenKeepsPaid
  <1>5. ASSUME NEW p \in Calls, AdminStep(p) PROVE PaidInv'
    BY <1>5, AdminEven, ShrinkKeepsPaid, EvenKeepsPaid
  <1>6. ASSUME NEW p \in Calls, FinanceStep(p) PROVE PaidInv'
    BY <1>6, SameRowsFollow, StillKeepsPaid DEF FinanceStep, LockMonth, UnlockMonth
  <1>7. ASSUME NEW p \in Calls, Fail(p) PROVE PaidInv'
    BY <1>7 DEF Fail, TypeOK
  <1> QED
    BY <1>1, <1>2, <1>3, <1>4, <1>5, <1>6, <1>7 DEF Next

\* A request that no handler charges or refunds has in the ledger what it is charged.
LEMMA PaidIsInLedger ==
  ASSUME IsFiniteSet(Calls), TypeOK, failures = 0 => PaidInv
  PROVE  LedgerMatchesPaid
  <1> SUFFICES ASSUME failures = 0, NEW r \in Requests, request[r].type # "UNPAID", ~ Busy(r),
                      request[r].status = "APPROVED"
               PROVE  LedgerDays(RowsOf(r)) = request[r].paid
    BY DEF LedgerMatchesPaid
  <1>1. PICK led \in Seq(LedgerRow), calls \in [Calls -> CallState] : led = ledger /\ calls = call
    BY DEF TypeOK
  <1>2. \A p \in Calls : UnbookedBy(calls, r)[p] = 0
    <2>1. \A p \in Calls : Unbooked(calls[p], r) = 0
      BY <1>1 DEF Busy, Charging, Refunding, Unbooked
    <2> QED
      BY <2>1, UnbookedTyped
  <1>3. Total(UnbookedBy(calls, r), Calls) = 0
    BY <1>2, TotalZero
  <1>4. SumRows(led, RowsFor(led, r)) \in Int
    BY ChargedIsInt
  <1>5. Charged(led, calls, r) = SumRows(led, RowsFor(led, r))
    BY <1>3, <1>4 DEF Charged
  <1>6. Charged(led, calls, r) = request[r].paid
    BY <1>1 DEF PaidInv, ChargedIsPaid
  <1>7. SumRows(ledger, RowsFor(ledger, r)) = LedgerDays(RowsOf(r))
    BY DEF SumRows, LedgerDays, RowsFor, RowsOf, MapThenSumSet, MapThenFoldSet
  <1> QED
    BY <1>1, <1>5, <1>6, <1>7

\* decide and addHoliday: what an approved leave has in the ledger, charges less refunds, is what
\* its row says is paid, however many requests and approvers there are, while one handler at a
\* time recomputes leave for a holiday, no refund meets a key that is taken and no handler dies.
THEOREM LedgerTellsPaid ==
  IsFiniteSet(Calls) => (Spec /\ [][RefundKeysAreFree]_vars /\ []OneHoliday => []LedgerMatchesPaid)
  <1> SUFFICES ASSUME IsFiniteSet(Calls)
               PROVE  Spec /\ [][RefundKeysAreFree]_vars /\ []OneHoliday => []LedgerMatchesPaid
    OBVIOUS
  <1> DEFINE Inv == failures = 0 => PaidInv
  <1>1. Init => Inv
    BY PaidAtFirst
  <1>2. TypeOK /\ TypeOK' /\ OneHoliday /\ Inv /\ [Next]_vars /\ [RefundKeysAreFree]_vars => Inv'
    <2> SUFFICES ASSUME TypeOK, TypeOK', OneHoliday, Inv, [Next]_vars, [RefundKeysAreFree]_vars,
                        failures' = 0
                 PROVE  PaidInv'
      OBVIOUS
    <2>1. PaidInv
      BY FailuresStay
    <2>2. CASE UNCHANGED vars
      BY <2>1, <2>2, SameRowsFollow, StillKeepsPaid DEF vars
    <2>3. CASE RefundKeysAreFree
      BY <2>1, <2>3, PaidStep
    <2> QED
      BY <2>2, <2>3
  <1>3. TypeOK /\ Inv => LedgerMatchesPaid
    BY PaidIsInLedger
  <1>4. Spec => []TypeOK
    BY TypeCorrect
  <1> HIDE DEF Inv
  <1> QED
    BY <1>1, <1>2, <1>3, <1>4, PTL DEF Spec

\* The same of the family the run checks, where one approver works.
THEOREM OneApproverCharges ==
  IsFiniteSet(Calls) =>
    (MCSpec /\ [][RefundKeysAreFree]_vars /\ []OneHoliday => []BookedIsCharged)
  <1> SUFFICES ASSUME IsFiniteSet(Calls)
               PROVE  MCSpec /\ [][RefundKeysAreFree]_vars /\ []OneHoliday => []BookedIsCharged
    OBVIOUS
  <1>1. MCInit => Init
    BY DEF MCInit
  <1>2. [MCNext]_<<vars, mode>> => [Next]_vars
    BY DEF MCNext
  <1>3. MCSpec => Spec
    BY <1>1, <1>2, PTL DEF MCSpec, Spec
  <1>4. LedgerMatchesPaid => BookedIsCharged
    BY DEF BookedIsCharged
  <1> QED
    BY <1>3, <1>4, LedgerTellsPaid, PTL
=============================================================================
