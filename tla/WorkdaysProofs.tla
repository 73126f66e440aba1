--------------------------- MODULE WorkdaysProofs ---------------------------
(***************************************************************************)
(* Proofs of EffectsHappenOnce, whoever approves a correction or a         *)
(* power-cut credit, it is applied at most once and only if approved; of   *)
(* ExportsStand, the figures of an exported month do not move; of          *)
(* IdleIsStretches, no outage is credited twice; and of TimeCountsOnce,    *)
(* time that sessions share counts once.                                   *)
(***************************************************************************)
EXTENDS WorkdaysProperties, FiniteSetTheorems, SequenceTheorems, WellFoundedInduction, TLAPS

Fields == {"user", "day", "kind", "in", "out", "status"}
IsRequest(q) == q = [x \in Fields |-> q[x]]
Approved(r) == IsRequest(request[r]) /\ request[r].status = "APPROVED"

Applying(b) == b.at \in {"correct", "credit", "uncharge"}

RequestsInv ==
  /\ request = [r \in Requests |-> request[r]]
  /\ \A r \in Requests : request[r] = NoRow \/ IsRequest(request[r])

EffectsInv ==
  /\ effects = [r \in Requests |-> effects[r]]
  /\ \A r \in Requests : effects[r] = 0 \/ (effects[r] = 1 /\ Approved(r))

\* An approval that is being applied is the only one of its request, which has had no effect yet.
\* What a handler returns to after a day's marks applies nothing.
CallsInv ==
  /\ call = [c \in Calls |-> call[c]]
  /\ \A c \in Calls :
       /\ call[c].at = "claim" => call[c].r \in Requests /\ IsRequest(request[call[c].r])
       /\ Applying(call[c]) => call[c].r \in Requests /\ Approved(call[c].r) /\ effects[call[c].r] = 0
       /\ call[c].at \in {"mark", "flip"} => call[c].rest.at \in {"idle", "work"}
  /\ \A b, c \in Calls :
       Applying(call[b]) /\ Applying(call[c]) /\ b # c => call[b].r # call[c].r

\* The inductive invariant.
OnceInv == RequestsInv /\ EffectsInv /\ CallsInv

LEMMA NoRowIsNoRequest == ~ IsRequest(NoRow)
  BY DEF IsRequest, NoRow, Fields

-----------------------------------------------------------------------------
\* A handler moves on to something that is not a claim and applies nothing.

Harmless(next) ==
  /\ next.at # "claim" /\ ~ Applying(next)
  /\ next.at \in {"mark", "flip"} => next.rest.at \in {"idle", "work"}

LEMMA HarmlessKeeps ==
  ASSUME OnceInv, NEW c \in Calls, NEW next, Harmless(next), Become(c, next),
         UNCHANGED <<request, effects>>
  PROVE  OnceInv'
  <1>1. RequestsInv' /\ EffectsInv'
    BY DEF OnceInv, RequestsInv, EffectsInv, Approved
  <1>2. CallsInv'
    BY DEF OnceInv, CallsInv, Harmless, Become, Approved
  <1> QED BY <1>1, <1>2 DEF OnceInv

LEMMA IdleIsHarmless == Harmless(Idle)
  BY DEF Harmless, Idle, Applying

LEMMA WorkIsHarmless ==
  ASSUME NEW todo, NEW lates, NEW night, NEW known
  PROVE  /\ Harmless(Work(todo, lates, night, known))
         /\ Work(todo, lates, night, known).at \in {"idle", "work"}
  BY DEF Harmless, Work, Idle, Applying

LEMMA QuietKeeps ==
  ASSUME OnceInv, UNCHANGED <<request, effects, call>>
  PROVE  OnceInv'
  BY DEF OnceInv, RequestsInv, EffectsInv, CallsInv, Approved

-----------------------------------------------------------------------------
\* Requests: made, decided, claimed and applied.

LEMMA InsertKeeps ==
  ASSUME OnceInv, NEW c \in Calls, RequestInsert(c)
  PROVE  OnceInv'
  <1> PICK r \in Requests :
        /\ request[r] = NoRow
        /\ request' = [request EXCEPT ![r] =
             [user |-> call[c].user, day |-> call[c].x.day, kind |-> call[c].x.kind,
              in |-> call[c].x.in, out |-> call[c].x.out, status |-> "PENDING"]]
    BY DEF RequestInsert
  <1>1. IsRequest(request'[r])
    BY DEF IsRequest, Fields, OnceInv, RequestsInv
  <1>2. \A q \in Requests : q # r => request'[q] = request[q]
    BY DEF OnceInv, RequestsInv
  <1>3. ~ IsRequest(request[r])
    BY NoRowIsNoRequest
  <1>4. Become(c, Idle) /\ UNCHANGED effects
    BY DEF RequestInsert, Continue
  <1>5. RequestsInv'
    BY <1>1, <1>2 DEF OnceInv, RequestsInv
  <1>6. EffectsInv'
    BY <1>2, <1>3, <1>4 DEF OnceInv, EffectsInv, Approved
  <1>7. CallsInv'
    BY <1>1, <1>2, <1>3, <1>4, IdleIsHarmless DEF OnceInv, CallsInv, Harmless, Become, Approved
  <1> QED BY <1>5, <1>6, <1>7 DEF OnceInv

LEMMA LoadKeeps ==
  ASSUME OnceInv, NEW c \in Calls, NEW r \in Requests, NEW a, NEW approve,
         DecideLoad(c, r, a, approve)
  PROVE  OnceInv'
  <1>1. PICK span : Become(c, [at |-> "claim", r |-> r, approve |-> approve, span |-> span])
    BY DEF DecideLoad, Begin
  <1>2. UNCHANGED <<request, effects>> /\ request[r] # NoRow
    BY DEF DecideLoad, Begin, records
  <1>3. IsRequest(request[r])
    BY <1>2 DEF OnceInv, RequestsInv
  <1>4. RequestsInv' /\ EffectsInv'
    BY <1>2 DEF OnceInv, RequestsInv, EffectsInv, Approved
  <1>5. CallsInv'
    BY <1>1, <1>2, <1>3 DEF OnceInv, CallsInv, Become, Approved, Applying
  <1> QED BY <1>4, <1>5 DEF OnceInv

\* The claim is where two approvals of one request are told apart.
LEMMA ClaimKeeps ==
  ASSUME OnceInv, NEW c \in Calls, DecideClaim(c)
  PROVE  OnceInv'
  <1> DEFINE r == call[c].r
             won == IF call[c].approve THEN "APPROVED" ELSE "REJECTED"
  <1>1. r \in Requests /\ IsRequest(request[r])
    BY DEF OnceInv, CallsInv, DecideClaim
  <1>2. CASE request[r].status # "PENDING"
    <2>1. Become(c, Idle) /\ UNCHANGED <<request, effects>>
      BY <1>2 DEF DecideClaim, Continue, records
    <2> QED BY <2>1, HarmlessKeeps, IdleIsHarmless
  <1>3. CASE request[r].status = "PENDING"
    <2>1. /\ Become(c, AfterClaim(c)) /\ UNCHANGED effects
          /\ request' = [request EXCEPT ![r].status = won]
      BY <1>3 DEF DecideClaim, ClaimAlways, Continue
    <2>2. IsRequest(request'[r]) /\ request'[r].status = won
      BY <1>1, <2>1 DEF IsRequest, Fields, OnceInv, RequestsInv
    <2>3. \A q \in Requests : q # r => request'[q] = request[q]
      BY <2>1 DEF OnceInv, RequestsInv
    <2>4. RequestsInv'
      BY <2>1, <2>2, <2>3 DEF OnceInv, RequestsInv
    <2>5. effects[r] = 0 /\ \A b \in Calls : Applying(call[b]) => call[b].r # r
      BY <1>1, <1>3 DEF OnceInv, EffectsInv, CallsInv, Approved
    <2>6. EffectsInv'
      BY <2>1, <2>3, <2>5 DEF OnceInv, EffectsInv, Approved
    <2>7. /\ AfterClaim(c).at # "claim" /\ AfterClaim(c).at \notin {"mark", "flip"}
          /\ Applying(AfterClaim(c)) => AfterClaim(c).r = r /\ won = "APPROVED"
      BY DEF AfterClaim, Idle, Applying
    <2>8. call' = [call EXCEPT ![c] = AfterClaim(c)]
      BY <2>1 DEF Become
    <2>9. CallsInv'
      BY <1>1, <2>1, <2>2, <2>3, <2>5, <2>7, <2>8 DEF OnceInv, CallsInv, Approved
    <2> QED BY <2>4, <2>6, <2>9 DEF OnceInv
  <1> QED BY <1>2, <1>3

\* A handler that applies an approval has its effect and goes on to the day's marks.
LEMMA EffectKeeps ==
  ASSUME OnceInv, NEW c \in Calls, Applying(call[c]), NEW next, Harmless(next), Become(c, next),
         TakesEffect(call[c].r), UNCHANGED request
  PROVE  OnceInv'
  <1>1. /\ call[c].r \in Requests /\ Approved(call[c].r) /\ effects[call[c].r] = 0
        /\ \A b \in Calls : Applying(call[b]) /\ b # c => call[b].r # call[c].r
    BY DEF OnceInv, CallsInv
  <1>2. effects' = [effects EXCEPT ![call[c].r] = 1]
    BY <1>1 DEF TakesEffect
  <1>3. RequestsInv' /\ EffectsInv'
    BY <1>1, <1>2 DEF OnceInv, RequestsInv, EffectsInv, Approved
  <1>4. CallsInv'
    BY <1>1, <1>2 DEF OnceInv, EffectsInv, CallsInv, Harmless, Become, Approved
  <1> QED BY <1>3, <1>4 DEF OnceInv

LEMMA ApplyKeeps ==
  ASSUME OnceInv, NEW c \in Calls, CorrectiveInsert(c) \/ CreditRead(c) \/ CreditWrite(c)
  PROVE  OnceInv'
  <1>1. Harmless(DayOfRequest(call[c].r))
    BY WorkIsHarmless DEF DayOfRequest
  <1>2. CASE CorrectiveInsert(c)
    BY <1>1, <1>2, EffectKeeps DEF CorrectiveInsert, Continue, Applying
  <1>3. CASE CreditRead(c)
    <2>1. UNCHANGED <<request, effects>> /\ Applying(call[c])
      BY <1>3 DEF CreditRead, Continue, records, Applying
    <2>2. PICK cut, kept, credit :
            Become(c, [at |-> "uncharge", r |-> call[c].r, cut |-> cut, kept |-> kept,
                       credit |-> credit])
      BY <1>3, Zenon DEF CreditRead, Continue
    <2>3. RequestsInv' /\ EffectsInv'
      BY <2>1 DEF OnceInv, RequestsInv, EffectsInv, Approved
    <2>4. CallsInv'
      BY <2>1, <2>2 DEF OnceInv, CallsInv, Become, Approved, Applying
    <2> QED BY <2>3, <2>4 DEF OnceInv
  <1>4. CASE CreditWrite(c)
    <2>1. CASE UnchargeRows(c, call[c].cut)
      BY <1>1, <1>4, <2>1, EffectKeeps DEF UnchargeRows, CreditWrite, Continue, Applying
    <2>2. CASE Continue(c, "uncharge", Idle) /\ UNCHANGED effects
      BY <1>4, <2>2, HarmlessKeeps, IdleIsHarmless DEF CreditWrite, Continue
    <2> QED BY <1>4, <2>1, <2>2 DEF CreditWrite
  <1> QED BY <1>2, <1>3, <1>4

-----------------------------------------------------------------------------
\* Leave, marks, deductions and exports apply no request.

LEMMA BeginKeeps ==
  ASSUME OnceInv, NEW c \in Calls,
         \/ \E u \in Users, x \in Corrections : RequestCheck(c, u, x)
         \/ \E l \in Leaves : LeaveLoad(c, l)
         \/ \E d \in Days : Nightly(c, d)
         \/ \E m \in Months : ExportLoad(c, m)
  PROVE  OnceInv'
  <1>1. UNCHANGED <<request, effects>>
    BY DEF RequestCheck, LeaveLoad, Nightly, ExportLoad, Begin, records
  <1>2. ASSUME NEW u, NEW x, RequestCheck(c, u, x) PROVE OnceInv'
    <2> DEFINE next == [at |-> "insert", user |-> u, x |-> x]
    <2>1. Become(c, next)
      BY <1>2 DEF RequestCheck, Begin
    <2>2. Harmless(next)
      BY DEF Harmless, Applying
    <2> HIDE DEF next
    <2> QED BY <1>1, <2>1, <2>2, HarmlessKeeps
  <1>3. ASSUME NEW l, LeaveLoad(c, l) PROVE OnceInv'
    <2> DEFINE next == [at |-> "grant", l |-> l]
    <2>1. Become(c, next)
      BY <1>3 DEF LeaveLoad, Begin
    <2>2. Harmless(next)
      BY DEF Harmless, Applying
    <2> HIDE DEF next
    <2> QED BY <1>1, <2>1, <2>2, HarmlessKeeps
  <1>4. ASSUME NEW d, Nightly(c, d) PROVE OnceInv'
    <2>1. Become(c, Work(SetToSeq(Users \X {d}), {}, d, holidays \cap {d}))
      BY <1>4 DEF Nightly, Begin
    <2> QED BY <1>1, <2>1, HarmlessKeeps, WorkIsHarmless
  <1>5. ASSUME NEW m, ExportLoad(c, m) PROVE OnceInv'
    <2> DEFINE next == [at |-> "figures", m |-> m, locks |-> payroll[m].locks]
    <2>1. Become(c, next)
      BY <1>5 DEF ExportLoad, Begin
    <2>2. Harmless(next)
      BY DEF Harmless, Applying
    <2> HIDE DEF next
    <2> QED BY <1>1, <2>1, <2>2, HarmlessKeeps
  <1> QED BY <1>2, <1>3, <1>4, <1>5

LEMMA MarksKeep ==
  ASSUME OnceInv, NEW c \in Calls, ReadDay(c) \/ WriteDay(c) \/ ReadLates(c) \/ WriteLates(c)
  PROVE  OnceInv'
  <1>1. UNCHANGED <<request, effects>>
    BY DEF ReadDay, ReadMarks, WriteDay, ReadLates, WriteLates, records
  <1>2. CASE ReadDay(c)
    <2>1. Harmless(RestOfWork(c)) /\ RestOfWork(c).at \in {"idle", "work"}
      BY WorkIsHarmless DEF RestOfWork
    <2>2. CASE Continue(c, "work", RestOfWork(c))
      BY <1>1, <2>1, <2>2, HarmlessKeeps DEF Continue
    <2>3. CASE ReadMarks(c)
      <3>1. PICK u, d, marks :
              Become(c, [at |-> "mark", user |-> u, day |-> d, marks |-> marks, rest |-> RestOfWork(c)])
        BY <2>3, Zenon DEF ReadMarks, Continue
      <3> DEFINE next == [at |-> "mark", user |-> u, day |-> d, marks |-> marks, rest |-> RestOfWork(c)]
      <3>2. Harmless(next)
        BY <2>1 DEF Harmless, Applying
      <3> HIDE DEF next
      <3> QED BY <1>1, <3>1, <3>2, HarmlessKeeps DEF next
    <2> QED BY <1>2, <2>2, <2>3 DEF ReadDay
  <1>3. CASE WriteDay(c) \/ WriteLates(c)
    <2>1. Become(c, call[c].rest) /\ call[c].at \in {"mark", "flip"}
      BY <1>3 DEF WriteDay, WriteLates, Continue
    <2>2. Harmless(call[c].rest)
      BY <2>1 DEF OnceInv, CallsInv, Harmless, Applying
    <2> QED BY <1>1, <2>1, <2>2, HarmlessKeeps
  <1>4. CASE ReadLates(c)
    <2>1. PICK um : \E next :
            /\ Become(c, next)
            /\ LET rest == Work(<<>>, call[c].lates \ {um}, call[c].night, call[c].known)
               IN next = rest \/ \E flips : next = [at |-> "flip", rest |-> rest, flips |-> flips]
      BY <1>4, Zenon DEF ReadLates, Continue
    <2>2. PICK next :
            /\ Become(c, next)
            /\ LET rest == Work(<<>>, call[c].lates \ {um}, call[c].night, call[c].known)
               IN next = rest \/ \E flips : next = [at |-> "flip", rest |-> rest, flips |-> flips]
      BY <2>1
    <2>3. Harmless(next)
      BY <2>2, WorkIsHarmless DEF Harmless, Applying
    <2> QED BY <1>1, <2>2, <2>3, HarmlessKeeps
  <1> QED BY <1>2, <1>3, <1>4

LEMMA LeaveAndExportKeep ==
  ASSUME OnceInv, NEW c \in Calls,
         LeaveClaim(c) \/ NightTally(c) \/ NightApply(c) \/ ExportRead(c) \/ ExportInsert(c)
  PROVE  OnceInv'
  <1>1. UNCHANGED <<request, effects>>
    BY DEF LeaveClaim, NightTally, NightApply, ExportRead, ExportInsert, records
  <1>2. CASE LeaveClaim(c)
    <2>1. \/ Become(c, Idle)
          \/ \E todo, lates : Become(c, Work(todo, lates, Open, {}))
      BY <1>2, Zenon DEF LeaveClaim, Continue
    <2> QED BY <1>1, <2>1, HarmlessKeeps, IdleIsHarmless, WorkIsHarmless
  <1>3. CASE NightTally(c)
    <2>1. PICK d, applies : Become(c, [at |-> "tally", day |-> d, applies |-> applies])
      BY <1>3, Zenon DEF NightTally, Continue
    <2> DEFINE next == [at |-> "tally", day |-> d, applies |-> applies]
    <2>2. Harmless(next)
      BY DEF Harmless, Applying
    <2> HIDE DEF next
    <2> QED BY <1>1, <2>1, <2>2, HarmlessKeeps DEF next
  <1>4. CASE ExportRead(c)
    <2>1. PICK m, locks, revision, figures :
            Become(c, [at |-> "export", m |-> m, locks |-> locks, revision |-> revision,
                       rows |-> figures])
      BY <1>4, Zenon DEF ExportRead, Continue
    <2> DEFINE next == [at |-> "export", m |-> m, locks |-> locks, revision |-> revision,
                        rows |-> figures]
    <2>2. Harmless(next)
      BY DEF Harmless, Applying
    <2> HIDE DEF next
    <2> QED BY <1>1, <2>1, <2>2, HarmlessKeeps DEF next
  <1>5. CASE NightApply(c) \/ ExportInsert(c)
    BY <1>1, <1>5, HarmlessKeeps, IdleIsHarmless DEF NightApply, ExportInsert, Continue
  <1> QED BY <1>2, <1>3, <1>4, <1>5

-----------------------------------------------------------------------------
LEMMA OnceInitially == Init => OnceInv
  <1> SUFFICES ASSUME Init PROVE OnceInv
    OBVIOUS
  <1>1. RequestsInv /\ EffectsInv
    BY DEF Init, RequestsInv, EffectsInv
  <1>2. call = [c \in Calls |-> Idle]
    BY DEF Init
  <1>3. CallsInv
    BY <1>2, IdleIsHarmless DEF CallsInv, Harmless
  <1> QED BY <1>1, <1>3 DEF OnceInv

LEMMA OnceStep == OnceInv /\ [Next]_vars => OnceInv'
  <1> SUFFICES ASSUME OnceInv, [Next]_vars PROVE OnceInv'
    OBVIOUS
  <1>1. CASE UNCHANGED vars
    BY <1>1, QuietKeeps DEF vars, records
  <1>2. CASE \/ NextDay
             \/ \E h \in HolidayDays : AddHoliday(h)
             \/ \E m \in Months : Lock(m) \/ Unlock(m)
    <2>1. UNCHANGED <<request, effects, call>>
      BY <1>2 DEF NextDay, AddHoliday, Lock, Unlock
    <2> QED BY <2>1, QuietKeeps
  <1>3. CASE Restart
    <2>1. call' = [c \in Calls |-> Idle] /\ UNCHANGED <<request, effects>>
      BY <1>3 DEF Restart, records
    <2>2. RequestsInv' /\ EffectsInv'
      BY <2>1 DEF OnceInv, RequestsInv, EffectsInv, Approved
    <2>3. CallsInv'
      BY <2>1, IdleIsHarmless DEF CallsInv, Harmless
    <2> QED BY <2>2, <2>3 DEF OnceInv
  <1>4. ASSUME NEW c \in Calls, Step(c) PROVE OnceInv'
    BY <1>4, BeginKeeps, InsertKeeps, LoadKeeps, ClaimKeeps, ApplyKeeps, MarksKeep,
       LeaveAndExportKeep DEF Step
  <1> QED BY <1>1, <1>2, <1>3, <1>4 DEF Next

\* RegularizationService.decide: two approvals of one request, restarts and retries included,
\* insert one corrective session or credit the outage once, and a rejected one does neither.
THEOREM ApprovalsApplyOnce == Spec => []EffectsHappenOnce
  <1>1. OnceInv => EffectsHappenOnce
    BY DEF OnceInv, EffectsInv, EffectsHappenOnce, Approved
  <1> QED BY <1>1, OnceInitially, OnceStep, PTL DEF Spec

-----------------------------------------------------------------------------
\* The shape of days, leaves, months and handlers.  x always names the state of a handler.

DayFields == {"worked", "overtime", "idle", "late", "status", "computed", "deducted"}
IsDayRow(q) == q = [f \in DayFields |-> q[f]]

DaysInv ==
  /\ today \in Days
  /\ day = [x \in Users \X Days |-> day[x]]
  /\ \A x \in Users \X Days : day[x] = NoRow \/ IsDayRow(day[x])

MonthsInv ==
  /\ payroll = [m \in Months |-> [f \in {"locked", "locks", "clean"} |-> payroll[m][f]]]
  /\ \A m \in Months : payroll[m].locks \in Nat
  /\ leave = [l \in Leaves |-> [f \in {"status", "paid"} |-> leave[l][f]]]

AskedInv == \A r \in Requests : request[r] # NoRow => request[r].day \in Days

\* Late deductions are redone for months the calendar has, and exports made of them.
IsWork(w) ==
  /\ w.at \in {"idle", "work"}
  /\ w.at = "work" => \A um \in w.lates : um[2] \in Months
Shaped(x) ==
  /\ x.at = "insert" => x.x.day \in Days
  /\ x.at = "grant" => x.l \in Leaves
  /\ x.at = "work" => IsWork(x)
  /\ x.at \in {"mark", "flip"} => IsWork(x.rest)
  /\ x.at \in {"figures", "export"} => x.m \in Months /\ x.locks \in Nat

ShapeInv == DaysInv /\ MonthsInv /\ AskedInv

LEMMA MonthOfDay == \A d \in Days : MonthOf(d) \in Months /\ MonthOf(d) \in Nat
  <1>1. ASSUME NEW d \in Days PROVE MonthOf(d) \in Nat
    <2>1. d \in Nat /\ MonthDays \in Nat \ {0}
      BY CalendarAssumption, WorkdaysAssumption DEF Days
    <2>2. d = MonthDays * (d \div MonthDays) + (d % MonthDays) /\ d % MonthDays \in 0 .. MonthDays - 1
          /\ d \div MonthDays \in Int
      BY <2>1
    <2>3. d \div MonthDays >= 0
      <3>1. SUFFICES ASSUME d \div MonthDays <= - 1 PROVE FALSE
        BY <2>2
      <3>2. MonthDays * (d \div MonthDays) <= - MonthDays
        BY <2>1, <2>2, <3>1, Z3
      <3> QED
        BY <2>1, <2>2, <3>2
    <2> QED
      BY <2>2, <2>3 DEF MonthOf
  <1> QED
    BY <1>1 DEF Months

LEMMA DayInMonth ==
  ASSUME NEW m \in Nat, NEW d \in DaysOf(m)
  PROVE  d \in Int /\ MonthOf(d) = m
  <1>1. MonthDays \in Nat \ {0}
    BY CalendarAssumption
  <1>2. m * MonthDays \in Nat /\ (m + 1) * MonthDays = m * MonthDays + MonthDays
    BY <1>1
  <1>3. d \in Int /\ m * MonthDays <= d /\ d <= m * MonthDays + MonthDays - 1
    <2>1. d \in m * MonthDays .. (m + 1) * MonthDays - 1
      BY DEF DaysOf
    <2>2. PICK a \in Int, b \in Int :
            a = m * MonthDays /\ b = (m + 1) * MonthDays - 1 /\ b = a + MonthDays - 1
      BY <1>1, <1>2
    <2> QED
      BY <2>1, <2>2
  <1>4. /\ d \div MonthDays \in Int /\ d % MonthDays \in 0 .. MonthDays - 1
        /\ d = MonthDays * (d \div MonthDays) + (d % MonthDays)
    BY <1>1, <1>3
  <1>5. PICK q \in Int : q = d \div MonthDays
    BY <1>4
  <1>6. ~ (q <= m - 1)
    <2>1. SUFFICES ASSUME q <= m - 1 PROVE FALSE
      OBVIOUS
    <2>2. MonthDays * q <= MonthDays * (m - 1)
      BY <1>1, <1>5, <2>1, Z3
    <2>3. MonthDays * (m - 1) = m * MonthDays - MonthDays
      BY <1>1
    <2> QED
      BY <1>1, <1>2, <1>3, <1>4, <1>5, <2>2, <2>3
  <1>7. ~ (q >= m + 1)
    <2>1. SUFFICES ASSUME q >= m + 1 PROVE FALSE
      OBVIOUS
    <2>2. MonthDays * q >= MonthDays * (m + 1)
      BY <1>1, <1>5, <2>1, Z3
    <2>3. MonthDays * (m + 1) = m * MonthDays + MonthDays
      BY <1>1
    <2> QED
      BY <1>1, <1>2, <1>3, <1>4, <1>5, <2>2, <2>3
  <1> QED
    BY <1>3, <1>5, <1>6, <1>7 DEF MonthOf

LEMMA MonthsAreNat == Months \subseteq Nat
  BY MonthOfDay DEF Months

LEMMA NoRowIsNoDay == \A q : IsDayRow(q) => q # NoRow
  <1>1. SUFFICES ASSUME NEW q, IsDayRow(q), q = NoRow PROVE FALSE
    OBVIOUS
  <1>2. "worked" \in DOMAIN q /\ DOMAIN q = {"none"}
    BY <1>1 DEF IsDayRow, NoRow, DayFields
  <1> QED
    BY <1>2

LEMMA MaxMin ==
  ASSUME NEW a \in Int, NEW b \in Int
  PROVE  /\ Max({a, b}) = IF a >= b THEN a ELSE b
         /\ Min({a, b}) = IF a <= b THEN a ELSE b
  <1>1. PICK x \in {a, b} : \A y \in {a, b} : x >= y
    BY Z3
  <1>2. PICK z \in {a, b} : \A y \in {a, b} : z <= y
    BY Z3
  <1>3. Max({a, b}) \in {a, b} /\ \A y \in {a, b} : Max({a, b}) >= y
    BY <1>1 DEF Max
  <1>4. Min({a, b}) \in {a, b} /\ \A y \in {a, b} : Min({a, b}) <= y
    BY <1>2 DEF Min
  <1> QED
    BY <1>3, <1>4

\* remarkPastDays: the days of the leave before today.
LEMMA PastSpan ==
  ASSUME NEW from \in Int, NEW to \in Int, NEW t \in Int,
         NEW last \in Int, last = IF to <= t - 1 THEN to ELSE t - 1,
         NEW n \in Int, n = IF 0 >= last - from + 1 THEN 0 ELSE last - from + 1
  PROVE  /\ \A i \in 1 .. n : from + i - 1 \in from .. to /\ from + i - 1 < t
         /\ \A d \in from .. to : d < t => \E i \in 1 .. n : d = from + i - 1
  <1>1. ASSUME NEW i \in 1 .. n PROVE from + i - 1 \in from .. to /\ from + i - 1 < t
    <2>1. i \in Int /\ 1 <= i /\ i <= n
      BY <1>1
    <2>2. n = last - from + 1 /\ last <= to /\ last <= t - 1
      BY <2>1
    <2> QED
      BY <2>1, <2>2
  <1>2. ASSUME NEW d \in from .. to, d < t PROVE \E i \in 1 .. n : d = from + i - 1
    <2>1. PICK i \in Int : i = d - from + 1
      BY <1>2
    <2>2. d \in Int /\ from <= d /\ d <= to /\ d <= last
      BY <1>2
    <2>3. n = last - from + 1
      BY <2>2
    <2>4. i \in 1 .. n /\ d = from + i - 1
      BY <2>1, <2>2, <2>3
    <2> QED
      BY <2>4
  <1> QED
    BY <1>1, <1>2

LEMMA PastDaysOf ==
  ASSUME NEW l \in Leaves, today \in Days
  PROVE  ToSet(PastDays(l)) = {<<l.user, d>> : d \in {x \in l.from .. l.to : x < today}}
  <1>1. l.user \in Users /\ l.from \in Days /\ l.to \in Days /\ Days \subseteq Int /\ LastDay \in Nat
    BY WorkdaysAssumption DEF Days
  <1>2. PICK t \in Int : t = today
    BY DEF Days
  <1>3. PICK from \in Int, to \in Int : from = l.from /\ to = l.to
    BY <1>1
  <1>4. PICK b \in Int : b = t - 1
    OBVIOUS
  <1>5. PICK last \in Int : last = Min({to, b}) /\ last = IF to <= t - 1 THEN to ELSE t - 1
    <2>1. Min({to, b}) = IF to <= b THEN to ELSE b
      BY MaxMin
    <2> QED
      BY <2>1, <1>4
  <1>6. PICK e \in Int : e = last - from + 1
    OBVIOUS
  <1>7. PICK n \in Int : n = Max({0, e}) /\ n = IF 0 >= last - from + 1 THEN 0 ELSE last - from + 1
    <2>1. Max({0, e}) = IF 0 >= e THEN 0 ELSE e
      BY MaxMin
    <2> QED
      BY <2>1, <1>6
  <1>8. /\ \A i \in 1 .. n : from + i - 1 \in from .. to /\ from + i - 1 < t
        /\ \A d \in from .. to : d < t => \E i \in 1 .. n : d = from + i - 1
    <2>1. last = IF to <= t - 1 THEN to ELSE t - 1
      BY <1>5
    <2>2. n = IF 0 >= last - from + 1 THEN 0 ELSE last - from + 1
      BY <1>7
    <2> QED
      BY <2>1, <2>2, PastSpan
  <1>9. PastDays(l) = [i \in 1 .. n |-> <<l.user, from + i - 1>>]
    BY <1>2, <1>3, <1>4, <1>5, <1>6, <1>7 DEF PastDays
  <1>10. DOMAIN PastDays(l) = 1 .. n /\ \A i \in 1 .. n : PastDays(l)[i] = <<l.user, from + i - 1>>
    BY <1>9
  <1>11. ASSUME NEW x \in ToSet(PastDays(l))
         PROVE  x \in {<<l.user, d>> : d \in {y \in from .. to : y < t}}
    <2>1. PICK i \in 1 .. n : x = <<l.user, from + i - 1>>
      BY <1>10, <1>11 DEF ToSet
    <2>2. PICK d \in Int : d = from + i - 1
      OBVIOUS
    <2>3. d \in from .. to /\ d < t /\ x = <<l.user, d>>
      BY <1>8, <2>1, <2>2
    <2> QED
      BY <2>3
  <1>12. ASSUME NEW d \in from .. to, d < t PROVE <<l.user, d>> \in ToSet(PastDays(l))
    <2>1. PICK i \in 1 .. n : d = from + i - 1
      BY <1>8, <1>12
    <2> QED
      BY <1>10, <2>1 DEF ToSet
  <1> QED
    BY <1>2, <1>3, <1>11, <1>12
-----------------------------------------------------------------------------
\* What the figures of a month are made of, and when they stay what they are.

\* The day rows of month m, the leaves that touch it and its working days are left alone; a
\* holiday may be declared that does not bear on it.
Touches(l, m) == m \in MonthOf(l.from) .. MonthOf(l.to)
Kept(m) ==
  /\ \A u \in Users : \A d \in DaysOf(m) \cap Days : day'[<<u, d>>] = day[<<u, d>>]
  /\ \A l \in Leaves : Touches(l, m) => leave'[l] = leave[l]
  /\ holidays' = holidays \/ \E h : holidays' = holidays \cup {h} /\ ~ BearsOn(h, m)

RowSet(u, m) ==
  {[d |-> d, status |-> day[<<u, d>>].status, deducted |-> day[<<u, d>>].deducted,
    overtime |-> day[<<u, d>>].overtime] : d \in RowsOf(u, m)}
PartSet(u, m) == {[leave |-> l, part |-> PartIn(l, m)] : l \in Touching(u, m)}
WorkingIn(m) == {d \in DaysOf(m) : IsWorkingDay(d, holidays)}

LEMMA RowsKept ==
  ASSUME NEW m, Kept(m), NEW u \in Users
  PROVE  /\ RowsOf(u, m)' = RowsOf(u, m)
         /\ \A d \in RowsOf(u, m) : day'[<<u, d>>] = day[<<u, d>>]
         /\ RowSet(u, m)' = RowSet(u, m)
  <1>1. \A d \in DaysOf(m) \cap Days : day'[<<u, d>>] = day[<<u, d>>]
    BY DEF Kept
  <1>2. RowsOf(u, m)' = RowsOf(u, m)
    BY <1>1 DEF RowsOf
  <1>3. \A d \in RowsOf(u, m) : day'[<<u, d>>] = day[<<u, d>>]
    BY <1>1 DEF RowsOf
  <1>4. RowSet(u, m)' = RowSet(u, m)
    BY <1>2, <1>3 DEF RowSet
  <1> QED
    BY <1>2, <1>3, <1>4

\* Same working days among those asked about, same part of the leave.
LEMMA SamePart ==
  ASSUME NEW lv, NEW m, NEW old, NEW new,
         \A d \in lv.from .. lv.to : IsWorkingDay(d, old) <=> IsWorkingDay(d, new)
  PROVE  LeaveInMonth(lv, m, new) = LeaveInMonth(lv, m, old)
  <1>1. {d \in lv.from .. lv.to : IsWorkingDay(d, new)} = {d \in lv.from .. lv.to : IsWorkingDay(d, old)}
    OBVIOUS
  <1> QED
    BY <1>1, Zenon DEF LeaveInMonth

LEMMA PartsKept ==
  ASSUME NEW m \in Months, Kept(m), NEW u \in Users
  PROVE  PartSet(u, m)' = PartSet(u, m)
  <1>1. Touching(u, m)' = Touching(u, m)
    BY DEF Kept, Touching, Touches
  <1>2. ASSUME NEW l \in Touching(u, m) PROVE PartIn(l, m)' = PartIn(l, m)
    <2>1. leave'[l] = leave[l] /\ l \in Leaves /\ leave[l].status = "APPROVED" /\ Touches(l, m)
      BY <1>2 DEF Kept, Touching, Touches
    <2>2. PICK lv : lv = [l EXCEPT !.paid = leave[l].paid]
      OBVIOUS
    <2>3. /\ PartIn(l, m) = LeaveInMonth(lv, m, holidays)
          /\ PartIn(l, m)' = LeaveInMonth(lv, m, holidays')
      BY <2>1, <2>2 DEF PartIn
    <2>4. \A d \in lv.from .. lv.to : IsWorkingDay(d, holidays) <=> IsWorkingDay(d, holidays')
      <3>1. CASE holidays' = holidays
        BY <3>1
      <3>2. ASSUME NEW h, holidays' = holidays \cup {h}, ~ BearsOn(h, m)
            PROVE  \A d \in lv.from .. lv.to : IsWorkingDay(d, holidays) <=> IsWorkingDay(d, holidays')
        <4>1. lv.from = l.from /\ lv.to = l.to
          BY <2>2
        <4>2. ~ (l.from <= h /\ h <= l.to)
          BY <2>1, <3>2 DEF BearsOn, OnApproved, Touches
        <4>3. l.from \in Int /\ l.to \in Int
          BY <2>1, WorkdaysAssumption
        <4>4. h \notin l.from .. l.to
          BY <4>2, <4>3
        <4> QED
          BY <3>2, <4>1, <4>4 DEF IsWorkingDay
      <3> QED
        BY <3>1, <3>2 DEF Kept
    <2> QED
      BY <2>3, <2>4, SamePart
  <1> QED
    BY <1>1, <1>2 DEF PartSet

LEMMA FiguresKept ==
  ASSUME NEW m \in Months, Kept(m)
  PROVE  Figures(m)' = Figures(m)
  <1>1. WorkingIn(m)' = WorkingIn(m)
    <2>1. ASSUME NEW h, holidays' = holidays \cup {h}, ~ BearsOn(h, m) PROVE WorkingIn(m)' = WorkingIn(m)
      <3>1. \A d \in DaysOf(m) : d # h
        BY <2>1, DayInMonth, MonthsAreNat DEF BearsOn
      <3> QED
        BY <2>1, <3>1 DEF WorkingIn, IsWorkingDay
    <2>2. CASE holidays' = holidays
      BY <2>2 DEF WorkingIn
    <2> QED
      BY <2>1, <2>2 DEF Kept
  <1>2. \A u \in Users : RowSet(u, m)' = RowSet(u, m) /\ PartSet(u, m)' = PartSet(u, m)
    BY RowsKept, PartsKept
  <1>3. Figures(m)' = [u \in Users |->
           PayrollRow(RowSet(u, m), PartSet(u, m), Cardinality(WorkingIn(m)))]'
    BY DEF Figures, RowSet, PartSet, WorkingIn
  <1>4. Figures(m) = [u \in Users |->
           PayrollRow(RowSet(u, m), PartSet(u, m), Cardinality(WorkingIn(m)))]
    BY DEF Figures, RowSet, PartSet, WorkingIn
  <1> QED
    BY <1>1, <1>2, <1>3, <1>4

\* A late day is in order when the late days up to it say so.
LEMMA OrderKept ==
  ASSUME NEW m \in Months, Kept(m), InOrder(m)
  PROVE  InOrder(m)'
  <1> SUFFICES ASSUME NEW u \in Users, NEW d \in RowsOf(u, m)', day'[<<u, d>>].late
               PROVE  day'[<<u, d>>].deducted = Applies(u, d)'
    BY DEF InOrder
  <1>1. d \in RowsOf(u, m) /\ day'[<<u, d>>] = day[<<u, d>>]
    BY RowsKept
  <1>2. MonthOf(d) = m
    BY <1>1, DayInMonth, MonthsAreNat DEF RowsOf
  <1>3. LateDays(u, d)' = LateDays(u, d)
    BY <1>2, RowsKept DEF LateDays
  <1>4. Applies(u, d)' = Applies(u, d)
    BY <1>1, <1>3 DEF Applies
  <1>5. day[<<u, d>>].deducted = Applies(u, d)
    BY <1>1 DEF InOrder
  <1> QED
    BY <1>1, <1>4, <1>5
-----------------------------------------------------------------------------
\* What a handler's step changes: the days, the leaves, the exports or a request, and only in
\* the actions that are for it.

LEMMA Frame ==
  ASSUME NEW c \in Calls, Step(c)
  PROVE  /\ UNCHANGED <<today, payroll, holidays>>
         /\ UNCHANGED day \/ WriteDay(c) \/ WriteLates(c) \/ NightApply(c)
         /\ UNCHANGED leave \/ LeaveClaim(c)
         /\ UNCHANGED exports \/ ExportInsert(c)
         /\ UNCHANGED request \/ RequestInsert(c) \/ DecideClaim(c)
  <1>1. ASSUME NEW u, NEW x, RequestCheck(c, u, x) PROVE UNCHANGED <<today, records>>
    BY <1>1 DEF RequestCheck, Begin
  <1>2. CASE RequestInsert(c)
    BY <1>2 DEF RequestInsert, Continue
  <1>3. ASSUME NEW r, NEW a, NEW approve, DecideLoad(c, r, a, approve)
        PROVE  UNCHANGED <<today, records>>
    BY <1>3 DEF DecideLoad, Begin
  <1>4. CASE DecideClaim(c)
    BY <1>4 DEF DecideClaim, ClaimAlways, Continue, records
  <1>5. CASE CorrectiveInsert(c)
    BY <1>5 DEF CorrectiveInsert, Continue
  <1>6. CASE CreditRead(c)
    BY <1>6 DEF CreditRead, Continue, records
  <1>7. CASE CreditWrite(c)
    BY <1>7 DEF CreditWrite, UnchargeRows, Continue
  <1>8. ASSUME NEW l, LeaveLoad(c, l) PROVE UNCHANGED <<today, records>>
    BY <1>8 DEF LeaveLoad, Begin
  <1>9. CASE LeaveClaim(c)
    BY <1>9 DEF LeaveClaim, Continue
  <1>10. ASSUME NEW d, Nightly(c, d) PROVE UNCHANGED <<today, records>>
    BY <1>10 DEF Nightly, Begin
  <1>11. CASE ReadDay(c) \/ ReadLates(c) \/ NightTally(c) \/ ExportRead(c)
    BY <1>11 DEF ReadDay, ReadMarks, ReadLates, NightTally, ExportRead, Continue, records
  <1>12. CASE WriteDay(c) \/ WriteLates(c) \/ NightApply(c)
    BY <1>12 DEF WriteDay, WriteLates, NightApply, Continue
  <1>13. ASSUME NEW m, ExportLoad(c, m) PROVE UNCHANGED <<today, records>>
    BY <1>13 DEF ExportLoad, Begin
  <1>14. CASE ExportInsert(c)
    BY <1>14 DEF ExportInsert, Continue
  <1> QED
    BY <1>1, <1>2, <1>3, <1>4, <1>5, <1>6, <1>7, <1>8, <1>9, <1>10, <1>11, <1>12, <1>13, <1>14
    DEF Step, records

LEMMA DaysKeep ==
  ASSUME DaysInv, NEW c \in Calls, Step(c)
  PROVE  DaysInv'
  <1>1. UNCHANGED today /\ (UNCHANGED day \/ WriteDay(c) \/ WriteLates(c) \/ NightApply(c))
    BY Frame
  <1>2. CASE UNCHANGED day
    BY <1>1, <1>2 DEF DaysInv
  <1>3. CASE WriteDay(c)
    <2>1. PICK y, new : IsDayRow(new) /\ day' = [day EXCEPT ![y] = new]
      BY <1>3 DEF WriteDay, UpsertDay, IsDayRow, DayFields
    <2> QED
      BY <1>1, <2>1 DEF DaysInv
  <1>4. CASE WriteLates(c)
    <2>1. PICK flips : flips = call[c].flips
      OBVIOUS
    <2>2. day' = [x \in Users \X Days |->
                    IF x \in DOMAIN flips THEN [day[x] EXCEPT !.deducted = flips[x]] ELSE day[x]]
      BY <1>4, <2>1 DEF WriteLates, SetDeductions
    <2>3. ASSUME NEW x \in Users \X Days PROVE day'[x] = NoRow \/ IsDayRow(day'[x])
      <3>1. CASE day[x] = NoRow
        BY <2>2, <3>1 DEF DaysInv, NoRow
      <3>2. CASE IsDayRow(day[x])
        BY <2>2, <3>2 DEF IsDayRow, DayFields
      <3> QED
        BY <3>1, <3>2 DEF DaysInv
    <2> QED
      BY <1>1, <2>2, <2>3 DEF DaysInv
  <1>5. CASE NightApply(c)
    <2>1. PICK d, applies : d = call[c].day /\ applies = call[c].applies
      OBVIOUS
    <2>2. day' = [x \in Users \X Days |->
                    IF x[2] = d /\ x[1] \in DOMAIN applies /\ day[x] # NoRow /\ day[x].late
                    THEN [day[x] EXCEPT !.deducted = applies[x[1]]] ELSE day[x]]
      BY <1>5, <2>1 DEF NightApply, ApplyTally
    <2>3. ASSUME NEW x \in Users \X Days PROVE day'[x] = NoRow \/ IsDayRow(day'[x])
      <3>1. CASE day[x] = NoRow
        BY <2>2, <3>1
      <3>2. CASE IsDayRow(day[x])
        BY <2>2, <3>2 DEF IsDayRow, DayFields
      <3> QED
        BY <3>1, <3>2 DEF DaysInv
    <2> QED
      BY <1>1, <2>2, <2>3 DEF DaysInv
  <1> QED
    BY <1>1, <1>2, <1>3, <1>4, <1>5

LEMMA MonthsKeep ==
  ASSUME MonthsInv, NEW c \in Calls, Step(c)
  PROVE  MonthsInv'
  <1>1. UNCHANGED payroll
    BY Frame
  <1>2. CASE UNCHANGED leave
    BY <1>1, <1>2 DEF MonthsInv
  <1>3. CASE LeaveClaim(c)
    <2>1. UNCHANGED leave \/ leave' = [leave EXCEPT ![call[c].l].status = "APPROVED"]
      BY <1>3 DEF LeaveClaim
    <2> QED
      BY <1>1, <2>1 DEF MonthsInv
  <1> QED
    BY <1>2, <1>3, Frame

\* What may be asked for is a day that has come.
LEMMA AskedKeeps ==
  ASSUME AskedInv, OnceInv, NEW c \in Calls, \A x : x = call[c] => Shaped(x), Step(c)
  PROVE  AskedInv'
  <1>1. CASE RequestInsert(c)
    <2>1. PICK x : x = call[c]
      OBVIOUS
    <2>2. x.x.day \in Days
      BY <1>1, <2>1 DEF RequestInsert, Continue, Shaped
    <2>3. PICK r \in Requests : \E new : new.day = x.x.day /\ request' = [request EXCEPT ![r] = new]
      <3>1. PICK r \in Requests : request' = [request EXCEPT ![r] =
              [user |-> x.user, day |-> x.x.day, kind |-> x.x.kind,
               in |-> x.x.in, out |-> x.x.out, status |-> "PENDING"]]
        BY <1>1, <2>1 DEF RequestInsert
      <3> QED
        BY <3>1
    <2> QED
      BY <2>2, <2>3 DEF AskedInv, OnceInv, RequestsInv
  <1>2. CASE DecideClaim(c)
    <2>1. PICK r \in Requests : r = call[c].r /\ IsRequest(request[r])
      BY <1>2 DEF OnceInv, CallsInv, DecideClaim
    <2>2. UNCHANGED request \/ \E s : request' = [request EXCEPT ![r].status = s]
      BY <1>2, <2>1 DEF DecideClaim, ClaimAlways, records
    <2>3. request[r].day \in Days
      BY <2>1, NoRowIsNoRequest DEF AskedInv
    <2>4. \A q \in Requests : q # r => request'[q] = request[q]
      BY <2>2 DEF OnceInv, RequestsInv
    <2>5. request'[r].day = request[r].day
      BY <2>1, <2>2 DEF OnceInv, RequestsInv, IsRequest, Fields
    <2> QED
      BY <2>3, <2>4, <2>5 DEF AskedInv
  <1>3. CASE UNCHANGED request
    BY <1>3 DEF AskedInv
  <1> QED
    BY <1>1, <1>2, <1>3, Frame
-----------------------------------------------------------------------------
\* A month that stands: locked, with nothing under way then and the deductions in order.  What
\* the handlers still hold leaves it alone.

Standing(m) == payroll[m].locked /\ payroll[m].clean

Alone(x, m) ==
  /\ x.at = "mark" => x.day \notin DaysOf(m)
  /\ x.at = "flip" => \A y \in DOMAIN x.flips : y[2] \notin DaysOf(m)
  /\ x.at = "tally" => \A u \in Users \cap DOMAIN x.applies :
       x.day \in RowsOf(u, m) /\ day[<<u, x.day>>].late
         => x.applies[u] = day[<<u, x.day>>].deducted
  /\ x.at = "grant" => ~ Touches(x.l, m)
  /\ x.at = "export" /\ x.m = m /\ x.locks = payroll[m].locks => x.rows = Figures(m)

Numbered(x) == x.at \in {"figures", "export"} => x.locks <= payroll[x.m].locks

Fits(x) == Shaped(x) /\ Numbered(x) /\ \A m \in Months : Standing(m) => Alone(x, m)

HandlersInv == \A c \in Calls : \A x : x = call[c] => Fits(x)

MonthsFrozen ==
  \A m \in Months : Standing(m) =>
    /\ InOrder(m)
    /\ \A e \in exports : e.m = m /\ e.locks = payroll[m].locks => e.rows = Figures(m)

ExportsInv == \A e \in exports : e.m \in Months /\ e.locks \in Nat /\ e.locks <= payroll[e.m].locks

\* The inductive invariant.
FrozenInv == ShapeInv /\ HandlersInv /\ MonthsFrozen /\ ExportsInv

LEMMA AloneKept ==
  ASSUME NEW m \in Months, Kept(m), payroll'[m].locks = payroll[m].locks, NEW x, Alone(x, m)
  PROVE  Alone(x, m)'
  <1>1. ASSUME x.at = "tally", NEW u \in Users \cap DOMAIN x.applies,
               x.day \in RowsOf(u, m)', day'[<<u, x.day>>].late
        PROVE  x.applies[u] = day'[<<u, x.day>>].deducted
    <2>1. x.day \in RowsOf(u, m) /\ day'[<<u, x.day>>] = day[<<u, x.day>>]
      BY <1>1, RowsKept
    <2> QED
      BY <1>1, <2>1 DEF Alone
  <1>2. Figures(m)' = Figures(m)
    BY FiguresKept
  <1> QED
    BY <1>1, <1>2 DEF Alone

\* A handler about to do something else.
Simple(x) == x.at \notin {"insert", "grant", "work", "mark", "flip", "tally", "figures", "export"}

LEMMA SimpleFits == \A x : Simple(x) => Fits(x)
  BY DEF Simple, Fits, Shaped, Numbered, Alone

LEMMA IdleFits == Fits(Idle)
  BY SimpleFits DEF Simple, Idle

LEMMA WorkFits ==
  ASSUME NEW todo, NEW lates, NEW night, NEW known, \A um \in lates : um[2] \in Months
  PROVE  /\ IsWork(Work(todo, lates, night, known))
         /\ Fits(Work(todo, lates, night, known))
  <1>1. IsWork(Work(todo, lates, night, known))
    BY DEF IsWork, Work, Idle
  <1>2. PICK w : w = Work(todo, lates, night, known)
    OBVIOUS
  <1>3. w.at \in {"idle", "work"} /\ IsWork(w)
    BY <1>1, <1>2 DEF IsWork
  <1>4. Fits(w)
    BY <1>3 DEF Fits, Shaped, Numbered, Alone
  <1> QED
    BY <1>1, <1>2, <1>4

LEMMA ResumedWorkFits == \A w : IsWork(w) => Fits(w)
  BY DEF IsWork, Fits, Shaped, Numbered, Alone

LEMMA RequestFits ==
  ASSUME ShapeInv, OnceInv, NEW c \in Calls, Applying(call[c])
  PROVE  Fits(DayOfRequest(call[c].r))
  <1>1. PICK r \in Requests : r = call[c].r /\ request[r] # NoRow
    BY NoRowIsNoRequest DEF OnceInv, CallsInv, Approved
  <1>2. MonthOf(request[r].day) \in Months
    BY <1>1, MonthOfDay DEF ShapeInv, AskedInv
  <1>3. Fits(DayOfRequest(r))
    BY <1>2, WorkFits DEF DayOfRequest
  <1> QED
    BY <1>1, <1>3

LEMMA BeginFits ==
  ASSUME ShapeInv, NEW c \in Calls,
         \/ \E u \in Users, x \in Corrections : RequestCheck(c, u, x)
         \/ \E r \in Requests, a \in Approvers, approve \in BOOLEAN : DecideLoad(c, r, a, approve)
         \/ \E l \in Leaves : LeaveLoad(c, l)
         \/ \E d \in Days : Nightly(c, d)
         \/ \E m \in Months : ExportLoad(c, m)
  PROVE  \E next : Become(c, next) /\ Fits(next)
  <1>1. ASSUME NEW u \in Users, NEW x \in Corrections, RequestCheck(c, u, x)
        PROVE  \E next : Become(c, next) /\ Fits(next)
    <2>1. PICK next : next = [at |-> "insert", user |-> u, x |-> x] /\ Become(c, next)
      BY <1>1 DEF RequestCheck, Begin
    <2>2. x.day \in Days
      <3>1. x.day \in Nat /\ x.day <= today /\ today \in 0 .. LastDay /\ LastDay \in Nat
        BY <1>1, WorkdaysAssumption DEF RequestCheck, ShapeInv, DaysInv, Days
      <3> QED
        BY <3>1 DEF Days
    <2>3. Fits(next)
      BY <2>1, <2>2 DEF Fits, Shaped, Numbered, Alone
    <2> QED
      BY <2>1, <2>3
  <1>2. ASSUME NEW r, NEW a, NEW approve, DecideLoad(c, r, a, approve)
        PROVE  \E next : Become(c, next) /\ Fits(next)
    <2>1. PICK span : Become(c, [at |-> "claim", r |-> r, approve |-> approve, span |-> span])
      BY <1>2 DEF DecideLoad, Begin
    <2>2. Fits([at |-> "claim", r |-> r, approve |-> approve, span |-> span])
      BY SimpleFits DEF Simple
    <2> QED
      BY <2>1, <2>2
  <1>3. ASSUME NEW l \in Leaves, LeaveLoad(c, l)
        PROVE  \E next : Become(c, next) /\ Fits(next)
    <2>1. PICK next : next = [at |-> "grant", l |-> l] /\ Become(c, next)
      BY <1>3 DEF LeaveLoad, Begin
    <2>2. \A m \in Months : Standing(m) => ~ Touches(l, m)
      BY <1>3 DEF LeaveLoad, Locked, Standing, Touches
    <2>3. Fits(next)
      BY <2>1, <2>2 DEF Fits, Shaped, Numbered, Alone
    <2> QED
      BY <2>1, <2>3
  <1>4. ASSUME NEW d, Nightly(c, d)
        PROVE  \E next : Become(c, next) /\ Fits(next)
    <2>1. Become(c, Work(SetToSeq(Users \X {d}), {}, d, holidays \cap {d}))
      BY <1>4 DEF Nightly, Begin
    <2> QED
      BY <2>1, WorkFits
  <1>5. ASSUME NEW m \in Months, ExportLoad(c, m)
        PROVE  \E next : Become(c, next) /\ Fits(next)
    <2>1. PICK next : next = [at |-> "figures", m |-> m, locks |-> payroll[m].locks] /\ Become(c, next)
      BY <1>5 DEF ExportLoad, Begin
    <2>2. payroll[m].locks \in Nat
      BY DEF ShapeInv, MonthsInv
    <2>3. Fits(next)
      BY <2>1, <2>2 DEF Fits, Shaped, Numbered, Alone
    <2> QED
      BY <2>1, <2>3
  <1> QED
    BY <1>1, <1>2, <1>3, <1>4, <1>5

LEMMA RequestsFit ==
  ASSUME ShapeInv, OnceInv, NEW c \in Calls,
         \/ RequestInsert(c) \/ DecideClaim(c)
         \/ CorrectiveInsert(c) \/ CreditRead(c) \/ CreditWrite(c)
  PROVE  \E next : Become(c, next) /\ Fits(next)
  <1>1. CASE RequestInsert(c)
    BY <1>1, IdleFits DEF RequestInsert, Continue
  <1>2. CASE DecideClaim(c)
    <2>1. Simple(AfterClaim(c)) /\ Simple(Idle)
      BY DEF AfterClaim, Idle, Simple
    <2>2. Become(c, AfterClaim(c)) \/ Become(c, Idle)
      BY <1>2 DEF DecideClaim, ClaimAlways, Continue
    <2> QED
      BY <2>1, <2>2, SimpleFits
  <1>3. CASE CorrectiveInsert(c)
    <2>1. Become(c, DayOfRequest(call[c].r)) /\ Applying(call[c])
      BY <1>3 DEF CorrectiveInsert, Continue, Applying
    <2> QED
      BY <2>1, RequestFits
  <1>4. CASE CreditRead(c)
    <2>1. PICK cut, kept, credit :
            Become(c, [at |-> "uncharge", r |-> call[c].r, cut |-> cut, kept |-> kept,
                       credit |-> credit])
      BY <1>4, Zenon DEF CreditRead, Continue
    <2>2. PICK r : r = call[c].r
      OBVIOUS
    <2>3. Fits([at |-> "uncharge", r |-> r, cut |-> cut, kept |-> kept, credit |-> credit])
      BY SimpleFits DEF Simple
    <2> QED
      BY <2>1, <2>2, <2>3
  <1>5. CASE CreditWrite(c)
    <2>1. /\ Become(c, DayOfRequest(call[c].r)) \/ Become(c, Idle)
          /\ Applying(call[c])
      BY <1>5 DEF CreditWrite, UnchargeRows, Continue, Applying
    <2> QED
      BY <2>1, RequestFits, IdleFits
  <1> QED
    BY <1>1, <1>2, <1>3, <1>4, <1>5
\* No mark and no flip is read for a month that stands: it is locked.
LEMMA MarksFit ==
  ASSUME FrozenInv, NEW c \in Calls, ReadDay(c) \/ WriteDay(c) \/ ReadLates(c) \/ WriteLates(c)
  PROVE  \E next : Become(c, next) /\ Fits(next)
  <1> PICK x : x = call[c]
    OBVIOUS
  <1>1. Fits(x) /\ Shaped(x)
    BY DEF FrozenInv, HandlersInv, Fits
  <1>2. CASE ReadDay(c)
    <2>1. x.at = "work" /\ IsWork(x)
      BY <1>1, <1>2 DEF ReadDay, Shaped
    <2>2. PICK rest : rest = RestOfWork(c) /\ IsWork(rest) /\ Fits(rest)
      BY <2>1, WorkFits DEF RestOfWork, IsWork
    <2>3. CASE Continue(c, "work", rest)
      BY <2>2, <2>3 DEF Continue
    <2>4. CASE ~ Locked({MonthOf(Head(call[c].todo)[2])}) /\ ReadMarks(c)
      <3>1. PICK u, d, marks :
              /\ Become(c, [at |-> "mark", user |-> u, day |-> d, marks |-> marks, rest |-> RestOfWork(c)])
              /\ d = Head(call[c].todo)[2]
        BY <2>4, Zenon DEF ReadMarks, Continue
      <3>2. PICK next : /\ next = [at |-> "mark", user |-> u, day |-> d, marks |-> marks, rest |-> rest]
                        /\ Become(c, next)
        BY <2>2, <3>1
      <3>3. \A m \in Months : Standing(m) => d \notin DaysOf(m)
        BY <2>4, <3>1, DayInMonth, MonthsAreNat DEF Locked, Standing
      <3>4. Fits(next)
        BY <2>2, <3>2, <3>3 DEF Fits, Shaped, Numbered, Alone
      <3> QED
        BY <3>2, <3>4
    <2> QED
      BY <1>2, <2>2, <2>3, <2>4 DEF ReadDay
  <1>3. CASE WriteDay(c) \/ WriteLates(c)
    <2>1. Become(c, x.rest) /\ x.at \in {"mark", "flip"}
      BY <1>3 DEF WriteDay, WriteLates, Continue
    <2>2. Fits(x.rest)
      BY <1>1, <2>1, ResumedWorkFits DEF Shaped
    <2> QED
      BY <2>1, <2>2
  <1>4. CASE ReadLates(c)
    <2>1. x.at = "work" /\ IsWork(x)
      BY <1>1, <1>4 DEF ReadLates, Shaped
    <2>2. PICK um \in x.lates :
            LET rest == Work(<<>>, x.lates \ {um}, x.night, x.known)
            IN IF Locked({um[2]}) THEN Become(c, rest)
               ELSE \E flips : /\ DOMAIN flips \subseteq {um[1]} \X RowsOf(um[1], um[2])
                               /\ Become(c, [at |-> "flip", rest |-> rest, flips |-> flips])
      <3>1. PICK um \in x.lates :
              LET rest == Work(<<>>, x.lates \ {um}, x.night, x.known)
              IN IF Locked({um[2]}) THEN Become(c, rest)
                 ELSE Become(c,
                 [at |-> "flip", rest |-> rest,
                  flips |-> [y \in {z \in {um[1]} \X RowsOf(um[1], um[2]) :
                                      Applies(z[1], z[2]) # day[z].deducted} |->
                               Applies(y[1], y[2])]])
        BY <1>4, Zenon DEF ReadLates, Continue
      <3> DEFINE F == [y \in {z \in {um[1]} \X RowsOf(um[1], um[2]) :
                                      Applies(z[1], z[2]) # day[z].deducted} |->
                               Applies(y[1], y[2])]
      <3>2. DOMAIN F \subseteq {um[1]} \X RowsOf(um[1], um[2])
        OBVIOUS
      <3> QED
        BY <3>1, <3>2, Zenon
    <2>3. PICK rest : rest = Work(<<>>, x.lates \ {um}, x.night, x.known) /\ IsWork(rest) /\ Fits(rest)
      BY <2>1, WorkFits DEF IsWork
    <2>4. CASE Locked({um[2]})
      BY <2>2, <2>3, <2>4
    <2>5. CASE ~ Locked({um[2]})
      <3>1. PICK flips : /\ DOMAIN flips \subseteq {um[1]} \X RowsOf(um[1], um[2])
                         /\ Become(c, [at |-> "flip", rest |-> rest, flips |-> flips])
        BY <2>2, <2>3, <2>5
      <3>2. PICK next : next = [at |-> "flip", rest |-> rest, flips |-> flips] /\ Become(c, next)
        BY <3>1
      <3>3. um[2] \in Months
        BY <2>1 DEF IsWork
      <3>4. \A m \in Months : Standing(m) => m # um[2]
        BY <2>5 DEF Locked, Standing
      <3>5. \A m \in Months : Standing(m) => \A y \in DOMAIN flips : y[2] \notin DaysOf(m)
        <4>1. \A y \in DOMAIN flips : y[2] \in DaysOf(um[2])
          BY <3>1 DEF RowsOf
        <4>2. SUFFICES ASSUME NEW m \in Months, Standing(m),
                              NEW y \in DOMAIN flips, y[2] \in DaysOf(m)
                       PROVE  FALSE
          OBVIOUS
        <4>3. MonthOf(y[2]) = m
          BY <4>2, DayInMonth, MonthsAreNat
        <4>4. MonthOf(y[2]) = um[2]
          BY <3>3, <4>1, <4>2, DayInMonth, MonthsAreNat
        <4> QED
          BY <3>4, <4>2, <4>3, <4>4
      <3>6. Fits(next)
        BY <2>3, <3>2, <3>5 DEF Fits, Shaped, Numbered, Alone
      <3> QED
        BY <3>2, <3>6
    <2> QED
      BY <2>4, <2>5
  <1> QED
    BY <1>2, <1>3, <1>4

\* The nightly rule may write to a month that stands: it writes there what is there.
LEMMA NightFits ==
  ASSUME FrozenInv, NEW c \in Calls, NightTally(c) \/ NightApply(c)
  PROVE  \E next : Become(c, next) /\ Fits(next)
  <1>1. CASE NightTally(c)
    <2>1. PICK d : d = call[c].night
      OBVIOUS
    <2>2. PICK applies :
            /\ Become(c, [at |-> "tally", day |-> d, applies |-> applies])
            /\ applies = [u \in {v \in Users : LateDays(v, d) # {}} |->
                            Cardinality(LateDays(u, d)) % LateCount = 0]
      BY <1>1, <2>1, Zenon DEF NightTally, Continue
    <2>3. PICK next : next = [at |-> "tally", day |-> d, applies |-> applies] /\ Become(c, next)
      BY <2>2
    <2>4. ASSUME NEW m \in Months, Standing(m), NEW u \in Users \cap DOMAIN applies,
                 d \in RowsOf(u, m), day[<<u, d>>].late
          PROVE  applies[u] = day[<<u, d>>].deducted
      <3>1. day[<<u, d>>].deducted = Applies(u, d)
        BY <2>4 DEF FrozenInv, MonthsFrozen, InOrder
      <3>2. applies[u] = (Cardinality(LateDays(u, d)) % LateCount = 0)
        BY <2>2, <2>4
      <3>3. Applies(u, d) = (Cardinality(LateDays(u, d)) % LateCount = 0)
        BY <2>4, Zenon DEF Applies
      <3> QED
        BY <3>1, <3>2, <3>3
    <2>5. Fits(next)
      BY <2>3, <2>4 DEF Fits, Shaped, Numbered, Alone
    <2> QED
      BY <2>3, <2>5
  <1>2. CASE NightApply(c)
    BY <1>2, IdleFits DEF NightApply, Continue
  <1> QED
    BY <1>1, <1>2

LEMMA LeaveAndExportFit ==
  ASSUME FrozenInv, NEW c \in Calls, LeaveClaim(c) \/ ExportRead(c) \/ ExportInsert(c)
  PROVE  \E next : Become(c, next) /\ Fits(next)
  <1> PICK x : x = call[c]
    OBVIOUS
  <1>1. Fits(x) /\ Shaped(x) /\ Numbered(x)
    BY DEF FrozenInv, HandlersInv, Fits
  <1>2. CASE LeaveClaim(c)
    <2>1. PICK l \in Leaves : l = x.l
      BY <1>1, <1>2 DEF LeaveClaim, Shaped
    <2>2. \/ Become(c, Idle)
          \/ Become(c, Work(PastDays(l), {<<p[1], MonthOf(p[2])>> : p \in ToSet(PastDays(l))}, Open, {}))
      BY <1>2, <2>1, Zenon DEF LeaveClaim, Continue
    <2>3. ASSUME NEW p \in ToSet(PastDays(l)) PROVE MonthOf(p[2]) \in Months
      <3>1. today \in Days
        BY DEF FrozenInv, ShapeInv, DaysInv
      <3>2. PICK d \in l.from .. l.to : p = <<l.user, d>>
        BY <2>3, <3>1, PastDaysOf
      <3>3. d \in Days
        BY WorkdaysAssumption DEF Days
      <3> QED
        BY <3>2, <3>3, MonthOfDay
    <2>4. \A um \in {<<p[1], MonthOf(p[2])>> : p \in ToSet(PastDays(l))} : um[2] \in Months
      BY <2>3
    <2> QED
      BY <2>2, <2>4, WorkFits, IdleFits
  <1>3. CASE ExportRead(c)
    <2>1. PICK m \in Months : m = x.m
      BY <1>1, <1>3 DEF ExportRead, Continue, Shaped
    <2>2. PICK revision, rows :
            /\ Become(c, [at |-> "export", m |-> m, locks |-> x.locks, revision |-> revision,
                          rows |-> rows])
            /\ rows = Figures(m)
      BY <1>3, <2>1, Zenon DEF ExportRead, Continue
    <2>3. PICK next : /\ next = [at |-> "export", m |-> m, locks |-> x.locks, revision |-> revision,
                                 rows |-> rows]
                      /\ Become(c, next)
      BY <2>2
    <2>4. x.locks \in Nat /\ x.locks <= payroll[m].locks
      BY <1>1, <1>3, <2>1 DEF ExportRead, Continue, Shaped, Numbered
    <2>5. Fits(next)
      BY <2>2, <2>3, <2>4 DEF Fits, Shaped, Numbered, Alone
    <2> QED
      BY <2>3, <2>5
  <1>4. CASE ExportInsert(c)
    BY <1>4, IdleFits DEF ExportInsert, Continue
  <1> QED
    BY <1>2, <1>3, <1>4

LEMMA NextFits ==
  ASSUME FrozenInv, OnceInv, NEW c \in Calls, Step(c)
  PROVE  \E next : Become(c, next) /\ Fits(next)
  <1>1. ShapeInv
    BY DEF FrozenInv
  <1> QED
    BY <1>1, BeginFits, RequestsFit, MarksFit, NightFits, LeaveAndExportFit DEF Step
-----------------------------------------------------------------------------
\* Every step leaves a month that stands as it is.

LEMMA StepKeepsMonth ==
  ASSUME FrozenInv, NEW c \in Calls, Step(c), NEW m \in Months, Standing(m)
  PROVE  Kept(m)
  <1> PICK x : x = call[c]
    OBVIOUS
  <1>1. Fits(x) /\ Alone(x, m)
    BY DEF FrozenInv, HandlersInv, Fits
  <1>2. UNCHANGED holidays
    BY Frame
  <1>3. ASSUME NEW u \in Users, NEW d \in DaysOf(m) \cap Days
        PROVE  day'[<<u, d>>] = day[<<u, d>>]
    <2>1. DaysInv /\ <<u, d>> \in Users \X Days
      BY DEF FrozenInv, ShapeInv
    <2>2. CASE WriteDay(c)
      <3>1. PICK new : day' = [day EXCEPT ![<<x.user, x.day>>] = new]
        BY <2>2 DEF WriteDay, UpsertDay
      <3>2. x.day # d
        BY <1>1, <2>2 DEF WriteDay, Continue, Alone
      <3> QED
        BY <2>1, <3>1, <3>2 DEF DaysInv
    <2>3. CASE WriteLates(c)
      <3>1. day' = [y \in Users \X Days |->
                      IF y \in DOMAIN x.flips THEN [day[y] EXCEPT !.deducted = x.flips[y]] ELSE day[y]]
        BY <2>3 DEF WriteLates, SetDeductions
      <3>2. <<u, d>> \notin DOMAIN x.flips
        BY <1>1, <2>3 DEF WriteLates, Continue, Alone
      <3> QED
        BY <2>1, <3>1, <3>2
    <2>4. CASE NightApply(c)
      <3>1. day' = [y \in Users \X Days |->
                      IF y[2] = x.day /\ y[1] \in DOMAIN x.applies /\ day[y] # NoRow /\ day[y].late
                      THEN [day[y] EXCEPT !.deducted = x.applies[y[1]]] ELSE day[y]]
        BY <2>4 DEF NightApply, ApplyTally
      <3>2. CASE d = x.day /\ u \in DOMAIN x.applies /\ day[<<u, d>>] # NoRow /\ day[<<u, d>>].late
        <4>1. d \in RowsOf(u, m)
          BY <3>2 DEF RowsOf
        <4>2. x.applies[u] = day[<<u, d>>].deducted
          BY <1>1, <2>4, <3>2, <4>1 DEF NightApply, Continue, Alone
        <4>3. IsDayRow(day[<<u, d>>])
          BY <2>1, <3>2 DEF DaysInv
        <4>4. day'[<<u, d>>] = [day[<<u, d>>] EXCEPT !.deducted = day[<<u, d>>].deducted]
          BY <2>1, <3>1, <3>2, <4>2
        <4> QED
          BY <4>3, <4>4 DEF IsDayRow, DayFields
      <3>3. CASE ~ (d = x.day /\ u \in DOMAIN x.applies /\ day[<<u, d>>] # NoRow /\ day[<<u, d>>].late)
        BY <2>1, <3>1, <3>3
      <3> QED
        BY <3>2, <3>3
    <2> QED
      BY <2>2, <2>3, <2>4, Frame
  <1>4. ASSUME NEW l \in Leaves, Touches(l, m) PROVE leave'[l] = leave[l]
    <2>1. CASE LeaveClaim(c)
      <3>1. UNCHANGED leave \/ leave' = [leave EXCEPT ![x.l].status = "APPROVED"]
        BY <2>1 DEF LeaveClaim
      <3>2. x.l # l
        BY <1>1, <1>4, <2>1 DEF LeaveClaim, Alone
      <3> QED
        BY <3>1, <3>2 DEF FrozenInv, ShapeInv, MonthsInv
    <2> QED
      BY <2>1, Frame
  <1> QED
    BY <1>2, <1>3, <1>4 DEF Kept

\* The frozen parts, when every month that stands afterwards stood before and is kept.
LEMMA KeptKeeps ==
  ASSUME FrozenInv,
         \A m \in Months : payroll'[m].locks \in Nat /\ payroll'[m].locks >= payroll[m].locks,
         \A m \in Months : Standing(m)' =>
           Standing(m) /\ payroll'[m].locks = payroll[m].locks /\ Kept(m)
  PROVE  /\ \A x : Fits(x) => Fits(x)'
         /\ \A m \in Months : Standing(m)' =>
              /\ InOrder(m)'
              /\ \A e \in exports : e.m = m /\ e.locks = payroll'[m].locks => e.rows = Figures(m)'
  <1>1. ASSUME NEW x, Fits(x) PROVE Fits(x)'
    <2>1. Shaped(x)' /\ Shaped(x)
      BY <1>1 DEF Fits, Shaped, IsWork
    <2>2. Numbered(x)'
      <3>1. SUFFICES ASSUME x.at \in {"figures", "export"} PROVE x.locks <= payroll'[x.m].locks
        BY DEF Numbered
      <3>2. PICK m \in Months : m = x.m
        BY <2>1, <3>1 DEF Shaped
      <3>3. x.locks \in Nat /\ x.locks <= payroll[m].locks /\ payroll[m].locks \in Nat
        BY <1>1, <2>1, <3>1, <3>2 DEF Fits, Shaped, Numbered, FrozenInv, ShapeInv, MonthsInv
      <3>4. payroll'[m].locks \in Nat /\ payroll'[m].locks >= payroll[m].locks
        OBVIOUS
      <3> QED
        BY <3>2, <3>3, <3>4
    <2>3. ASSUME NEW m \in Months, Standing(m)' PROVE Alone(x, m)'
      BY <1>1, <2>3, AloneKept DEF Fits
    <2> QED
      BY <2>1, <2>2, <2>3 DEF Fits
  <1>2. ASSUME NEW m \in Months, Standing(m)'
        PROVE  /\ InOrder(m)'
               /\ \A e \in exports : e.m = m /\ e.locks = payroll'[m].locks => e.rows = Figures(m)'
    BY <1>2, OrderKept, FiguresKept DEF FrozenInv, MonthsFrozen
  <1> QED
    BY <1>1, <1>2
\* Steps that move no handler: a day, a holiday, an unlock.
LEMMA StillKeeps ==
  ASSUME FrozenInv, UNCHANGED <<call, exports>>, ShapeInv',
         \A m \in Months : payroll'[m].locks >= payroll[m].locks,
         \A m \in Months : Standing(m)' =>
           Standing(m) /\ payroll'[m].locks = payroll[m].locks /\ Kept(m)
  PROVE  FrozenInv'
  <1>1. \A m \in Months : payroll[m].locks \in Nat /\ payroll'[m].locks \in Nat
    BY DEF FrozenInv, ShapeInv, MonthsInv
  <1>2. /\ \A x : Fits(x) => Fits(x)'
        /\ \A m \in Months : Standing(m)' =>
              /\ InOrder(m)'
              /\ \A e \in exports : e.m = m /\ e.locks = payroll'[m].locks => e.rows = Figures(m)'
    BY <1>1, KeptKeeps
  <1>3. HandlersInv'
    BY <1>2 DEF FrozenInv, HandlersInv
  <1>4. MonthsFrozen'
    BY <1>2 DEF MonthsFrozen
  <1>5. ExportsInv'
    <2>1. SUFFICES ASSUME NEW e \in exports
                   PROVE  e.m \in Months /\ e.locks \in Nat /\ e.locks <= payroll'[e.m].locks
      BY DEF ExportsInv
    <2>2. PICK m \in Months : m = e.m /\ e.locks \in Nat /\ e.locks <= payroll[m].locks
      BY <2>1 DEF FrozenInv, ExportsInv
    <2>3. payroll'[m].locks >= payroll[m].locks /\ payroll[m].locks \in Nat /\ payroll'[m].locks \in Nat
      BY <1>1
    <2> QED
      BY <2>2, <2>3
  <1> QED
    BY <1>3, <1>4, <1>5 DEF FrozenInv

LEMMA NextDayFreezes ==
  ASSUME FrozenInv, NextDay
  PROVE  FrozenInv'
  <1>1. UNCHANGED <<request, day, leave, holidays, payroll, exports, call>>
    BY DEF NextDay
  <1>2. ShapeInv'
    <2>1. today' \in Days
      BY WorkdaysAssumption DEF NextDay, FrozenInv, ShapeInv, DaysInv, Days
    <2> QED
      BY <1>1, <2>1 DEF FrozenInv, ShapeInv, DaysInv, MonthsInv, AskedInv
  <1>3. \A m \in Months : payroll'[m].locks >= payroll[m].locks
    BY <1>1 DEF FrozenInv, ShapeInv, MonthsInv
  <1>4. \A m \in Months : Standing(m)' =>
           Standing(m) /\ payroll'[m].locks = payroll[m].locks /\ Kept(m)
    BY <1>1 DEF Standing, Kept
  <1> QED
    BY <1>1, <1>2, <1>3, <1>4, StillKeeps

\* A holiday takes away the standing of the months it bears on, and leaves the others alone.
LEMMA HolidayFreezes ==
  ASSUME FrozenInv, NEW h \in HolidayDays, AddHoliday(h)
  PROVE  FrozenInv'
  <1>1. UNCHANGED <<today, request, day, exports, call>>
    BY DEF AddHoliday
  <1>2. \A m \in Months :
          /\ BearsOn(h, m) => payroll'[m] = [payroll[m] EXCEPT !.clean = FALSE]
          /\ ~ BearsOn(h, m) => payroll'[m] = payroll[m]
    BY DEF AddHoliday
  <1>3. \A l \in Leaves :
          /\ OnApproved(h, l) => \E paid : leave'[l] = [leave[l] EXCEPT !.paid = paid]
          /\ ~ OnApproved(h, l) => leave'[l] = leave[l]
    BY DEF AddHoliday
  <1>4. DOMAIN payroll' = Months /\ DOMAIN leave' = Leaves
    BY DEF AddHoliday
  <1>5. MonthsInv
    BY DEF FrozenInv, ShapeInv
  <1>6. \A m \in Months :
          /\ payroll'[m] = [f \in {"locked", "locks", "clean"} |-> payroll'[m][f]]
          /\ payroll'[m].locks = payroll[m].locks /\ payroll'[m].locks \in Nat
          /\ payroll'[m].locked = payroll[m].locked
          /\ payroll'[m].clean => payroll[m].clean /\ ~ BearsOn(h, m)
    <2> SUFFICES ASSUME NEW m \in Months
                 PROVE  /\ payroll'[m] = [f \in {"locked", "locks", "clean"} |-> payroll'[m][f]]
                        /\ payroll'[m].locks = payroll[m].locks /\ payroll'[m].locks \in Nat
                        /\ payroll'[m].locked = payroll[m].locked
                        /\ payroll'[m].clean => payroll[m].clean /\ ~ BearsOn(h, m)
      OBVIOUS
    <2>1. PICK q : q = payroll[m] /\ q = [f \in {"locked", "locks", "clean"} |-> q[f]] /\ q.locks \in Nat
      BY <1>5 DEF MonthsInv
    <2>2. CASE BearsOn(h, m)
      <3>1. payroll'[m] = [q EXCEPT !.clean = FALSE]
        BY <1>2, <2>1, <2>2
      <3> QED
        BY <2>1, <3>1
    <2>3. CASE ~ BearsOn(h, m)
      <3>1. payroll'[m] = q
        BY <1>2, <2>1, <2>3
      <3> QED
        BY <2>1, <2>3, <3>1
    <2> QED
      BY <2>2, <2>3
  <1>7. MonthsInv'
    <2>1. payroll' = [m \in Months |-> [f \in {"locked", "locks", "clean"} |-> payroll'[m][f]]]
      <3>1. payroll' = [m \in Months |-> payroll'[m]]
        BY DEF AddHoliday
      <3> QED
        BY <1>6, <3>1
    <2>2. leave' = [l \in Leaves |-> [f \in {"status", "paid"} |-> leave'[l][f]]]
      <3>1. leave' = [l \in Leaves |-> leave'[l]]
        BY DEF AddHoliday
      <3>2. \A l \in Leaves : leave'[l] = [f \in {"status", "paid"} |-> leave'[l][f]]
        BY <1>3, <1>5 DEF MonthsInv
      <3> QED
        BY <3>1, <3>2
    <2> QED
      BY <1>6, <2>1, <2>2 DEF MonthsInv
  <1>8. ShapeInv'
    BY <1>1, <1>7 DEF FrozenInv, ShapeInv, DaysInv, AskedInv
  <1>9. ASSUME NEW m \in Months, Standing(m)'
        PROVE  Standing(m) /\ payroll'[m].locks = payroll[m].locks /\ Kept(m)
    <2>1. Standing(m) /\ ~ BearsOn(h, m)
      BY <1>6, <1>9 DEF Standing
    <2>2. \A l \in Leaves : Touches(l, m) => leave'[l] = leave[l]
      BY <1>3, <2>1 DEF BearsOn, Touches
    <2>3. holidays' = holidays \cup {h}
      BY DEF AddHoliday
    <2> QED
      BY <1>1, <1>6, <2>1, <2>2, <2>3 DEF Kept
  <1>10. \A m \in Months : payroll'[m].locks >= payroll[m].locks
    <2>1. \A m \in Months : payroll'[m].locks = payroll[m].locks /\ payroll[m].locks \in Nat
      BY <1>5, <1>6 DEF MonthsInv
    <2> QED
      BY <2>1
  <1> QED
    BY <1>1, <1>8, <1>9, <1>10, StillKeeps

\* A new lock: no export and no handler has its number yet, and if it makes the month stand,
\* nothing is under way.
LEMMA LockFreezes ==
  ASSUME FrozenInv, NEW m0 \in Months, Lock(m0)
  PROVE  FrozenInv'
  <1>1. UNCHANGED <<today, request, day, leave, holidays, exports, call>>
    BY DEF Lock
  <1>2. ShapeInv /\ MonthsInv /\ payroll[m0].locks \in Nat
    BY DEF FrozenInv, ShapeInv, MonthsInv
  <1>3. /\ \A m \in Months : m # m0 => payroll'[m] = payroll[m]
        /\ payroll'[m0].locks = payroll[m0].locks + 1
        /\ payroll'[m0].clean => InOrder(m0) /\ \A c \in Calls : call[c] = Idle
    BY <1>2 DEF Lock, MonthsInv, Busy
  <1>4. ShapeInv'
    <2>1. MonthsInv'
      BY <1>1, <1>2 DEF Lock, MonthsInv
    <2> QED
      BY <1>1, <1>2, <2>1 DEF ShapeInv, DaysInv, AskedInv
  <1>5. \A m \in Months : Kept(m)
    BY <1>1 DEF Kept
  <1>6. ASSUME NEW c \in Calls, NEW x, x = call'[c] PROVE Fits(x)'
    <2>1. Fits(x) /\ x = call[c]
      BY <1>1, <1>6 DEF FrozenInv, HandlersInv
    <2>2. Shaped(x)' /\ Shaped(x)
      BY <2>1 DEF Fits, Shaped, IsWork
    <2>3. Numbered(x)'
      <3>1. SUFFICES ASSUME x.at \in {"figures", "export"} PROVE x.locks <= payroll'[x.m].locks
        BY DEF Numbered
      <3>2. PICK m \in Months : m = x.m
        BY <2>2, <3>1 DEF Shaped
      <3>3. x.locks \in Nat /\ x.locks <= payroll[m].locks /\ payroll[m].locks \in Nat
        BY <1>2, <2>1, <2>2, <3>1, <3>2 DEF Fits, Shaped, Numbered, MonthsInv
      <3>4. payroll'[m].locks = payroll[m].locks \/ payroll'[m].locks = payroll[m].locks + 1
        BY <1>3
      <3> QED
        BY <3>2, <3>3, <3>4
    <2>4. ASSUME NEW m \in Months, Standing(m)' PROVE Alone(x, m)'
      <3>1. CASE m = m0
        <4>1. x = Idle
          BY <1>3, <2>1, <2>4, <3>1 DEF Standing
        <4> QED
          BY <4>1 DEF Alone, Idle
      <3>2. CASE m # m0
        <4>1. Standing(m) /\ payroll'[m].locks = payroll[m].locks
          BY <1>3, <2>4, <3>2 DEF Standing
        <4> QED
          BY <1>5, <2>1, <4>1, AloneKept DEF Fits
      <3> QED
        BY <3>1, <3>2
    <2> QED
      BY <2>2, <2>3, <2>4 DEF Fits
  <1>7. ASSUME NEW m \in Months, Standing(m)'
        PROVE  /\ InOrder(m)'
               /\ \A e \in exports : e.m = m /\ e.locks = payroll'[m].locks => e.rows = Figures(m)'
    <2>1. CASE m = m0
      <3>1. InOrder(m)'
        BY <1>3, <1>5, <1>7, <2>1, OrderKept DEF Standing
      <3>2. ASSUME NEW e \in exports, e.m = m, e.locks = payroll'[m].locks PROVE FALSE
        <4>1. e.locks \in Nat /\ e.locks <= payroll[m0].locks
          BY <2>1, <3>2 DEF FrozenInv, ExportsInv
        <4> QED
          BY <1>2, <1>3, <2>1, <3>2, <4>1
      <3> QED
        BY <3>1, <3>2
    <2>2. CASE m # m0
      <3>1. Standing(m) /\ payroll'[m].locks = payroll[m].locks
        BY <1>3, <1>7, <2>2 DEF Standing
      <3> QED
        BY <1>5, <3>1, OrderKept, FiguresKept DEF FrozenInv, MonthsFrozen
    <2> QED
      BY <2>1, <2>2
  <1>8. ASSUME NEW e \in exports
        PROVE  e.m \in Months /\ e.locks \in Nat /\ e.locks <= payroll'[e.m].locks
    <2>1. PICK m \in Months : m = e.m /\ e.locks \in Nat /\ e.locks <= payroll[m].locks
      BY <1>8 DEF FrozenInv, ExportsInv
    <2>2. payroll'[m].locks = payroll[m].locks \/ payroll'[m].locks = payroll[m].locks + 1
      BY <1>3
    <2>3. payroll[m].locks \in Nat
      BY <1>2 DEF MonthsInv
    <2> QED
      BY <2>1, <2>2, <2>3
  <1>9. HandlersInv'
    BY <1>6 DEF HandlersInv
  <1>10. MonthsFrozen'
    BY <1>1, <1>7 DEF MonthsFrozen
  <1>11. ExportsInv'
    BY <1>1, <1>8 DEF ExportsInv
  <1> QED
    BY <1>4, <1>9, <1>10, <1>11 DEF FrozenInv

LEMMA UnlockFreezes ==
  ASSUME FrozenInv, NEW m0 \in Months, Unlock(m0)
  PROVE  FrozenInv'
  <1>1. UNCHANGED <<today, request, day, leave, holidays, exports, call>>
    BY DEF Unlock
  <1>2. ShapeInv /\ MonthsInv
    BY DEF FrozenInv, ShapeInv
  <1>3. /\ \A m \in Months : m # m0 => payroll'[m] = payroll[m]
        /\ ~ payroll'[m0].locked /\ payroll'[m0].locks = payroll[m0].locks
        /\ payroll'[m0] = [f \in {"locked", "locks", "clean"} |-> payroll'[m0][f]]
    <2>1. PICK q : q = payroll[m0] /\ q = [f \in {"locked", "locks", "clean"} |-> q[f]]
      BY <1>2 DEF MonthsInv
    <2>2. /\ \A m \in Months : m # m0 => payroll'[m] = payroll[m]
          /\ payroll'[m0] = [q EXCEPT !.locked = FALSE]
      BY <1>2, <2>1 DEF Unlock, MonthsInv
    <2> QED
      BY <2>1, <2>2
  <1>4. ShapeInv'
    <2>1. MonthsInv'
      <3>1. \A m \in Months : /\ payroll'[m].locks \in Nat
                             /\ payroll'[m] = [f \in {"locked", "locks", "clean"} |-> payroll'[m][f]]
        BY <1>2, <1>3 DEF MonthsInv
      <3>2. payroll' = [m \in Months |-> payroll'[m]]
        BY <1>2 DEF Unlock, MonthsInv
      <3>3. payroll' = [m \in Months |-> [f \in {"locked", "locks", "clean"} |-> payroll'[m][f]]]
        BY <3>1, <3>2
      <3> QED
        BY <1>1, <1>2, <3>1, <3>3 DEF MonthsInv
    <2> QED
      BY <1>1, <1>2, <2>1 DEF ShapeInv, DaysInv, AskedInv
  <1>5. \A m \in Months : payroll'[m].locks >= payroll[m].locks
    <2>1. \A m \in Months : payroll'[m].locks = payroll[m].locks /\ payroll[m].locks \in Nat
      BY <1>2, <1>3 DEF MonthsInv
    <2> QED
      BY <2>1
  <1>6. \A m \in Months : Standing(m)' =>
           Standing(m) /\ payroll'[m].locks = payroll[m].locks /\ Kept(m)
    BY <1>1, <1>3 DEF Standing, Kept
  <1> QED
    BY <1>1, <1>4, <1>5, <1>6, StillKeeps

LEMMA HandlerFreezes ==
  ASSUME FrozenInv, OnceInv, NEW c \in Calls, Step(c)
  PROVE  FrozenInv'
  <1>1. PICK next : Become(c, next) /\ Fits(next)
    BY NextFits
  <1>2. UNCHANGED <<payroll, holidays>> /\ ShapeInv
    BY Frame DEF FrozenInv
  <1>3. ShapeInv'
    BY <1>2, DaysKeep, MonthsKeep, AskedKeeps DEF ShapeInv, FrozenInv, HandlersInv, Fits
  <1>4. /\ \A x : Fits(x) => Fits(x)'
        /\ \A m \in Months : Standing(m)' =>
              /\ InOrder(m)'
              /\ \A e \in exports : e.m = m /\ e.locks = payroll'[m].locks => e.rows = Figures(m)'
    <2>1. \A m \in Months : payroll'[m].locks \in Nat /\ payroll'[m].locks >= payroll[m].locks
      BY <1>2 DEF ShapeInv, MonthsInv
    <2>2. \A m \in Months : Standing(m)' =>
             Standing(m) /\ payroll'[m].locks = payroll[m].locks /\ Kept(m)
      BY <1>2, StepKeepsMonth DEF Standing
    <2> QED
      BY <2>1, <2>2, KeptKeeps
  <1>5. HandlersInv'
    <2>1. call'[c] = next /\ \A b \in Calls : b # c => call'[b] = call[b]
      BY <1>1 DEF Become, OnceInv, CallsInv
    <2>2. \A b \in Calls : \A x : x = call[b] => Fits(x)
      BY DEF FrozenInv, HandlersInv
    <2> QED
      BY <1>1, <1>4, <2>1, <2>2 DEF HandlersInv
  <1>6. CASE UNCHANGED exports
    <2>1. MonthsFrozen'
      BY <1>4, <1>6 DEF MonthsFrozen
    <2>2. ExportsInv'
      BY <1>2, <1>6 DEF ExportsInv, FrozenInv
    <2> QED
      BY <1>3, <1>5, <2>1, <2>2 DEF FrozenInv
  <1>7. CASE ExportInsert(c)
    <2>1. PICK x : x = call[c] /\ Fits(x) /\ x.at = "export"
      BY <1>7 DEF FrozenInv, HandlersInv, ExportInsert, Continue
    <2>2. PICK m \in Months : m = x.m /\ x.locks \in Nat /\ x.locks <= payroll[m].locks
      BY <2>1 DEF Fits, Shaped, Numbered
    <2>3. PICK e : e = [m |-> m, locks |-> x.locks, revision |-> x.revision, rows |-> x.rows]
      OBVIOUS
    <2>4. exports' \subseteq exports \cup {e}
      BY <1>7, <2>1, <2>2, <2>3 DEF ExportInsert, InsertExport
    <2>5. Standing(m)' /\ x.locks = payroll'[m].locks => x.rows = Figures(m)'
      <3>1. Fits(x)'
        BY <1>4, <2>1
      <3> QED
        BY <2>1, <2>2, <3>1 DEF Fits, Alone
    <2>6. MonthsFrozen'
      BY <1>4, <2>3, <2>4, <2>5 DEF MonthsFrozen
    <2>7. ExportsInv'
      BY <1>2, <2>2, <2>3, <2>4 DEF ExportsInv, FrozenInv
    <2> QED
      BY <1>3, <1>5, <2>6, <2>7 DEF FrozenInv
  <1> QED
    BY <1>6, <1>7, Frame

LEMMA FrozenInitially == Init => FrozenInv
  <1> SUFFICES ASSUME Init PROVE FrozenInv
    OBVIOUS
  <1>1. ShapeInv
    <2>1. 0 \in Days
      BY WorkdaysAssumption DEF Days
    <2> QED
      BY <2>1 DEF Init, ShapeInv, DaysInv, MonthsInv, AskedInv
  <1>2. HandlersInv
    BY IdleFits DEF Init, HandlersInv
  <1>3. MonthsFrozen /\ ExportsInv
    BY DEF Init, MonthsFrozen, ExportsInv, Standing
  <1> QED
    BY <1>1, <1>2, <1>3 DEF FrozenInv

LEMMA FrozenStep == FrozenInv /\ OnceInv /\ [Next]_vars => FrozenInv'
  <1> SUFFICES ASSUME FrozenInv, OnceInv, [Next]_vars PROVE FrozenInv'
    OBVIOUS
  <1>1. ASSUME UNCHANGED <<today, request, day, leave, holidays, payroll, exports>>
        PROVE  /\ ShapeInv' /\ MonthsFrozen' /\ ExportsInv'
               /\ \A x : Fits(x) => Fits(x)'
    <2>1. ShapeInv' /\ ExportsInv'
      BY <1>1 DEF FrozenInv, ShapeInv, DaysInv, MonthsInv, AskedInv, ExportsInv
    <2>2. \A m \in Months : payroll'[m].locks \in Nat /\ payroll'[m].locks >= payroll[m].locks
      BY <1>1 DEF FrozenInv, ShapeInv, MonthsInv
    <2>3. \A m \in Months : Standing(m)' =>
             Standing(m) /\ payroll'[m].locks = payroll[m].locks /\ Kept(m)
      BY <1>1 DEF Standing, Kept
    <2>4. /\ \A x : Fits(x) => Fits(x)'
          /\ \A m \in Months : Standing(m)' =>
               /\ InOrder(m)'
               /\ \A e \in exports : e.m = m /\ e.locks = payroll'[m].locks => e.rows = Figures(m)'
      BY <2>2, <2>3, KeptKeeps
    <2>5. MonthsFrozen'
      BY <1>1, <2>4 DEF MonthsFrozen
    <2> QED
      BY <2>1, <2>4, <2>5
  <1>2. CASE UNCHANGED vars
    <2>1. UNCHANGED <<today, request, day, leave, holidays, payroll, exports, call>>
      BY <1>2 DEF vars, records
    <2> QED
      BY <1>1, <2>1 DEF FrozenInv, HandlersInv
  <1>3. CASE Restart
    <2>1. call' = [c \in Calls |-> Idle]
          /\ UNCHANGED <<today, request, day, leave, holidays, payroll, exports>>
      BY <1>3 DEF Restart, records
    <2>2. Fits(Idle)'
      <3>1. PICK x : x = Idle
        OBVIOUS
      <3>2. Fits(x)'
        BY <1>1, <2>1, <3>1, IdleFits
      <3> QED
        BY <3>1, <3>2
    <2> QED
      BY <1>1, <2>1, <2>2 DEF FrozenInv, HandlersInv
  <1>4. CASE NextDay
    BY <1>4, NextDayFreezes
  <1>5. CASE \E h \in HolidayDays : AddHoliday(h)
    BY <1>5, HolidayFreezes
  <1>6. CASE \E m \in Months : Lock(m) \/ Unlock(m)
    BY <1>6, LockFreezes, UnlockFreezes
  <1>7. CASE \E c \in Calls : Step(c)
    BY <1>7, HandlerFreezes
  <1> QED
    BY <1>2, <1>3, <1>4, <1>5, <1>6, <1>7 DEF Next

\* "Once Finance locks and exports a month, the figures that fed it must not move": whatever
\* corrections, credits, leave decisions, nightly jobs and exports are made or die while the lock
\* stands, an export made under it has the figures the month has, if nothing was under way and
\* the deductions were in order when it was locked, and no holiday was declared that bears on it.
THEOREM ExportedFiguresStand == Spec => []ExportsStand
  <1>1. FrozenInv => ExportsStand
    BY DEF FrozenInv, ExportsInv, MonthsFrozen, Standing, ExportsStand
  <1>2. Init => OnceInv /\ FrozenInv
    BY OnceInitially, FrozenInitially
  <1>3. OnceInv /\ FrozenInv /\ [Next]_vars => OnceInv' /\ FrozenInv'
    BY OnceStep, FrozenStep
  <1> QED
    BY <1>1, <1>2, <1>3, PTL DEF Spec-----------------------------------------------------------------------------
\* Sums over finite sets.

\* The element a sum takes next; g, which gives the sum of F over every subset of S, whatever
\* the order; i, which follows the recursion of the community module's fold.
Pick(s) == CHOOSE x \in s : TRUE
Sums(g, F, S) ==
  /\ g \in [SUBSET S -> Int]
  /\ g[{}] = 0
  /\ \A s \in SUBSET S : \A x \in s : g[s] = F[x] + g[s \ {x}]
Recurses(i, F, S) ==
  i = [s \in SUBSET S |-> IF s = {} THEN 0 ELSE F[Pick(s)] + i[s \ {Pick(s)}]]
SumOf(F, S) == MapThenSumSet(LAMBDA x : F[x], S)

\* Induction over the subsets of a finite set: one that is in T is there without needing a
\* smaller one.
LEMMA SmallestSubset ==
  ASSUME NEW S, IsFiniteSet(S), NEW T \in SUBSET SUBSET S, T # {}
  PROVE  \E s \in T : \A x \in s : s \ {x} \notin T
  <1>1. IsWellFoundedOn(StrictSubsetOrdering(S), SUBSET S)
    BY FS_StrictSubsetOrderingWellFounded, FS_FiniteSubsetsOfFinite
  <1>2. PICK s \in T : \A t \in T : <<t, s>> \notin StrictSubsetOrdering(S)
    BY <1>1, WFMin
  <1>3. ASSUME NEW x \in s, s \ {x} \in T
        PROVE  <<s \ {x}, s>> \in StrictSubsetOrdering(S)
    BY <1>2, <1>3 DEF StrictSubsetOrdering
  <1> QED
    BY <1>2, <1>3

LEMMA SumsExtend ==
  ASSUME NEW S, NEW e \in S, NEW F \in [S -> Int], NEW h, Sums(h, F, S \ {e})
  PROVE  \E g : Sums(g, F, S)
  <1> DEFINE g == [s \in SUBSET S |-> h[s \ {e}] + (IF e \in s THEN F[e] ELSE 0)]
  <1>1. \A s \in SUBSET S : s \ {e} \in SUBSET (S \ {e})
    OBVIOUS
  <1>2. g \in [SUBSET S -> Int]
    BY <1>1 DEF Sums
  <1>3. g[{}] = 0
    <2>1. {} \ {e} = {} /\ {} \in SUBSET S
      OBVIOUS
    <2> QED
      BY <2>1 DEF Sums
  <1>4. ASSUME NEW s \in SUBSET S, NEW x \in s
        PROVE  g[s] = F[x] + g[s \ {x}]
    <2>1. s \ {x} \in SUBSET S /\ F[x] \in Int /\ F[e] \in Int
      OBVIOUS
    <2>2. h[s \ {e}] \in Int /\ h[(s \ {x}) \ {e}] \in Int
      BY <1>1, <2>1 DEF Sums
    <2>3. CASE x = e
      <3>1. (s \ {x}) \ {e} = s \ {e}
        BY <2>3
      <3>2. g[s] = h[s \ {e}] + F[e] /\ g[s \ {x}] = h[s \ {e}] + 0
        BY <2>1, <2>3, <3>1
      <3> QED
        BY <2>1, <2>2, <2>3, <3>2
    <2>4. CASE x # e
      <3>1. x \in s \ {e} /\ (s \ {e}) \ {x} = (s \ {x}) \ {e} /\ (e \in s \ {x} <=> e \in s)
        BY <2>4
      <3>2. h[s \ {e}] = F[x] + h[(s \ {x}) \ {e}]
        <4>1. PICK t \in SUBSET (S \ {e}) : t = s \ {e}
          BY <1>1
        <4>2. h[t] = F[x] + h[t \ {x}]
          BY <3>1, <4>1 DEF Sums
        <4> QED
          BY <3>1, <4>1, <4>2
      <3>3. PICK more \in Int : more = IF e \in s THEN F[e] ELSE 0
        BY <2>1
      <3>4. g[s] = h[s \ {e}] + more /\ g[s \ {x}] = h[(s \ {x}) \ {e}] + more
        BY <2>1, <3>1, <3>3
      <3> HIDE DEF g
      <3>5. PICK n \in Int, f \in Int : n = h[(s \ {x}) \ {e}] /\ f = F[x]
        BY <2>1, <2>2
      <3>6. g[s] = (f + n) + more /\ g[s \ {x}] = n + more
        BY <3>2, <3>4, <3>5
      <3>7. (f + n) + more = f + (n + more)
        BY <3>3, <3>5
      <3> QED
        BY <3>5, <3>6, <3>7
    <2> QED
      BY <2>3, <2>4
  <1> HIDE DEF g
  <1> QED
    BY <1>2, <1>3, <1>4 DEF Sums

LEMMA SumsExist ==
  ASSUME NEW S, IsFiniteSet(S), NEW F \in [S -> Int]
  PROVE  \E g : Sums(g, F, S)
  <1> DEFINE T == {s \in SUBSET S : ~ \E g : Sums(g, [x \in s |-> F[x]], s)}
  <1>1. ASSUME NEW s \in T, \A x \in s : s \ {x} \notin T
        PROVE  FALSE
    <2>1. CASE s = {}
      <3>1. Sums([t \in SUBSET s |-> 0], [x \in s |-> F[x]], s)
        BY <2>1 DEF Sums
      <3> QED
        BY <3>1
    <2>2. CASE s # {}
      <3>1. PICK e \in s : TRUE
        BY <2>2
      <3>2. PICK h : Sums(h, [x \in s \ {e} |-> F[x]], s \ {e})
        BY <1>1
      <3>3. Sums(h, [x \in s |-> F[x]], s \ {e})
        BY <3>2 DEF Sums
      <3>4. [x \in s |-> F[x]] \in [s -> Int]
        OBVIOUS
      <3> QED
        BY <3>3, <3>4, SumsExtend
    <2> QED
      BY <2>1, <2>2
  <1> HIDE DEF T
  <1>2. T = {}
    <2>1. T \in SUBSET SUBSET S
      BY DEF T
    <2> QED
      BY <1>1, <2>1, SmallestSubset
  <1>3. [x \in S |-> F[x]] = F
    OBVIOUS
  <1> QED
    BY <1>2, <1>3 DEF T

\* The fold computes that sum.
LEMMA FoldIsSum ==
  ASSUME NEW S, IsFiniteSet(S), NEW F, NEW g, Sums(g, F, S)
  PROVE  /\ Recurses(g, F, S)
         /\ \A i : Recurses(i, F, S) => \A s \in SUBSET S : i[s] = g[s]
  <1>1. \A s \in SUBSET S : s # {} => Pick(s) \in s
    BY DEF Pick
  <1>2. Recurses(g, F, S)
    BY <1>1 DEF Recurses, Sums
  <1>3. ASSUME NEW i, Recurses(i, F, S)
        PROVE  \A s \in SUBSET S : i[s] = g[s]
    <2> DEFINE T == {s \in SUBSET S : i[s] # g[s]}
    <2>1. ASSUME NEW s \in T, \A x \in s : s \ {x} \notin T
          PROVE  FALSE
      <3>1. i[s] = IF s = {} THEN 0 ELSE F[Pick(s)] + i[s \ {Pick(s)}]
        BY <1>3 DEF Recurses
      <3>2. s # {} => i[s \ {Pick(s)}] = g[s \ {Pick(s)}]
        BY <1>1, <2>1
      <3> QED
        BY <1>1, <3>1, <3>2 DEF Sums
    <2> QED
      BY <2>1, SmallestSubset
  <1> QED
    BY <1>2, <1>3

LEMMA TotalIsSum ==
  ASSUME NEW S, IsFiniteSet(S), NEW F, NEW g, Sums(g, F, S)
  PROVE  SumOf(F, S) = g[S]
  <1> DEFINE i == CHOOSE i : i = [s \in SUBSET S |->
                               IF s = {} THEN 0 ELSE F[Pick(s)] + i[s \ {Pick(s)}]]
  <1>1. SumOf(F, S) = i[S]
    BY DEF SumOf, MapThenSumSet, MapThenFoldSet, Pick
  <1>2. Recurses(i, F, S)
    <2>1. Recurses(g, F, S)
      BY FoldIsSum
    <2>2. \A j : Recurses(j, F, S) <=>
            j = [s \in SUBSET S |-> IF s = {} THEN 0 ELSE F[Pick(s)] + j[s \ {Pick(s)}]]
      BY DEF Recurses
    <2> QED
      BY <2>1, <2>2
  <1> HIDE DEF i
  <1> QED
    BY <1>1, <1>2, FoldIsSum

LEMMA TotalSame ==
  ASSUME NEW S, IsFiniteSet(S), NEW F, NEW G, \A x \in S : F[x] = G[x] /\ F[x] \in Int
  PROVE  SumOf(F, S) = SumOf(G, S)
  <1> DEFINE H == [x \in S |-> F[x]]
  <1>1. PICK g : Sums(g, H, S)
    BY SumsExist
  <1>2. Sums(g, F, S) /\ Sums(g, G, S)
    BY <1>1 DEF Sums
  <1> QED
    BY <1>2, TotalIsSum

\* A total, one element at a time.
LEMMA TotalStep ==
  ASSUME NEW S, IsFiniteSet(S), NEW F, \A x \in S : F[x] \in Int
  PROVE  /\ SumOf(F, S) \in Int
         /\ S = {} => SumOf(F, S) = 0
         /\ \A x \in S : SumOf(F, S) = F[x] + SumOf(F, S \ {x})
  <1>1. PICK g : Sums(g, [x \in S |-> F[x]], S)
    BY SumsExist
  <1>2. Sums(g, F, S)
    BY <1>1 DEF Sums
  <1>3. SumOf(F, S) = g[S]
    BY <1>2, TotalIsSum
  <1>4. ASSUME NEW x \in S
        PROVE  SumOf(F, S \ {x}) = g[S \ {x}]
    <2> DEFINE h == [s \in SUBSET (S \ {x}) |-> g[s]]
    <2>1. Sums(h, F, S \ {x})
      BY <1>2 DEF Sums
    <2>2. IsFiniteSet(S \ {x})
      BY FS_Subset
    <2>3. SumOf(F, S \ {x}) = h[S \ {x}]
      BY <2>1, <2>2, TotalIsSum
    <2> QED
      BY <2>3
  <1>5. /\ g[S] \in Int
        /\ S = {} => g[S] = 0
        /\ \A x \in S : g[S] = F[x] + g[S \ {x}]
    BY <1>2 DEF Sums
  <1> QED
    BY <1>3, <1>4, <1>5

\* What follows the recursion of the fold has the total: how a sum of the model is reached.
LEMMA RecursionIsTotal ==
  ASSUME NEW S, IsFiniteSet(S), NEW F, \A x \in S : F[x] \in Int
  PROVE  /\ \E i : Recurses(i, F, S)
         /\ \A i : Recurses(i, F, S) => i[S] = SumOf(F, S)
  <1>1. PICK g : Sums(g, [x \in S |-> F[x]], S)
    BY SumsExist
  <1>2. Sums(g, F, S)
    BY <1>1 DEF Sums
  <1>3. Recurses(g, F, S) /\ \A i : Recurses(i, F, S) => i[S] = g[S]
    BY <1>2, FoldIsSum
  <1> QED
    BY <1>2, <1>3, TotalIsSum

-----------------------------------------------------------------------------
\* What stretches are charged.

ChargeOf(g) == IdleOf({<<g.from, g.to>>})

LEMMA TimeIsFinite == IsFiniteSet(Time)
  <1>1. IsFiniteSet(0 .. LastTick)
    BY WorkdaysAssumption, FS_Interval
  <1> QED
    BY <1>1 DEF Time

LEMMA ChargeIsNat == \A g : ChargeOf(g) \in Nat
  <1>1. \A spans : IsFiniteSet(ShiftTicks(spans))
    BY TimeIsFinite, FS_Subset DEF ShiftTicks
  <1> QED
    BY <1>1, FS_CardinalityType DEF ChargeOf, IdleOf

LEMMA ChargedIsSum ==
  ASSUME NEW rows, IsFiniteSet(rows)
  PROVE  Charged(rows) = SumOf([g \in rows |-> ChargeOf(g)], rows)
  <1> DEFINE F == [g \in rows |-> ChargeOf(g)]
             iter == CHOOSE it : it = [s \in SUBSET rows |->
                       IF s = {} THEN 0 ELSE ChargeOf(Pick(s)) + it[s \ {Pick(s)}]]
  <1>1. \A s \in SUBSET rows : s # {} => Pick(s) \in rows
    BY DEF Pick
  <1>2. \A it : Recurses(it, F, rows) <=>
          it = [s \in SUBSET rows |->
                  IF s = {} THEN 0 ELSE ChargeOf(Pick(s)) + it[s \ {Pick(s)}]]
    BY <1>1 DEF Recurses
  <1>3. Charged(rows) = iter[rows]
    BY DEF Charged, ChargeOf, MapThenSumSet, MapThenFoldSet, Pick
  <1>4. \A g \in rows : F[g] \in Int
    BY ChargeIsNat
  <1> HIDE DEF F
  <1>5. PICK g : Recurses(g, F, rows)
    BY <1>4, RecursionIsTotal
  <1>6. Recurses(iter, F, rows)
    BY <1>2, <1>5
  <1> HIDE DEF iter
  <1> QED
    BY <1>3, <1>4, <1>6, RecursionIsTotal DEF F

LEMMA ChargedStep ==
  ASSUME NEW rows, IsFiniteSet(rows)
  PROVE  /\ Charged(rows) \in Int
         /\ rows = {} => Charged(rows) = 0
         /\ \A g \in rows : Charged(rows) = ChargeOf(g) + Charged(rows \ {g})
  <1> DEFINE F == [g \in rows |-> ChargeOf(g)]
  <1>1. \A g \in rows : F[g] \in Int
    BY ChargeIsNat
  <1>2. Charged(rows) = SumOf(F, rows)
    BY ChargedIsSum
  <1>3. ASSUME NEW g \in rows
        PROVE  Charged(rows \ {g}) = SumOf(F, rows \ {g})
    <2> DEFINE G == [h \in rows \ {g} |-> ChargeOf(h)]
    <2>1. IsFiniteSet(rows \ {g})
      BY FS_Subset
    <2>2. \A h \in rows \ {g} : G[h] = F[h] /\ G[h] \in Int
      BY <1>1
    <2>3. Charged(rows \ {g}) = SumOf(G, rows \ {g})
      BY <2>1, ChargedIsSum
    <2> HIDE DEF F, G
    <2> QED
      BY <2>1, <2>2, <2>3, TotalSame
  <1>4. \A g \in rows : F[g] = ChargeOf(g)
    OBVIOUS
  <1> HIDE DEF F
  <1> QED
    BY <1>1, <1>2, <1>3, <1>4, TotalStep

LEMMA ChargedIsNat ==
  ASSUME NEW rows, IsFiniteSet(rows)
  PROVE  Charged(rows) \in Nat
  <1> DEFINE T == {s \in SUBSET rows : Charged(s) \notin Nat}
  <1>1. ASSUME NEW s \in T, \A g \in s : s \ {g} \notin T
        PROVE  FALSE
    <2>1. IsFiniteSet(s)
      BY FS_Subset
    <2>2. CASE s = {}
      BY <2>1, <2>2, ChargedStep
    <2>3. CASE s # {}
      <3>1. PICK g \in s : TRUE
        BY <2>3
      <3>2. Charged(s \ {g}) \in Nat
        BY <1>1, <3>1
      <3>3. Charged(s) = ChargeOf(g) + Charged(s \ {g}) /\ ChargeOf(g) \in Nat
        BY <2>1, <3>1, ChargedStep, ChargeIsNat
      <3>4. Charged(s) \in Nat
        BY <3>2, <3>3
      <3> QED
        BY <3>4
    <2> QED
      BY <2>2, <2>3
  <1>2. T = {}
    BY <1>1, SmallestSubset
  <1> QED
    BY <1>2

LEMMA ChargedUnion ==
  ASSUME NEW A, NEW B, IsFiniteSet(A), IsFiniteSet(B), A \cap B = {}
  PROVE  Charged(A \cup B) = Charged(A) + Charged(B)
  <1> DEFINE T == {s \in SUBSET A : Charged(s \cup B) # Charged(s) + Charged(B)}
  <1>1. ASSUME NEW s \in T, \A g \in s : s \ {g} \notin T
        PROVE  FALSE
    <2>1. IsFiniteSet(s) /\ IsFiniteSet(s \cup B)
      BY FS_Subset, FS_Union
    <2>2. Charged(B) \in Int
      BY ChargedStep
    <2>3. CASE s = {}
      <3>1. Charged(s) = 0 /\ s \cup B = B
        BY <2>1, <2>3, ChargedStep
      <3>2. PICK n \in Int : n = Charged(B)
        BY <2>2
      <3>3. Charged(s \cup B) = n
        BY <3>1, <3>2
      <3> QED
        BY <3>1, <3>2, <3>3
    <2>4. CASE s # {}
      <3>1. PICK g \in s : TRUE
        BY <2>4
      <3>2. (s \cup B) \ {g} = (s \ {g}) \cup B
        BY <3>1
      <3>3. Charged((s \ {g}) \cup B) = Charged(s \ {g}) + Charged(B)
        BY <1>1, <3>1
      <3>4. /\ Charged(s) = ChargeOf(g) + Charged(s \ {g})
            /\ Charged(s \cup B) = ChargeOf(g) + Charged((s \ {g}) \cup B)
        BY <2>1, <3>1, <3>2, ChargedStep
      <3>5. PICK c \in Int, n \in Int : c = ChargeOf(g) /\ n = Charged(s \ {g})
        <4>1. IsFiniteSet(s \ {g})
          BY <2>1, FS_Subset
        <4> QED
          BY <4>1, ChargeIsNat, ChargedIsNat
      <3> QED
        BY <2>2, <3>3, <3>4, <3>5
    <2> QED
      BY <2>3, <2>4
  <1>2. T = {}
    BY <1>1, SmallestSubset
  <1> QED
    BY <1>2

LEMMA ChargedSplit ==
  ASSUME NEW S, IsFiniteSet(S), NEW A \in SUBSET S
  PROVE  /\ Charged(S) = Charged(S \ A) + Charged(A)
         /\ Charged(A) <= Charged(S)
  <1>1. IsFiniteSet(A) /\ IsFiniteSet(S \ A) /\ (S \ A) \cup A = S
    BY FS_Subset
  <1>2. Charged((S \ A) \cup A) = Charged(S \ A) + Charged(A)
    BY <1>1, ChargedUnion
  <1>3. PICK a \in Nat, b \in Nat : a = Charged(A) /\ b = Charged(S \ A)
    BY <1>1, ChargedIsNat
  <1>4. Charged(S) = b + a
    BY <1>1, <1>2, <1>3
  <1> QED
    BY <1>3, <1>4
\* A whole number of days later, the same instant of the shift.
LEMMA SameTickOfDay ==
  ASSUME NEW d \in Nat, NEW a \in Int
  PROVE  /\ d * TicksPerDay \in Nat
         /\ (d * TicksPerDay + a) % TicksPerDay = a % TicksPerDay
  <1>1. TicksPerDay \in Nat \ {0}
    BY CalendarAssumption
  <1>2. PICK base \in Nat : base = d * TicksPerDay
    <2>1. d * TicksPerDay \in Int /\ d * TicksPerDay >= 0
      BY <1>1, Z3
    <2> QED
      BY <2>1
  <1>3. PICK q \in Int, r \in 0 .. TicksPerDay - 1 :
          r = a % TicksPerDay /\ a = TicksPerDay * q + r
    <2>1. /\ a \div TicksPerDay \in Int /\ a % TicksPerDay \in 0 .. TicksPerDay - 1
          /\ a = TicksPerDay * (a \div TicksPerDay) + (a % TicksPerDay)
      BY <1>1
    <2> QED
      BY <2>1
  <1>4. PICK p \in Int, t \in 0 .. TicksPerDay - 1 :
          t = (base + a) % TicksPerDay /\ base + a = TicksPerDay * p + t
    <2>1. PICK b \in Int : b = base + a
      OBVIOUS
    <2>2. /\ b \div TicksPerDay \in Int /\ b % TicksPerDay \in 0 .. TicksPerDay - 1
          /\ b = TicksPerDay * (b \div TicksPerDay) + (b % TicksPerDay)
      BY <1>1, <2>1
    <2> QED
      BY <2>1, <2>2
  <1>5. PICK z \in Int : z = p - d - q
    OBVIOUS
  <1>6. TicksPerDay * z = r - t
    <2>1. TicksPerDay * z = TicksPerDay * p - TicksPerDay * d - TicksPerDay * q
      BY <1>1, <1>5, Z3
    <2>2. TicksPerDay * d = base
      BY <1>1, <1>2, Z3
    <2>3. PICK x \in Int, y \in Int : x = TicksPerDay * p /\ y = TicksPerDay * q
      BY <1>1
    <2>4. PICK v \in Int : v = TicksPerDay * z
      BY <1>1
    <2>5. v = x - base - y /\ a = y + r /\ base + a = x + t
      BY <1>3, <1>4, <2>1, <2>2, <2>3, <2>4
    <2>6. v = r - t
      BY <2>5
    <2> QED
      BY <2>4, <2>6
  <1>7. ~ (z >= 1)
    <2>1. z >= 1 => TicksPerDay * z >= TicksPerDay
      BY <1>1, <1>5, Z3
    <2> QED
      BY <1>1, <1>3, <1>4, <1>6, <2>1
  <1>8. ~ (z <= - 1)
    <2>1. z <= - 1 => TicksPerDay * z <= - TicksPerDay
      BY <1>1, <1>5, Z3
    <2> QED
      BY <1>1, <1>3, <1>4, <1>6, <2>1
  <1>9. r = t
    <2>1. z = 0
      BY <1>5, <1>7, <1>8
    <2>2. TicksPerDay * z = 0
      BY <1>1, <2>1
    <2> QED
      BY <1>1, <1>3, <1>4, <1>6, <2>2
  <1> QED
    BY <1>2, <1>3, <1>4, <1>9

\* The row a stretch of a day's shape becomes, and what it is charged.
RowOf(i, base, s) == [id |-> i, from |-> base + s[1], to |-> base + s[2]]

LEMMA RowCharge ==
  ASSUME NEW d \in Nat, NEW s \in Spans, d * TicksPerDay + s[2] <= LastTick + 1, NEW i
  PROVE  ChargeOf(RowOf(i, d * TicksPerDay, s)) = IdleOf({s})
  <1>1. PICK base \in Nat : base = d * TicksPerDay
    BY SameTickOfDay
  <1>2. \A t \in Int : InShift(base + t) <=> InShift(t)
    BY <1>1, SameTickOfDay DEF InShift
  <1>3. PICK from \in Int, to \in Int : /\ from = s[1] /\ to = s[2]
                                        /\ 0 <= from /\ from < to /\ base + to <= LastTick + 1
    BY <1>1, WorkdaysAssumption DEF Spans, Time
  <1> DEFINE A == {t \in Time : InShift(t) /\ from <= t /\ t < to}
             B == {t \in Time : InShift(t) /\ base + from <= t /\ t < base + to}
             f == [t \in A |-> base + t]
  <1>4. Time = {t \in Int : 0 <= t /\ t <= LastTick} /\ LastTick \in Int
    BY WorkdaysAssumption DEF Time
  <1>5. f \in [A -> B]
    BY <1>2, <1>3, <1>4
  <1>6. \A a, b \in A : f[a] = f[b] => a = b
    BY <1>4
  <1>7. ASSUME NEW b \in B
        PROVE  \E a \in A : f[a] = b
    <2>1. PICK a \in Int : a = b - base
      BY <1>4
    <2>2. b = base + a
      BY <1>4, <2>1
    <2>3. a \in A
      BY <1>2, <1>3, <1>4, <2>1, <2>2
    <2> QED
      BY <2>2, <2>3
  <1>8. ExistsBijection(A, B)
    <2>1. f \in Bijection(A, B)
      BY <1>5, <1>6, <1>7 DEF Bijection, Injection, Surjection, IsInjective
    <2> QED
      BY <2>1 DEF ExistsBijection
  <1>9. IsFiniteSet(A)
    <2>1. A \in SUBSET Time
      OBVIOUS
    <2> HIDE DEF A
    <2> QED
      BY <2>1, TimeIsFinite, FS_Subset
  <1>10. Cardinality(A) = Cardinality(B)
    BY <1>8, <1>9, FS_Bijection
  <1>11. ShiftTicks({s}) = A
    BY <1>3 DEF ShiftTicks
  <1>12. ShiftTicks({<<base + from, base + to>>}) = B
    BY DEF ShiftTicks
  <1> QED
    BY <1>1, <1>3, <1>10, <1>11, <1>12 DEF ChargeOf, IdleOf, RowOf

ApartSpans(spans) == \A s, z \in spans : s = z \/ s[2] <= z[1] \/ z[2] <= s[1]

LEMMA IdleAddsUp ==
  ASSUME NEW spans \in SUBSET Spans, ApartSpans(spans), NEW s \in spans
  PROVE  IdleOf(spans) = IdleOf({s}) + IdleOf(spans \ {s})
  <1>1. \A x : IsFiniteSet(ShiftTicks(x))
    BY TimeIsFinite, FS_Subset DEF ShiftTicks
  <1>2. ShiftTicks(spans) = ShiftTicks({s}) \cup ShiftTicks(spans \ {s})
    BY DEF ShiftTicks
  <1>3. ShiftTicks({s}) \cap ShiftTicks(spans \ {s}) = {}
    <2>1. SUFFICES ASSUME NEW t \in Time, s[1] <= t, t < s[2],
                          NEW z \in spans \ {s}, z[1] <= t, t < z[2]
                   PROVE  FALSE
      BY DEF ShiftTicks
    <2>2. /\ t \in Int /\ s[1] \in Int /\ s[2] \in Int /\ z[1] \in Int /\ z[2] \in Int
          /\ s[2] <= z[1] \/ z[2] <= s[1]
      BY WorkdaysAssumption DEF ApartSpans, Spans, Time
    <2> QED
      BY <2>1, <2>2
  <1>4. Cardinality(ShiftTicks({s}) \cup ShiftTicks(spans \ {s}))
        = Cardinality(ShiftTicks({s})) + Cardinality(ShiftTicks(spans \ {s})) - Cardinality({})
    BY <1>1, <1>3, FS_Union
  <1>5. Cardinality({}) = 0
    BY FS_EmptySet
  <1>6. PICK a \in Nat, b \in Nat : /\ a = Cardinality(ShiftTicks({s}))
                                    /\ b = Cardinality(ShiftTicks(spans \ {s}))
    BY <1>1, FS_CardinalityType
  <1> QED
    BY <1>2, <1>4, <1>5, <1>6 DEF IdleOf

\* The rows of a day's stretches are charged what the day is.
LEMMA ShapeCharge ==
  ASSUME NEW d \in Nat, NEW spans \in SUBSET Spans, ApartSpans(spans), NEW i,
         \A s \in spans : d * TicksPerDay + s[2] <= LastTick + 1
  PROVE  /\ IsFiniteSet({RowOf(i, d * TicksPerDay, s) : s \in spans})
         /\ Charged({RowOf(i, d * TicksPerDay, s) : s \in spans}) = IdleOf(spans)
  <1>1. PICK base \in Nat : base = d * TicksPerDay
    BY SameTickOfDay
  <1> DEFINE Rows(t) == {RowOf(i, base, s) : s \in t}
             T == {t \in SUBSET spans : Charged(Rows(t)) # IdleOf(t)}
  <1>2. IsFiniteSet(spans)
    <2>1. IsFiniteSet(Time \X Time)
      BY TimeIsFinite, FS_Product
    <2> QED
      BY <2>1, FS_Subset DEF Spans
  <1>3. \A t \in SUBSET spans : IsFiniteSet(Rows(t))
    <2>1. ASSUME NEW t \in SUBSET spans
          PROVE  IsFiniteSet(Rows(t))
      <3> DEFINE f == [s \in t |-> RowOf(i, base, s)]
      <3>1. f \in Surjection(t, Rows(t))
        BY DEF Surjection
      <3>2. IsFiniteSet(t)
        BY <1>2, FS_Subset
      <3> QED
        BY <3>1, <3>2, FS_Surjection
    <2> QED
      BY <2>1
  <1>4. ASSUME NEW s \in spans, NEW z \in spans, RowOf(i, base, s) = RowOf(i, base, z)
        PROVE  s = z
    <2>1. PICK a \in Int, b \in Int, p \in Int, q \in Int : s = <<a, b>> /\ z = <<p, q>>
      BY DEF Spans, Time
    <2>2. base + a = base + p /\ base + b = base + q
      BY <1>4, <2>1 DEF RowOf
    <2> QED
      BY <2>1, <2>2
  <1>5. ASSUME NEW t \in T, \A s \in t : t \ {s} \notin T
        PROVE  FALSE
    <2>1. IsFiniteSet(Rows(t)) /\ t \in SUBSET spans /\ Charged(Rows(t)) # IdleOf(t)
      BY <1>3
    <2>2. CASE t = {}
      <3>1. Rows(t) = {} /\ ShiftTicks(t) = {}
        BY <2>2 DEF ShiftTicks
      <3>2. Charged(Rows(t)) = 0
        BY <2>1, <3>1, ChargedStep
      <3>3. IdleOf(t) = 0
        BY <3>1, FS_EmptySet DEF IdleOf
      <3> QED
        BY <2>1, <3>2, <3>3
    <2>3. CASE t # {}
      <3>1. PICK s \in t : TRUE
        BY <2>3
      <3>2. PICK r : r = RowOf(i, base, s) /\ r \in Rows(t)
        BY <3>1
      <3>3. Rows(t) \ {r} = Rows(t \ {s})
        BY <1>4, <2>1, <3>1, <3>2
      <3>4. Charged(Rows(t \ {s})) = IdleOf(t \ {s})
        BY <1>5, <2>1, <3>1
      <3>5. ChargeOf(r) = IdleOf({s})
        BY <1>1, <2>1, <3>1, <3>2, RowCharge
      <3>6. Charged(Rows(t)) = ChargeOf(r) + Charged(Rows(t) \ {r})
        BY <2>1, <3>2, ChargedStep
      <3>7. IdleOf(t) = IdleOf({s}) + IdleOf(t \ {s})
        <4>1. ApartSpans(t) /\ t \in SUBSET Spans
          BY <2>1 DEF ApartSpans
        <4> QED
          BY <3>1, <4>1, IdleAddsUp
      <3> HIDE DEF Rows
      <3> QED
        BY <2>1, <3>3, <3>4, <3>5, <3>6, <3>7
    <2> QED
      BY <2>2, <2>3
  <1>6. T = {}
    <2>1. T \in SUBSET SUBSET spans
      OBVIOUS
    <2> HIDE DEF T
    <2> QED
      BY <1>2, <1>5, <2>1, SmallestSubset
  <1>7. Charged(Rows(spans)) = IdleOf(spans)
    BY <1>6
  <1> QED
    BY <1>1, <1>3, <1>7
-----------------------------------------------------------------------------
\* What a session is charged, and its stretches.

IsStretch(g) ==
  g \in [id : Users \X Days, from : Int, to : Int] /\ g.from < g.to
ApartRows(rows) == \A g, h \in rows : g = h \/ g.id # h.id \/ g.to <= h.from \/ h.to <= g.from
OfSession(rows, i) == {g \in rows : g.id = i}

\* The stretches of the days that have ended do not overlap.
StretchesInv ==
  /\ IsFiniteSet(stretches) /\ ApartRows(stretches)
  /\ \A g \in stretches : IsStretch(g) /\ g.id[2] < today /\ session[g.id] # NoRow

SessionFields == {"user", "in", "out", "idle"}
IsSession(q) == q = [f \in SessionFields |-> q[f]]
SessionsInv ==
  /\ session = [i \in SessionIds |-> session[i]]
  /\ \A i \in Users \X Days : session[i] # NoRow => IsSession(session[i])

\* A power cut has a beginning and, later, an end.
IsWindow(q) == q.kind = "POWER_CUT" => q.in \in Int /\ q.out \in Int /\ q.in < q.out
WindowsInv == \A r \in Requests : request[r] # NoRow => IsWindow(request[r])

\* A credit to be written: the stretches cut, what is left of each outside the window, and
\* what each session gets back, all it was charged for them and is not for what is left.
CutAt(x, from, to) ==
  /\ from < to /\ \A g \in x.cut : IsStretch(g) /\ g.from < to /\ from < g.to
  /\ x.kept = UNION {Pieces(g, from, to) : g \in x.cut}
CreditFits(x) ==
  /\ IsFiniteSet(x.cut) /\ \E from, to \in Int : CutAt(x, from, to)
  /\ x.credit = [i \in {g.id : g \in x.cut} |->
                   Charged(OfSession(x.cut, i)) - Charged(OfSession(x.kept, i))]
Crediting(x) ==
  /\ x.at = "insert" => IsWindow(x.x)
  /\ x.at = "claim" /\ x.approve /\ x.span = <<>> => request[x.r].kind = "POWER_CUT"
  /\ x.at = "credit" => request[x.r].kind = "POWER_CUT"
  /\ x.at = "uncharge" => CreditFits(x)
CreditsInv == \A c \in Calls : \A x : x = call[c] => Crediting(x)

\* The inductive invariant, beside that of EffectsHappenOnce and the shape of days.
IdleInv == StretchesInv /\ SessionsInv /\ WindowsInv /\ CreditsInv /\ IdleIsStretches

\* What is left of a stretch outside a window lies within it, on either side.
LEMMA PiecesFit ==
  ASSUME NEW g, IsStretch(g), NEW from \in Int, NEW to \in Int,
         from < to, g.from < to, from < g.to
  PROVE  /\ IsFiniteSet(Pieces(g, from, to)) /\ ApartRows(Pieces(g, from, to))
         /\ \A p \in Pieces(g, from, to) :
              IsStretch(p) /\ p.id = g.id /\ g.from <= p.from /\ p.to <= g.to
  <1>1. PICK i \in Users \X Days, a \in Int, b \in Int :
          g = [id |-> i, from |-> a, to |-> b] /\ a < b
    <2>1. /\ g = [id |-> g.id, from |-> g.from, to |-> g.to] /\ g.id \in Users \X Days
          /\ g.from \in Int /\ g.to \in Int /\ g.from < g.to
      BY DEF IsStretch
    <2>2. PICK i, a, b : i = g.id /\ a = g.from /\ b = g.to
      OBVIOUS
    <2>3. g = [id |-> i, from |-> a, to |-> b] /\ i \in Users \X Days /\ a \in Int /\ b \in Int /\ a < b
      BY <2>1, <2>2
    <2> QED
      BY <2>3
  <1>2. PICK m \in Int, n \in Int :
          /\ m = Max({a, from}) /\ m = IF a >= from THEN a ELSE from
          /\ n = Min({to, b}) /\ n = IF to <= b THEN to ELSE b
    <2>1. Max({a, from}) = IF a >= from THEN a ELSE from
      BY MaxMin
    <2>2. Min({to, b}) = IF to <= b THEN to ELSE b
      BY MaxMin
    <2> QED
      BY <2>1, <2>2
  <1> DEFINE left == [id |-> i, from |-> a, to |-> m]
             right == [id |-> i, from |-> n, to |-> b]
  <1>3. Pieces(g, from, to)
        = {p \in {left, right} : p.from < p.to /\ IdleOf({<<p.from, p.to>>}) > 0}
    BY <1>1, <1>2 DEF Pieces
  <1>4. Pieces(g, from, to) \in SUBSET {left, right}
    BY <1>3
  <1>5. IsFiniteSet(Pieces(g, from, to))
    <2>1. IsFiniteSet({left} \cup {right})
      BY FS_Singleton, FS_Union
    <2>2. {left} \cup {right} = {left, right}
      OBVIOUS
    <2> HIDE DEF left, right
    <2> QED
      BY <1>4, <2>1, <2>2, FS_Subset
  <1>6. /\ from < to /\ a < to /\ from < b /\ a < b
    BY <1>1
  <1>7. a <= m /\ m <= b /\ a <= n /\ n <= b /\ m <= n
    BY <1>2, <1>6
  <1>8. ASSUME NEW p \in Pieces(g, from, to)
        PROVE  IsStretch(p) /\ p.id = g.id /\ g.from <= p.from /\ p.to <= g.to
    <2>1. p \in {left, right} /\ p.from < p.to
      BY <1>3
    <2>2. g.id = i /\ g.from = a /\ g.to = b
      BY <1>1
    <2>3. p \in [id : Users \X Days, from : Int, to : Int]
      BY <2>1
    <2>4. p.id = i /\ a <= p.from /\ p.to <= b
      BY <1>7, <2>1
    <2> QED
      BY <2>1, <2>2, <2>3, <2>4 DEF IsStretch
  <1>9. ApartRows(Pieces(g, from, to))
    <2>1. left.to <= right.from
      BY <1>7
    <2> HIDE DEF left, right
    <2> QED
      BY <1>4, <2>1 DEF ApartRows
  <1> QED
    BY <1>5, <1>8, <1>9

Within(p, rows) == \E g \in rows : p.id = g.id /\ g.from <= p.from /\ p.to <= g.to

LEMMA KeptFits ==
  ASSUME NEW x, IsFiniteSet(x.cut), ApartRows(x.cut),
         NEW from \in Int, NEW to \in Int, CutAt(x, from, to)
  PROVE  /\ IsFiniteSet(x.kept) /\ ApartRows(x.kept)
         /\ \A p \in x.kept : IsStretch(p) /\ Within(p, x.cut)
  <1>1. PICK cut : cut = x.cut /\ IsFiniteSet(cut) /\ ApartRows(cut)
    OBVIOUS
  <1>2. /\ from < to /\ \A g \in cut : IsStretch(g) /\ g.from < to /\ from < g.to
        /\ x.kept = UNION {Pieces(g, from, to) : g \in cut}
    BY <1>1 DEF CutAt
  <1>3. ASSUME NEW g \in cut
        PROVE  /\ IsFiniteSet(Pieces(g, from, to)) /\ ApartRows(Pieces(g, from, to))
               /\ \A p \in Pieces(g, from, to) :
                    IsStretch(p) /\ p.id = g.id /\ g.from <= p.from /\ p.to <= g.to
    BY <1>2, PiecesFit
  <1>4. IsFiniteSet(x.kept)
    <2> DEFINE T == {Pieces(g, from, to) : g \in cut}
               f == [g \in cut |-> Pieces(g, from, to)]
    <2>1. f \in Surjection(cut, T)
      BY DEF Surjection
    <2>2. IsFiniteSet(T) /\ \A t \in T : IsFiniteSet(t)
      BY <1>1, <1>3, <2>1, FS_Surjection
    <2> HIDE DEF T
    <2>3. IsFiniteSet(UNION T)
      BY <2>2, FS_UNION
    <2> QED
      BY <1>2, <2>3 DEF T
  <1>5. ASSUME NEW p \in x.kept
        PROVE  IsStretch(p) /\ Within(p, x.cut)
    BY <1>1, <1>2, <1>3 DEF Within
  <1>6. ASSUME NEW p \in x.kept, NEW q \in x.kept
        PROVE  p = q \/ p.id # q.id \/ p.to <= q.from \/ q.to <= p.from
    <2>1. PICK g \in cut, h \in cut : p \in Pieces(g, from, to) /\ q \in Pieces(h, from, to)
      BY <1>2
    <2>2. CASE g = h
      BY <1>3, <2>1, <2>2 DEF ApartRows
    <2>3. CASE g # h
      <3>1. g.id # h.id \/ g.to <= h.from \/ h.to <= g.from
        BY <1>1, <2>3 DEF ApartRows
      <3>2. /\ p.id = g.id /\ g.from <= p.from /\ p.to <= g.to
            /\ q.id = h.id /\ h.from <= q.from /\ q.to <= h.to
            /\ IsStretch(g) /\ IsStretch(h) /\ IsStretch(p) /\ IsStretch(q)
        BY <1>2, <1>3, <2>1
      <3> QED
        BY <3>1, <3>2 DEF IsStretch
    <2> QED
      BY <2>2, <2>3
  <1> QED
    BY <1>4, <1>5, <1>6 DEF ApartRows

\* A transaction that replaces stretches by what is left of them.
LEMMA CutReplaced ==
  ASSUME NEW S, IsFiniteSet(S), ApartRows(S), \A g \in S : IsStretch(g),
         NEW cut \in SUBSET S, NEW kept, IsFiniteSet(kept), ApartRows(kept),
         \A p \in kept : IsStretch(p) /\ Within(p, cut)
  PROVE  /\ IsFiniteSet((S \ cut) \cup kept) /\ ApartRows((S \ cut) \cup kept)
         /\ \A i : Charged(OfSession((S \ cut) \cup kept, i))
                   = Charged(OfSession(S, i))
                     - (Charged(OfSession(cut, i)) - Charged(OfSession(kept, i)))
  <1>1. ASSUME NEW p \in kept, NEW g \in S \ cut
        PROVE  /\ p.id # g.id \/ p.to <= g.from \/ g.to <= p.from
               /\ p # g
    <2>1. PICK h \in cut : p.id = h.id /\ h.from <= p.from /\ p.to <= h.to
      BY DEF Within
    <2>2. g.id # h.id \/ g.to <= h.from \/ h.to <= g.from
      BY DEF ApartRows
    <2>3. IsStretch(g) /\ IsStretch(h) /\ IsStretch(p)
      OBVIOUS
    <2> QED
      BY <2>1, <2>2, <2>3 DEF IsStretch
  <1>2. ApartRows((S \ cut) \cup kept)
    BY <1>1 DEF ApartRows
  <1>3. IsFiniteSet(S \ cut) /\ IsFiniteSet(cut)
    BY FS_Subset
  <1>4. IsFiniteSet((S \ cut) \cup kept)
    BY <1>3, FS_Union
  <1>5. ASSUME NEW i
        PROVE  Charged(OfSession((S \ cut) \cup kept, i))
               = Charged(OfSession(S, i))
                 - (Charged(OfSession(cut, i)) - Charged(OfSession(kept, i)))
    <2> DEFINE s == OfSession(S, i)
               c == OfSession(cut, i)
               k == OfSession(kept, i)
    <2>1. IsFiniteSet(s) /\ IsFiniteSet(c) /\ IsFiniteSet(k) /\ IsFiniteSet(s \ c)
      BY <1>3, FS_Subset DEF OfSession
    <2>2. c \in SUBSET s /\ (s \ c) \cap k = {}
      BY <1>1 DEF OfSession
    <2>3. OfSession((S \ cut) \cup kept, i) = (s \ c) \cup k
      BY DEF OfSession
    <2> HIDE DEF s, c, k
    <2>4. Charged((s \ c) \cup k) = Charged(s \ c) + Charged(k)
      BY <2>1, <2>2, ChargedUnion
    <2>5. Charged(s) = Charged(s \ c) + Charged(c)
      BY <2>1, <2>2, ChargedSplit
    <2>6. PICK x \in Nat, y \in Nat, z \in Nat :
            x = Charged(s \ c) /\ y = Charged(c) /\ z = Charged(k)
      BY <2>1, ChargedIsNat
    <2>7. Charged((s \ c) \cup k) = Charged(s) - (Charged(c) - Charged(k))
      BY <2>4, <2>5, <2>6
    <2> QED
      BY <2>3, <2>7 DEF s, c, k
  <1> QED
    BY <1>2, <1>4, <1>5
\* A handler that goes on to something else than a request, a claim or what it grants.
Plain(x) == x.at \notin {"insert", "claim", "correct", "credit", "uncharge"}

LEMMA PlainCredits == \A x : Plain(x) => Crediting(x) /\ Crediting(x)'
  BY DEF Plain, Crediting

LEMMA IdleIsPlain == Plain(Idle)
  BY DEF Plain, Idle

LEMMA WorkIsPlain ==
  ASSUME NEW todo, NEW lates, NEW night, NEW known
  PROVE  Plain(Work(todo, lates, night, known))
  <1>1. Work(todo, lates, night, known).at \in {"idle", "work"}
    BY WorkIsHarmless
  <1> QED
    BY <1>1 DEF Plain

\* A request keeps what it was for.
KindsKept == \A r \in Requests : request[r] # NoRow => request'[r].kind = request[r].kind

LEMMA CreditsKept ==
  ASSUME OnceInv, CreditsInv, NEW c \in Calls, NEW next, Become(c, next), Crediting(next)', KindsKept
  PROVE  CreditsInv'
  <1>1. ASSUME NEW b \in Calls, NEW x, x = call[b]
        PROVE  Crediting(x)'
    <2>1. Crediting(x)
      BY <1>1 DEF CreditsInv
    <2>2. x.at \in {"claim", "credit"} => x.r \in Requests /\ request[x.r] # NoRow
      BY <1>1, NoRowIsNoRequest DEF OnceInv, CallsInv, Applying, Approved
    <2>3. x.at \in {"claim", "credit"} => request'[x.r].kind = request[x.r].kind
      BY <2>2 DEF KindsKept
    <2> QED
      BY <2>1, <2>3 DEF Crediting
  <1>2. \A b \in Calls : call'[b] = IF b = c THEN next ELSE call[b]
    BY DEF Become, OnceInv, CallsInv
  <1>3. ASSUME NEW b \in Calls, NEW x, x = call'[b]
        PROVE  Crediting(x)'
    BY <1>1, <1>2, <1>3
  <1> QED
    BY <1>3 DEF CreditsInv

\* What a request asks for is kept with it.
LEMMA InsertCredits ==
  ASSUME OnceInv, WindowsInv, CreditsInv, NEW c \in Calls, RequestInsert(c)
  PROVE  WindowsInv' /\ CreditsInv'
  <1>1. PICK x : x = call[c] /\ Crediting(x) /\ x.at = "insert"
    BY DEF CreditsInv, RequestInsert, Continue
  <1>2. PICK r \in Requests :
        /\ request[r] = NoRow
        /\ request' = [request EXCEPT ![r] =
             [user |-> x.user, day |-> x.x.day, kind |-> x.x.kind,
              in |-> x.x.in, out |-> x.x.out, status |-> "PENDING"]]
    BY <1>1 DEF RequestInsert
  <1>3. IsWindow(request'[r])
    BY <1>1, <1>2 DEF Crediting, IsWindow, OnceInv, RequestsInv
  <1>4. \A q \in Requests : q # r => request'[q] = request[q]
    BY <1>2 DEF OnceInv, RequestsInv
  <1>5. WindowsInv'
    BY <1>3, <1>4 DEF WindowsInv
  <1>6. KindsKept
    BY <1>2, <1>4 DEF KindsKept
  <1>7. Become(c, Idle)
    BY DEF RequestInsert, Continue
  <1> QED
    BY <1>5, <1>6, <1>7, CreditsKept, PlainCredits, IdleIsPlain

LEMMA ClaimCredits ==
  ASSUME OnceInv, WindowsInv, CreditsInv, NEW c \in Calls, DecideClaim(c)
  PROVE  WindowsInv' /\ CreditsInv'
  <1>1. PICK x : x = call[c] /\ Crediting(x) /\ x.at = "claim"
    BY DEF CreditsInv, DecideClaim
  <1>2. x.r \in Requests /\ IsRequest(request[x.r])
    BY <1>1 DEF OnceInv, CallsInv
  <1>3. UNCHANGED request \/ \E s : request' = [request EXCEPT ![x.r].status = s]
    BY <1>1 DEF DecideClaim, ClaimAlways, records
  <1>4. ASSUME NEW r \in Requests
        PROVE  /\ request'[r] = NoRow <=> request[r] = NoRow
               /\ request'[r].kind = request[r].kind
               /\ request'[r].in = request[r].in /\ request'[r].out = request[r].out
    <2>1. CASE UNCHANGED request
      BY <2>1
    <2>2. ASSUME NEW s, request' = [request EXCEPT ![x.r].status = s]
          PROVE  /\ request'[r] = NoRow <=> request[r] = NoRow
                 /\ request'[r].kind = request[r].kind
                 /\ request'[r].in = request[r].in /\ request'[r].out = request[r].out
      <3>1. CASE r # x.r
        BY <2>2, <3>1 DEF OnceInv, RequestsInv
      <3>2. CASE r = x.r
        <4>1. /\ IsRequest(request[r]) /\ IsRequest(request'[r])
              /\ \A f \in Fields : f # "status" => request'[r][f] = request[r][f]
          BY <1>2, <2>2, <3>2 DEF OnceInv, RequestsInv, IsRequest, Fields
        <4>2. request[r] # NoRow /\ request'[r] # NoRow
          BY <4>1, NoRowIsNoRequest
        <4> QED
          BY <4>1, <4>2 DEF Fields
      <3> QED
        BY <3>1, <3>2
    <2> QED
      BY <1>3, <2>1, <2>2
  <1>5. WindowsInv' /\ KindsKept
    BY <1>4 DEF WindowsInv, IsWindow, KindsKept
  <1>6. PICK next : Become(c, next) /\ Crediting(next)'
    <2>1. CASE Become(c, Idle)
      BY <2>1, PlainCredits, IdleIsPlain
    <2>2. CASE Become(c, AfterClaim(c))
      <3>1. PICK next : next = AfterClaim(c)
        OBVIOUS
      <3>2. Crediting(next)'
        BY <1>1, <1>2, <1>4, <3>1 DEF AfterClaim, Crediting, Idle
      <3> QED
        BY <2>2, <3>1, <3>2
    <2> QED
      BY <2>1, <2>2 DEF DecideClaim, ClaimAlways, Continue
  <1> QED
    BY <1>5, <1>6, CreditsKept

LEMMA LoadCredits ==
  ASSUME OnceInv, WindowsInv, CreditsInv, NEW c \in Calls,
         \/ \E u \in Users, x \in Corrections : RequestCheck(c, u, x)
         \/ \E r \in Requests, a \in Approvers, approve \in BOOLEAN : DecideLoad(c, r, a, approve)
  PROVE  WindowsInv' /\ CreditsInv'
  <1>1. UNCHANGED request
    BY DEF RequestCheck, DecideLoad, records
  <1>2. WindowsInv' /\ KindsKept
    BY <1>1 DEF WindowsInv, KindsKept
  <1>3. ASSUME NEW u \in Users, NEW x \in Corrections, RequestCheck(c, u, x)
        PROVE  \E next : Become(c, next) /\ Crediting(next)'
    <2>1. PICK next : next = [at |-> "insert", user |-> u, x |-> x] /\ Become(c, next)
      BY <1>3 DEF RequestCheck, Begin
    <2>2. x.in \in Int /\ x.out \in Int
      BY WorkdaysAssumption
    <2>3. IsWindow(x)
      BY <1>3, <2>2 DEF RequestCheck, WindowFitsDay, IsWindow
    <2>4. Crediting(next)'
      BY <2>1, <2>3 DEF Crediting
    <2> QED
      BY <2>1, <2>4
  <1>4. ASSUME NEW r \in Requests, NEW a \in Approvers, NEW approve \in BOOLEAN,
               DecideLoad(c, r, a, approve)
        PROVE  \E next : Become(c, next) /\ Crediting(next)'
    <2>1. PICK span \in IF approve /\ request[r].kind # "POWER_CUT" THEN Corrective(request[r])
                        ELSE {<<>>} :
            Become(c, [at |-> "claim", r |-> r, approve |-> approve, span |-> span])
      BY <1>4 DEF DecideLoad, Begin
    <2>2. \A q : \A s \in Corrective(q) : s # <<>>
      BY DEF Corrective
    <2>3. approve /\ span = <<>> => request'[r].kind = "POWER_CUT"
      BY <1>1, <2>1, <2>2
    <2>4. Crediting([at |-> "claim", r |-> r, approve |-> approve, span |-> span])'
      BY <2>3 DEF Crediting
    <2> QED
      BY <2>1, <2>4
  <1> QED
    BY <1>2, <1>3, <1>4, CreditsKept

-----------------------------------------------------------------------------
\* A credit is read: what it gives back is what the sessions were charged for the stretches cut.
LEMMA ReadCredits ==
  ASSUME OnceInv, IdleInv, NEW c \in Calls, CreditRead(c)
  PROVE  CreditsInv'
  <1>1. PICK x : x = call[c] /\ Crediting(x) /\ x.at = "credit"
    BY DEF IdleInv, CreditsInv, CreditRead, Continue
  <1>2. x.r \in Requests /\ request[x.r] # NoRow
    BY <1>1, NoRowIsNoRequest DEF OnceInv, CallsInv, Applying, Approved
  <1>3. PICK q : q = request[x.r] /\ q.in \in Int /\ q.out \in Int /\ q.in < q.out
    BY <1>1, <1>2 DEF Crediting, IdleInv, WindowsInv, IsWindow
  <1> DEFINE cut == {g \in stretches : /\ session[g.id].user = q.user
                                       /\ g.from < q.out /\ q.in < g.to
                                       /\ Charged({g}) > Charged(Pieces(g, q.in, q.out))}
             kept == UNION {Pieces(g, q.in, q.out) : g \in cut}
             Due(i) == Charged(OfSession(cut, i)) - Charged(OfSession(kept, i))
             credit == [i \in {g.id : g \in cut} |-> Min({session[i].idle, Due(i)})]
             next == [at |-> "uncharge", r |-> x.r, cut |-> cut, kept |-> kept, credit |-> credit]
  <1>4. Become(c, next) /\ UNCHANGED request
    BY <1>1, <1>3 DEF CreditRead, Continue, OfSession, records
  <1>5. CutAt(next, q.in, q.out)
    BY <1>3 DEF CutAt, IdleInv, StretchesInv
  <1>6. cut \in SUBSET stretches /\ IsFiniteSet(cut) /\ ApartRows(cut)
    <2>1. cut \in SUBSET stretches
      OBVIOUS
    <2> HIDE DEF cut
    <2> QED
      BY <2>1, FS_Subset DEF IdleInv, StretchesInv, ApartRows
  <1>7. IsFiniteSet(kept)
    <2>1. next.cut = cut /\ next.kept = kept
      OBVIOUS
    <2> HIDE DEF next, cut, kept
    <2> QED
      BY <1>3, <1>5, <1>6, <2>1, KeptFits
  <1>8. ASSUME NEW i \in {g.id : g \in cut}
        PROVE  Min({session[i].idle, Due(i)}) = Due(i)
    <2>1. i \in Users \X Days /\ session[i] # NoRow
      BY <1>6 DEF IdleInv, StretchesInv, IsStretch
    <2>2. session[i].idle = Charged(OfSession(stretches, i))
      BY <2>1 DEF IdleInv, IdleIsStretches, OfSession
    <2>3. IsFiniteSet(OfSession(stretches, i)) /\ IsFiniteSet(OfSession(kept, i))
          /\ OfSession(cut, i) \in SUBSET OfSession(stretches, i)
      <3> HIDE DEF cut, kept
      <3>1. OfSession(stretches, i) \in SUBSET stretches /\ OfSession(kept, i) \in SUBSET kept
            /\ OfSession(cut, i) \in SUBSET OfSession(stretches, i)
        BY <1>6 DEF OfSession
      <3> QED
        BY <1>7, <3>1, FS_Subset DEF IdleInv, StretchesInv
    <2> HIDE DEF cut, kept
    <2>4. Charged(OfSession(cut, i)) <= Charged(OfSession(stretches, i))
          /\ IsFiniteSet(OfSession(cut, i))
      BY <2>3, ChargedSplit, FS_Subset
    <2>5. PICK a \in Nat, b \in Nat, k \in Nat :
            /\ a = Charged(OfSession(stretches, i)) /\ b = Charged(OfSession(cut, i))
            /\ k = Charged(OfSession(kept, i))
      BY <2>3, <2>4, ChargedIsNat
    <2>6. PICK e \in Int : e = b - k
      OBVIOUS
    <2>7. Min({a, e}) = IF a <= e THEN a ELSE e
      BY MaxMin
    <2>8. e <= a
      BY <2>4, <2>5, <2>6
    <2>9. Min({a, e}) = e
      BY <2>7, <2>8
    <2> QED
      BY <2>2, <2>5, <2>6, <2>9
  <1>9. CreditFits(next)
    <2>1. next.cut = cut /\ next.kept = kept /\ next.credit = credit
      OBVIOUS
    <2>2. credit = [i \in {g.id : g \in cut} |-> Due(i)]
      BY <1>8
    <2> HIDE DEF next, cut, kept
    <2> QED
      BY <1>3, <1>5, <1>6, <2>1, <2>2 DEF CreditFits
  <1>10. PICK n : n = next
    OBVIOUS
  <1>11. n.at = "uncharge" /\ Become(c, n)
    BY <1>4, <1>10
  <1> HIDE DEF next
  <1>12. Crediting(n)'
    BY <1>9, <1>10, <1>11 DEF Crediting
  <1>13. KindsKept
    BY <1>4 DEF KindsKept
  <1> QED
    BY <1>11, <1>12, <1>13, CreditsKept DEF IdleInv

\* A credit is written: every session is charged what its stretches now add up to.
LEMMA WriteCredits ==
  ASSUME OnceInv, IdleInv, NEW c \in Calls, CreditWrite(c)
  PROVE  StretchesInv' /\ SessionsInv' /\ IdleIsStretches'
  <1>1. PICK x : x = call[c] /\ Crediting(x) /\ x.at = "uncharge"
    BY DEF IdleInv, CreditsInv, CreditWrite
  <1>2. UNCHANGED today
    BY DEF CreditWrite, UnchargeRows, Continue
  <1>3. CASE ~ (x.cut \subseteq stretches)
    <2>1. UNCHANGED <<session, stretches>>
      BY <1>1, <1>3 DEF CreditWrite
    <2> QED
      BY <1>2, <2>1 DEF IdleInv, StretchesInv, SessionsInv, IdleIsStretches
  <1>4. CASE x.cut \subseteq stretches
    <2>1. /\ stretches' = (stretches \ x.cut) \cup x.kept
          /\ session' = [i \in SessionIds |->
                           IF i \in DOMAIN x.credit
                           THEN [session[i] EXCEPT !.idle = @ - x.credit[i]] ELSE session[i]]
      BY <1>1, <1>4 DEF CreditWrite, UnchargeRows
    <2>2. CreditFits(x)
      BY <1>1 DEF Crediting
    <2>3. PICK from \in Int, to \in Int : CutAt(x, from, to)
      BY <2>2 DEF CreditFits
    <2>4. IsFiniteSet(x.cut) /\ ApartRows(x.cut)
      BY <1>4, <2>2 DEF CreditFits, IdleInv, StretchesInv, ApartRows
    <2>5. /\ IsFiniteSet(x.kept) /\ ApartRows(x.kept)
          /\ \A p \in x.kept : IsStretch(p) /\ Within(p, x.cut)
      BY <2>3, <2>4, KeptFits
    <2>6. /\ IsFiniteSet(stretches') /\ ApartRows(stretches')
          /\ \A i : Charged(OfSession(stretches', i))
                    = Charged(OfSession(stretches, i))
                      - (Charged(OfSession(x.cut, i)) - Charged(OfSession(x.kept, i)))
      <3>1. PICK S, cut, kept : S = stretches /\ cut = x.cut /\ kept = x.kept
        OBVIOUS
      <3>2. /\ IsFiniteSet(S) /\ ApartRows(S) /\ \A g \in S : IsStretch(g)
            /\ cut \in SUBSET S /\ IsFiniteSet(kept) /\ ApartRows(kept)
            /\ \A p \in kept : IsStretch(p) /\ Within(p, cut)
        BY <1>4, <2>5, <3>1 DEF IdleInv, StretchesInv
      <3>3. /\ IsFiniteSet((S \ cut) \cup kept) /\ ApartRows((S \ cut) \cup kept)
            /\ \A i : Charged(OfSession((S \ cut) \cup kept, i))
                      = Charged(OfSession(S, i))
                        - (Charged(OfSession(cut, i)) - Charged(OfSession(kept, i)))
        BY <3>2, CutReplaced
      <3>4. stretches' = (S \ cut) \cup kept
        BY <2>1, <3>1
      <3> QED
        BY <3>1, <3>3, <3>4, Zenon
    <2>7. ASSUME NEW i \in Users \X Days
          PROVE  /\ session'[i] = NoRow <=> session[i] = NoRow
                 /\ session[i] # NoRow =>
                      /\ IsSession(session'[i])
                      /\ session'[i].idle = session[i].idle - (Charged(OfSession(x.cut, i)) - Charged(OfSession(x.kept, i)))
      <3>1. i \in SessionIds
        BY DEF SessionIds
      <3>2. CASE i \in DOMAIN x.credit
        <4>1. x.credit[i] = Charged(OfSession(x.cut, i)) - Charged(OfSession(x.kept, i))
              /\ \E g \in x.cut : i = g.id
          BY <2>2, <3>2 DEF CreditFits
        <4>2. session[i] # NoRow
          BY <1>4, <4>1 DEF IdleInv, StretchesInv
        <4>3. IsSession(session[i])
          BY <4>2 DEF IdleInv, SessionsInv
        <4>4. session'[i] = [session[i] EXCEPT !.idle = session[i].idle - x.credit[i]]
          BY <2>1, <3>1, <3>2
        <4>5. IsSession(session'[i]) /\ session'[i].idle = session[i].idle - x.credit[i]
          BY <4>3, <4>4 DEF IsSession, SessionFields
        <4>6. \A q : IsSession(q) => q # NoRow
          BY DEF IsSession, SessionFields, NoRow
        <4> QED
          BY <4>1, <4>2, <4>5, <4>6
      <3>3. CASE i \notin DOMAIN x.credit
        <4>1. OfSession(x.cut, i) = {}
          BY <2>2, <3>3 DEF CreditFits, OfSession
        <4>2. OfSession(x.kept, i) = {}
          BY <2>5, <4>1 DEF OfSession, Within
        <4>3. Charged({}) = 0
          BY ChargedStep, FS_EmptySet
        <4>4. session'[i] = session[i]
          BY <2>1, <3>1, <3>3
        <4>5. session[i] # NoRow => session[i].idle \in Int
          <5>1. session[i] # NoRow => session[i].idle = Charged(OfSession(stretches, i))
            BY DEF IdleInv, IdleIsStretches, OfSession
          <5>2. IsFiniteSet(OfSession(stretches, i))
            <6>1. OfSession(stretches, i) \in SUBSET stretches
              BY DEF OfSession
            <6> QED
              BY <6>1, FS_Subset DEF IdleInv, StretchesInv
          <5>3. Charged(OfSession(stretches, i)) \in Int
            BY <5>2, ChargedStep
          <5> QED
            BY <5>1, <5>3
        <4>6. session[i] # NoRow => IsSession(session[i])
          BY DEF IdleInv, SessionsInv
        <4>7. ASSUME session[i] # NoRow
              PROVE  session[i].idle = session[i].idle - (Charged(OfSession(x.cut, i)) - Charged(OfSession(x.kept, i)))
          <5>1. PICK n \in Int : n = session[i].idle
            BY <4>5, <4>7
          <5>2. n = n - (0 - 0)
            BY <5>1
          <5> QED
            BY <4>1, <4>2, <4>3, <5>1, <5>2
        <4> QED
          BY <4>4, <4>6, <4>7
      <3> QED
        BY <3>2, <3>3
    <2>8. IdleIsStretches'
      <3>1. ASSUME NEW i \in Users \X Days, session'[i] # NoRow
            PROVE  session'[i].idle = Charged(OfSession(stretches', i))
        <4>1. session[i].idle = Charged(OfSession(stretches, i))
          BY <2>7, <3>1 DEF IdleInv, IdleIsStretches, OfSession
        <4> QED
          BY <2>6, <2>7, <3>1, <4>1
      <3> QED
        BY <3>1 DEF IdleIsStretches, OfSession
    <2>9. SessionsInv'
      BY <2>1, <2>7 DEF SessionsInv
    <2>10. StretchesInv'
      <3>1. ASSUME NEW g \in stretches'
            PROVE  IsStretch(g) /\ g.id[2] < today /\ session'[g.id] # NoRow
        <4>1. IsStretch(g) /\ \E h \in stretches : h.id = g.id
          BY <1>4, <2>1, <2>5, <3>1 DEF Within, IdleInv, StretchesInv
        <4>2. g.id \in Users \X Days /\ g.id[2] < today /\ session[g.id] # NoRow
          BY <4>1 DEF IsStretch, IdleInv, StretchesInv
        <4> QED
          BY <2>7, <4>1, <4>2
      <3> QED
        BY <1>2, <2>6, <3>1 DEF StretchesInv
    <2> QED
      BY <2>8, <2>9, <2>10
  <1> QED
    BY <1>3, <1>4
\* A corrective session is charged nothing and takes no session of a day.
LEMMA CorrectionCredits ==
  ASSUME OnceInv, IdleInv, NEW c \in Calls, CorrectiveInsert(c)
  PROVE  StretchesInv' /\ SessionsInv' /\ IdleIsStretches'
  <1>1. PICK r \in Requests : r = call[c].r
    BY DEF OnceInv, CallsInv, CorrectiveInsert, Continue, Applying
  <1>2. UNCHANGED <<stretches, today>>
    BY DEF CorrectiveInsert, Continue
  <1>3. \E q : session' = [session EXCEPT ![r] = q]
    BY <1>1 DEF CorrectiveInsert
  <1>4. r \notin Users \X Days
    BY WorkdaysAssumption DEF Days
  <1>5. \A i \in Users \X Days : session'[i] = session[i]
    BY <1>3, <1>4 DEF IdleInv, SessionsInv, SessionIds
  <1>6. SessionsInv'
    BY <1>3, <1>5 DEF IdleInv, SessionsInv
  <1>7. StretchesInv'
    BY <1>2, <1>5 DEF IdleInv, StretchesInv, IsStretch
  <1>8. IdleIsStretches'
    BY <1>2, <1>5 DEF IdleInv, IdleIsStretches
  <1> QED
    BY <1>6, <1>7, <1>8

\* The stretches a day that ends leaves of those who worked it.
NewRows(at, worked, d) ==
  UNION {{RowOf(<<u, d>>, d * TicksPerDay, s) : s \in worked[u].idle} : u \in at}

LEMMA NewRowsFit ==
  ASSUME NEW d \in 0 .. LastDay - 1, NEW worked \in [Users -> DayShapes[d]],
         NEW at \in SUBSET {u \in Users : worked[u] # NoRow}
  PROVE  /\ IsFiniteSet(NewRows(at, worked, d)) /\ ApartRows(NewRows(at, worked, d))
         /\ \A g \in NewRows(at, worked, d) : IsStretch(g) /\ \E u \in at : g.id = <<u, d>>
         /\ \A u \in at : Charged(OfSession(NewRows(at, worked, d), <<u, d>>)) = IdleOf(worked[u].idle)
  <1>1. d \in Nat /\ d \in Days
    BY WorkdaysAssumption DEF Days
  <1>2. PICK base \in Nat : base = d * TicksPerDay
    BY <1>1, SameTickOfDay
  <1>3. ASSUME NEW u \in at
        PROVE  /\ worked[u].idle \in SUBSET Spans /\ ApartSpans(worked[u].idle)
               /\ \A s \in worked[u].idle : base + s[2] <= LastTick + 1
    BY <1>2, ShapesAssumption DEF ApartSpans
  <1> DEFINE Of(u) == {RowOf(<<u, d>>, base, s) : s \in worked[u].idle}
             T == {Of(u) : u \in at}
  <1>4. NewRows(at, worked, d) = UNION T
    BY <1>2 DEF NewRows
  <1>5. ASSUME NEW u \in at
        PROVE  IsFiniteSet(Of(u)) /\ Charged(Of(u)) = IdleOf(worked[u].idle)
    <2>1. PICK spans, i : spans = worked[u].idle /\ i = <<u, d>>
      OBVIOUS
    <2>2. /\ spans \in SUBSET Spans /\ ApartSpans(spans)
          /\ \A s \in spans : d * TicksPerDay + s[2] <= LastTick + 1
      BY <1>2, <1>3, <2>1
    <2>3. /\ IsFiniteSet({RowOf(i, d * TicksPerDay, s) : s \in spans})
          /\ Charged({RowOf(i, d * TicksPerDay, s) : s \in spans}) = IdleOf(spans)
      BY <1>1, <2>2, ShapeCharge
    <2> QED
      BY <1>2, <2>1, <2>3
  <1>6. IsFiniteSet(UNION T)
    <2> DEFINE f == [u \in at |-> Of(u)]
    <2>1. f \in Surjection(at, T)
      <3> HIDE DEF Of
      <3> QED
        BY DEF Surjection
    <2>2. IsFiniteSet(at)
      <3>1. at \in SUBSET Users /\ IsFiniteSet(Users)
        BY WorkdaysAssumption
      <3> QED
        BY <3>1, FS_Subset
    <2>3. \A t \in T : IsFiniteSet(t)
      BY <1>5
    <2> HIDE DEF T, f
    <2>4. IsFiniteSet(T)
      BY <2>1, <2>2, FS_Surjection
    <2> QED
      BY <2>3, <2>4, FS_UNION
  <1>7. ASSUME NEW g \in UNION T
        PROVE  \E u \in at : \E s \in worked[u].idle : g = RowOf(<<u, d>>, base, s)
    OBVIOUS
  <1>8. ASSUME NEW u \in at, NEW s \in worked[u].idle, NEW g, g = RowOf(<<u, d>>, base, s)
        PROVE  /\ g = [id |-> <<u, d>>, from |-> base + s[1], to |-> base + s[2]]
               /\ s[1] \in Int /\ s[2] \in Int /\ s[1] < s[2]
               /\ IsStretch(g)
    <2>1. s[1] \in Int /\ s[2] \in Int /\ s[1] < s[2]
      BY <1>3, WorkdaysAssumption DEF Spans, Time
    <2>2. <<u, d>> \in Users \X Days
      BY <1>1
    <2> QED
      BY <1>8, <2>1, <2>2 DEF IsStretch, RowOf
  <1>9. ApartRows(UNION T)
    <2>1. ASSUME NEW g \in UNION T, NEW h \in UNION T
          PROVE  g = h \/ g.id # h.id \/ g.to <= h.from \/ h.to <= g.from
      <3>1. PICK u \in at : \E s \in worked[u].idle : g = RowOf(<<u, d>>, base, s)
        BY <1>7
      <3>2. PICK s \in worked[u].idle : g = RowOf(<<u, d>>, base, s)
        BY <3>1
      <3>3. PICK v \in at : \E z \in worked[v].idle : h = RowOf(<<v, d>>, base, z)
        BY <1>7
      <3>4. PICK z \in worked[v].idle : h = RowOf(<<v, d>>, base, z)
        BY <3>3
      <3>5. /\ g = [id |-> <<u, d>>, from |-> base + s[1], to |-> base + s[2]]
            /\ s[1] \in Int /\ s[2] \in Int
        BY <1>8, <3>2
      <3>6. /\ h = [id |-> <<v, d>>, from |-> base + z[1], to |-> base + z[2]]
            /\ z[1] \in Int /\ z[2] \in Int
        BY <1>8, <3>4
      <3>7. CASE u # v
        BY <3>5, <3>6, <3>7
      <3>8. CASE u = v
        <4>1. s = z \/ s[2] <= z[1] \/ z[2] <= s[1]
          BY <1>3, <3>8 DEF ApartSpans
        <4> QED
          BY <3>5, <3>6, <3>8, <4>1
      <3> QED
        BY <3>7, <3>8
    <2> HIDE DEF T
    <2> QED
      BY <2>1 DEF ApartRows
  <1>10. ASSUME NEW g \in UNION T
         PROVE  IsStretch(g) /\ \E u \in at : g.id = <<u, d>>
    <2>1. PICK u \in at : \E s \in worked[u].idle : g = RowOf(<<u, d>>, base, s)
      BY <1>7
    <2> QED
      BY <1>8, <2>1
  <1>11. ASSUME NEW u \in at
         PROVE  OfSession(UNION T, <<u, d>>) = Of(u)
    <2>1. ASSUME NEW g \in UNION T, g.id = <<u, d>>
          PROVE  g \in Of(u)
      <3>1. PICK v \in at : \E s \in worked[v].idle : g = RowOf(<<v, d>>, base, s)
        BY <1>7
      <3>2. v = u
        BY <1>8, <2>1, <3>1
      <3> QED
        BY <3>1, <3>2
    <2>2. ASSUME NEW g \in Of(u)
          PROVE  g \in UNION T /\ g.id = <<u, d>>
      <3>1. PICK s \in worked[u].idle : g = RowOf(<<u, d>>, base, s)
        OBVIOUS
      <3>2. g.id = <<u, d>>
        BY <3>1 DEF RowOf
      <3> QED
        BY <3>2
    <2> HIDE DEF T, Of
    <2> QED
      BY <2>1, <2>2 DEF OfSession
  <1> HIDE DEF T, Of
  <1> QED
    BY <1>4, <1>5, <1>6, <1>9, <1>10, <1>11

LEMMA NextDayCharges ==
  ASSUME IdleInv, DaysInv, NextDay
  PROVE  StretchesInv' /\ SessionsInv' /\ IdleIsStretches'
  <1>1. PICK d \in 0 .. LastDay - 1 : d = today /\ today' = d + 1
    BY WorkdaysAssumption DEF NextDay, DaysInv, Days
  <1>2. PICK worked \in [Users -> DayShapes[d]], at \in SUBSET Users :
          /\ at = {u \in Users : worked[u] # NoRow}
          /\ session' = [i \in SessionIds |->
               IF i \in at \X {d} THEN
                 [user |-> i[1], in |-> d * TicksPerDay + worked[i[1]].in,
                  out |-> d * TicksPerDay + worked[i[1]].out, idle |-> IdleOf(worked[i[1]].idle)]
               ELSE session[i]]
          /\ stretches' = stretches \cup
               UNION {{[id |-> <<u, d>>, from |-> d * TicksPerDay + s[1],
                        to |-> d * TicksPerDay + s[2]] : s \in worked[u].idle} : u \in at}
    <2>1. PICK worked \in [Users -> DayShapes[today]] :
            /\ session' = [i \in SessionIds |->
                 IF i \in {u \in Users : worked[u] # NoRow} \X {today}
                 THEN Worked(i[1], worked[i[1]]) ELSE session[i]]
            /\ stretches' = stretches \cup
                 UNION {{[id |-> <<u, today>>, from |-> today * TicksPerDay + s[1],
                          to |-> today * TicksPerDay + s[2]] : s \in worked[u].idle} :
                        u \in {u \in Users : worked[u] # NoRow}}
      BY Zenon DEF NextDay
    <2>2. PICK at \in SUBSET Users : at = {u \in Users : worked[u] # NoRow}
      OBVIOUS
    <2>3. today = d
      BY <1>1
    <2>4. /\ session' = [i \in SessionIds |->
               IF i \in at \X {d} THEN
                 [user |-> i[1], in |-> d * TicksPerDay + worked[i[1]].in,
                  out |-> d * TicksPerDay + worked[i[1]].out, idle |-> IdleOf(worked[i[1]].idle)]
               ELSE session[i]]
          /\ stretches' = stretches \cup
               UNION {{[id |-> <<u, d>>, from |-> d * TicksPerDay + s[1],
                        to |-> d * TicksPerDay + s[2]] : s \in worked[u].idle} : u \in at}
      BY <2>1, <2>2, <2>3 DEF Worked
    <2>5. worked \in [Users -> DayShapes[d]]
      BY <2>3
    <2> QED
      BY <2>2, <2>4, <2>5, Zenon
  <1>3. PICK new : new = NewRows(at, worked, d)
    OBVIOUS
  <1>4. stretches' = stretches \cup new
    BY <1>2, <1>3 DEF NewRows, RowOf
  <1>5. /\ IsFiniteSet(new) /\ ApartRows(new)
        /\ \A g \in new : IsStretch(g) /\ \E u \in at : g.id = <<u, d>>
        /\ \A u \in at : Charged(OfSession(new, <<u, d>>)) = IdleOf(worked[u].idle)
    BY <1>2, <1>3, NewRowsFit
  <1>6. ASSUME NEW g \in stretches
        PROVE  IsStretch(g) /\ g.id[2] < d /\ g.id[2] \in Int
    <2>1. IsStretch(g) /\ g.id[2] < d
      BY <1>1 DEF IdleInv, StretchesInv
    <2>2. g.id[2] \in Days
      BY <2>1 DEF IsStretch
    <2> QED
      BY <2>1, <2>2 DEF Days
  <1>7. \A g \in stretches : \A h \in new : g.id # h.id
    <2>1. \A h \in new : h.id[2] = d
      BY <1>5
    <2>2. ASSUME NEW g \in stretches, NEW h \in new, g.id = h.id
          PROVE  FALSE
      <3>1. g.id[2] < d /\ g.id[2] \in Int /\ g.id[2] = d
        BY <1>6, <2>1, <2>2
      <3> QED
        BY <3>1
    <2> QED
      BY <2>2
  <1>8. IsFiniteSet(stretches') /\ ApartRows(stretches')
    <2>1. IsFiniteSet(stretches) /\ ApartRows(stretches)
      BY DEF IdleInv, StretchesInv
    <2>2. IsFiniteSet(stretches \cup new)
      BY <1>5, <2>1, FS_Union
    <2>3. ApartRows(stretches \cup new)
      BY <1>5, <1>7, <2>1 DEF ApartRows
    <2> QED
      BY <1>4, <2>2, <2>3
  <1>9. ASSUME NEW i \in Users \X Days
        PROVE  /\ i \in at \X {d} => /\ IsSession(session'[i]) /\ session'[i] # NoRow
                                     /\ session'[i].idle = IdleOf(worked[i[1]].idle)
               /\ i \notin at \X {d} => session'[i] = session[i]
    <2>1. i \in SessionIds
      BY DEF SessionIds
    <2>2. CASE i \in at \X {d}
      <3>1. session'[i] =
              [user |-> i[1], in |-> d * TicksPerDay + worked[i[1]].in,
               out |-> d * TicksPerDay + worked[i[1]].out, idle |-> IdleOf(worked[i[1]].idle)]
        BY <1>2, <2>1, <2>2
      <3>2. IsSession(session'[i])
        BY <3>1 DEF IsSession, SessionFields
      <3>3. session'[i].idle = IdleOf(worked[i[1]].idle)
        BY <3>1
      <3>4. \A q : IsSession(q) => q # NoRow
        BY DEF IsSession, SessionFields, NoRow
      <3> QED
        BY <2>2, <3>2, <3>3, <3>4
    <2>3. CASE i \notin at \X {d}
      BY <1>2, <2>1, <2>3
    <2> QED
      BY <2>2, <2>3
  <1>10. StretchesInv'
    <2>1. ASSUME NEW g \in stretches'
          PROVE  IsStretch(g) /\ g.id[2] < today' /\ session'[g.id] # NoRow
      <3>1. CASE g \in stretches
        <4>1. IsStretch(g) /\ session[g.id] # NoRow /\ g.id \in Users \X Days
          BY <3>1 DEF IdleInv, StretchesInv, IsStretch
        <4>2. g.id[2] < d + 1
          BY <1>6, <3>1
        <4> QED
          BY <1>1, <1>9, <4>1, <4>2
      <3>2. CASE g \in new
        <4>1. IsStretch(g) /\ g.id \in Users \X Days /\ g.id \in at \X {d} /\ g.id[2] = d
          BY <1>5, <3>2 DEF IsStretch
        <4>2. g.id[2] < d + 1
          BY <4>1
        <4> QED
          BY <1>1, <1>9, <4>1, <4>2
      <3> QED
        BY <1>4, <3>1, <3>2
    <2> QED
      BY <1>8, <2>1 DEF StretchesInv, IsStretch
  <1>11. SessionsInv'
    BY <1>2, <1>9 DEF IdleInv, SessionsInv
  <1>12. IdleIsStretches'
    <2>1. ASSUME NEW i \in Users \X Days, session'[i] # NoRow
          PROVE  session'[i].idle = Charged(OfSession(stretches', i))
      <3>1. CASE i \in at \X {d}
        <4>1. PICK u \in at : i = <<u, d>>
          BY <3>1
        <4>2. OfSession(stretches', i) = OfSession(new, i)
          <5>1. \A g \in stretches : g.id # i
            BY <1>6, <4>1
          <5> QED
            BY <1>4, <5>1 DEF OfSession
        <4> QED
          BY <1>5, <1>9, <3>1, <4>1, <4>2
      <3>2. CASE i \notin at \X {d}
        <4>1. OfSession(stretches', i) = OfSession(stretches, i)
          <5>1. \A g \in new : g.id # i
            BY <1>5, <3>2
          <5> QED
            BY <1>4, <5>1 DEF OfSession
        <4>2. session'[i] = session[i]
          BY <1>9, <3>2
        <4> QED
          BY <2>1, <4>1, <4>2 DEF IdleInv, IdleIsStretches, OfSession
      <3> QED
        BY <3>1, <3>2
    <2> QED
      BY <2>1 DEF IdleIsStretches, OfSession
  <1> QED
    BY <1>10, <1>11, <1>12
-----------------------------------------------------------------------------
\* What the other steps of a handler leave alone.
LEMMA PlainSteps ==
  ASSUME OnceInv, NEW c \in Calls,
         \/ \E l \in Leaves : LeaveLoad(c, l)
         \/ \E d \in Days : Nightly(c, d)
         \/ \E m \in Months : ExportLoad(c, m)
         \/ LeaveClaim(c) \/ ReadDay(c) \/ WriteDay(c) \/ ReadLates(c) \/ WriteLates(c)
         \/ NightTally(c) \/ NightApply(c) \/ ExportRead(c) \/ ExportInsert(c)
  PROVE  /\ UNCHANGED <<session, stretches, request, today>>
         /\ \E next : Become(c, next) /\ Plain(next)
  <1>1. ASSUME NEW l, LeaveLoad(c, l)
        PROVE  /\ UNCHANGED <<session, stretches, request, today>>
               /\ \E next : Become(c, next) /\ Plain(next)
    <2>1. Become(c, [at |-> "grant", l |-> l]) /\ Plain([at |-> "grant", l |-> l])
      BY <1>1 DEF LeaveLoad, Begin, Plain
    <2> QED
      BY <1>1, <2>1 DEF LeaveLoad, Begin, records
  <1>2. ASSUME NEW d, Nightly(c, d)
        PROVE  /\ UNCHANGED <<session, stretches, request, today>>
               /\ \E next : Become(c, next) /\ Plain(next)
    <2>1. Become(c, Work(SetToSeq(Users \X {d}), {}, d, holidays \cap {d}))
      BY <1>2 DEF Nightly, Begin
    <2> QED
      BY <1>2, <2>1, WorkIsPlain DEF Nightly, Begin, records
  <1>3. ASSUME NEW m, ExportLoad(c, m)
        PROVE  /\ UNCHANGED <<session, stretches, request, today>>
               /\ \E next : Become(c, next) /\ Plain(next)
    <2>1. PICK locks : Become(c, [at |-> "figures", m |-> m, locks |-> locks])
      BY <1>3 DEF ExportLoad, Begin
    <2>2. Plain([at |-> "figures", m |-> m, locks |-> locks])
      BY DEF Plain
    <2> QED
      BY <1>3, <2>1, <2>2 DEF ExportLoad, Begin, records
  <1>4. CASE LeaveClaim(c)
    <2>1. \/ Become(c, Idle)
          \/ \E todo, lates : Become(c, Work(todo, lates, Open, {}))
      BY <1>4, Zenon DEF LeaveClaim, Continue
    <2> QED
      BY <1>4, <2>1, IdleIsPlain, WorkIsPlain DEF LeaveClaim, Continue
  <1>5. CASE ReadDay(c)
    <2>1. CASE Continue(c, "work", RestOfWork(c))
      BY <1>5, <2>1, WorkIsPlain DEF ReadDay, ReadMarks, Continue, RestOfWork, records
    <2>2. CASE ReadMarks(c)
      <3>1. PICK u, d, marks, rest :
              Become(c, [at |-> "mark", user |-> u, day |-> d, marks |-> marks, rest |-> rest])
        BY <2>2, Zenon DEF ReadMarks, Continue
      <3>2. Plain([at |-> "mark", user |-> u, day |-> d, marks |-> marks, rest |-> rest])
        BY DEF Plain
      <3> QED
        BY <2>2, <3>1, <3>2 DEF ReadMarks, Continue, records
    <2> QED
      BY <1>5, <2>1, <2>2 DEF ReadDay
  <1>6. CASE WriteDay(c) \/ WriteLates(c)
    <2>1. Become(c, call[c].rest) /\ call[c].at \in {"mark", "flip"}
      BY <1>6 DEF WriteDay, WriteLates, Continue
    <2>2. Plain(call[c].rest)
      BY <2>1 DEF OnceInv, CallsInv, Plain
    <2> QED
      BY <1>6, <2>1, <2>2 DEF WriteDay, WriteLates, Continue
  <1>7. CASE ReadLates(c)
    <2>1. PICK um : \E next :
            /\ Become(c, next)
            /\ LET rest == Work(<<>>, call[c].lates \ {um}, call[c].night, call[c].known)
               IN next = rest \/ \E flips : next = [at |-> "flip", rest |-> rest, flips |-> flips]
      BY <1>7, Zenon DEF ReadLates, Continue
    <2>2. PICK next :
            /\ Become(c, next)
            /\ LET rest == Work(<<>>, call[c].lates \ {um}, call[c].night, call[c].known)
               IN next = rest \/ \E flips : next = [at |-> "flip", rest |-> rest, flips |-> flips]
      BY <2>1
    <2>3. Plain(next)
      BY <2>2, WorkIsPlain DEF Plain
    <2> QED
      BY <1>7, <2>2, <2>3 DEF ReadLates, Continue, records
  <1>8. CASE NightTally(c)
    <2>1. PICK d, applies : Become(c, [at |-> "tally", day |-> d, applies |-> applies])
      BY <1>8, Zenon DEF NightTally, Continue
    <2>2. Plain([at |-> "tally", day |-> d, applies |-> applies])
      BY DEF Plain
    <2> QED
      BY <1>8, <2>1, <2>2 DEF NightTally, Continue, records
  <1>9. CASE ExportRead(c)
    <2>1. PICK m, locks, revision, figures :
            Become(c, [at |-> "export", m |-> m, locks |-> locks, revision |-> revision,
                       rows |-> figures])
      BY <1>9, Zenon DEF ExportRead, Continue
    <2>2. Plain([at |-> "export", m |-> m, locks |-> locks, revision |-> revision, rows |-> figures])
      BY DEF Plain
    <2> QED
      BY <1>9, <2>1, <2>2 DEF ExportRead, Continue, records
  <1>10. CASE NightApply(c) \/ ExportInsert(c)
    BY <1>10, IdleIsPlain DEF NightApply, ExportInsert, Continue
  <1> QED
    BY <1>1, <1>2, <1>3, <1>4, <1>5, <1>6, <1>7, <1>8, <1>9, <1>10

LEMMA SameCharges ==
  ASSUME IdleInv, UNCHANGED <<session, stretches, today>>
  PROVE  StretchesInv' /\ SessionsInv' /\ IdleIsStretches'
  BY DEF IdleInv, StretchesInv, SessionsInv, IdleIsStretches, IsStretch

LEMMA StepCharges ==
  ASSUME OnceInv, IdleInv, NEW c \in Calls, Step(c)
  PROVE  IdleInv'
  <1>1. ASSUME \/ \E l \in Leaves : LeaveLoad(c, l)
               \/ \E d \in Days : Nightly(c, d)
               \/ \E m \in Months : ExportLoad(c, m)
               \/ LeaveClaim(c) \/ ReadDay(c) \/ WriteDay(c) \/ ReadLates(c) \/ WriteLates(c)
               \/ NightTally(c) \/ NightApply(c) \/ ExportRead(c) \/ ExportInsert(c)
        PROVE  IdleInv'
    <2>1. UNCHANGED <<session, stretches, request, today>>
      BY <1>1, PlainSteps
    <2>2. PICK next : Become(c, next) /\ Plain(next)
      BY <1>1, PlainSteps
    <2>3. KindsKept /\ WindowsInv'
      BY <2>1 DEF KindsKept, IdleInv, WindowsInv
    <2>4. CreditsInv'
      BY <2>2, <2>3, PlainCredits, CreditsKept DEF IdleInv
    <2> QED
      BY <2>1, <2>3, <2>4, SameCharges DEF IdleInv
  <1>2. ASSUME \/ \E u \in Users, x \in Corrections : RequestCheck(c, u, x)
               \/ \E r \in Requests, a \in Approvers, approve \in BOOLEAN :
                    DecideLoad(c, r, a, approve)
        PROVE  IdleInv'
    <2>1. UNCHANGED <<session, stretches, today>>
      BY <1>2 DEF RequestCheck, DecideLoad, Begin, records
    <2>2. WindowsInv' /\ CreditsInv'
      BY <1>2, LoadCredits DEF IdleInv
    <2> QED
      BY <2>1, <2>2, SameCharges DEF IdleInv
  <1>3. CASE RequestInsert(c)
    <2>1. UNCHANGED <<session, stretches, today>>
      BY <1>3 DEF RequestInsert, Continue
    <2> QED
      BY <1>3, <2>1, SameCharges, InsertCredits DEF IdleInv
  <1>4. CASE DecideClaim(c)
    <2>1. UNCHANGED <<session, stretches, today>>
      BY <1>4 DEF DecideClaim, ClaimAlways, Continue, records
    <2> QED
      BY <1>4, <2>1, SameCharges, ClaimCredits DEF IdleInv
  <1>5. CASE CreditRead(c)
    <2>1. UNCHANGED <<session, stretches, today, request>>
      BY <1>5 DEF CreditRead, Continue, records
    <2>2. WindowsInv'
      BY <2>1 DEF IdleInv, WindowsInv
    <2> QED
      BY <1>5, <2>1, <2>2, SameCharges, ReadCredits DEF IdleInv
  <1>6. CASE CorrectiveInsert(c) \/ CreditWrite(c)
    <2>1. UNCHANGED request /\ Applying(call[c])
      BY <1>6 DEF CorrectiveInsert, CreditWrite, Continue, Applying
    <2>2. WindowsInv' /\ KindsKept
      BY <2>1 DEF IdleInv, WindowsInv, KindsKept
    <2>3. PICK next : Become(c, next) /\ Plain(next)
      <3>1. Become(c, Idle) \/ Become(c, DayOfRequest(call[c].r))
        BY <1>6 DEF CorrectiveInsert, CreditWrite, UnchargeRows, Continue
      <3> QED
        BY <3>1, IdleIsPlain, WorkIsPlain DEF DayOfRequest
    <2>4. CreditsInv'
      BY <2>2, <2>3, PlainCredits, CreditsKept DEF IdleInv
    <2> QED
      BY <1>6, <2>2, <2>4, CorrectionCredits, WriteCredits DEF IdleInv
  <1> QED
    BY <1>1, <1>2, <1>3, <1>4, <1>5, <1>6 DEF Step

LEMMA ChargedAtFirst == Init => IdleInv
  <1> SUFFICES ASSUME Init PROVE IdleInv
    OBVIOUS
  <1>1. stretches = {} /\ session = [i \in SessionIds |-> NoRow]
        /\ request = [r \in Requests |-> NoRow] /\ call = [c \in Calls |-> Idle]
    BY DEF Init
  <1>2. StretchesInv
    BY <1>1, FS_EmptySet DEF StretchesInv, ApartRows
  <1>3. \A i \in Users \X Days : session[i] = NoRow
    BY <1>1 DEF SessionIds
  <1>4. SessionsInv /\ IdleIsStretches
    BY <1>1, <1>3 DEF SessionsInv, IdleIsStretches
  <1>5. WindowsInv /\ CreditsInv
    BY <1>1, PlainCredits, IdleIsPlain DEF WindowsInv, CreditsInv
  <1> QED
    BY <1>2, <1>4, <1>5 DEF IdleInv

LEMMA ChargedStill == IdleInv /\ OnceInv /\ FrozenInv /\ [Next]_vars => IdleInv'
  <1> SUFFICES ASSUME IdleInv, OnceInv, FrozenInv, [Next]_vars PROVE IdleInv'
    OBVIOUS
  <1>1. ASSUME UNCHANGED <<request, call>>
        PROVE  WindowsInv' /\ CreditsInv'
    BY <1>1 DEF IdleInv, WindowsInv, CreditsInv, Crediting
  <1>2. CASE UNCHANGED vars
    <2>1. UNCHANGED <<session, stretches, today, request, call>>
      BY <1>2 DEF vars, records
    <2> QED
      BY <1>1, <2>1, SameCharges DEF IdleInv
  <1>3. CASE NextDay
    <2>1. UNCHANGED <<request, call>>
      BY <1>3 DEF NextDay
    <2> QED
      BY <1>1, <1>3, <2>1, NextDayCharges DEF IdleInv, FrozenInv, ShapeInv
  <1>4. CASE Restart
    <2>1. call' = [c \in Calls |-> Idle] /\ UNCHANGED <<session, stretches, today, request>>
      BY <1>4 DEF Restart, records
    <2>2. WindowsInv' /\ CreditsInv'
      BY <2>1, PlainCredits, IdleIsPlain DEF IdleInv, WindowsInv, CreditsInv
    <2> QED
      BY <2>1, <2>2, SameCharges DEF IdleInv
  <1>5. CASE \/ \E h \in HolidayDays : AddHoliday(h)
             \/ \E m \in Months : Lock(m) \/ Unlock(m)
    <2>1. UNCHANGED <<session, stretches, today, request, call>>
      BY <1>5 DEF AddHoliday, Lock, Unlock
    <2> QED
      BY <1>1, <2>1, SameCharges DEF IdleInv
  <1>6. ASSUME NEW c \in Calls, Step(c) PROVE IdleInv'
    BY <1>6, StepCharges
  <1> QED
    BY <1>2, <1>3, <1>4, <1>5, <1>6 DEF Next

\* removeIdleInWindow: however the credits of power cuts race, die or are repeated, a session is
\* charged as idle exactly what its remaining stretches add up to, so no outage is credited twice.
THEOREM OutagesCreditedOnce == Spec => []IdleIsStretches
  <1>1. IdleInv => IdleIsStretches
    BY DEF IdleInv
  <1> QED
    BY <1>1, OnceInitially, OnceStep, FrozenInitially, FrozenStep, ChargedAtFirst, ChargedStill, PTL
    DEF Spec
-----------------------------------------------------------------------------
\* mergeOverlapping.

IsSpans(S) == IsFiniteSet(S) /\ \A z \in S : z \in Int \X Int /\ z[1] < z[2]

LEMMA LatestIsLast ==
  ASSUME NEW S, IsSpans(S), S # {}
  PROVE  Latest(S) \in S /\ \A z \in S : z[1] <= Latest(S)[1]
  <1> DEFINE T == {s \in SUBSET S : s # {} /\ ~ \E x \in s : \A z \in s : z[1] <= x[1]}
  <1>1. \A z \in S : z[1] \in Int
    BY DEF IsSpans
  <1>2. ASSUME NEW s \in T, \A x \in s : s \ {x} \notin T
        PROVE  FALSE
    <2>1. PICK x \in s : TRUE
      OBVIOUS
    <2>2. CASE s \ {x} = {}
      <3>1. s = {x}
        BY <2>1, <2>2
      <3> QED
        BY <1>1, <2>1, <3>1
    <2>3. CASE s \ {x} # {}
      <3>1. PICK y \in s \ {x} : \A z \in s \ {x} : z[1] <= y[1]
        BY <1>2, <2>3
      <3>2. x[1] \in Int /\ y[1] \in Int /\ \A z \in s : z[1] \in Int
        BY <1>1
      <3>3. CASE x[1] <= y[1]
        BY <3>1, <3>3
      <3>4. CASE y[1] <= x[1]
        <4>1. \A z \in s : z[1] <= x[1]
          BY <3>1, <3>2, <3>4
        <4> QED
          BY <4>1
      <3> QED
        BY <3>2, <3>3, <3>4
    <2> QED
      BY <2>2, <2>3
  <1>3. T = {}
    <2>1. T \in SUBSET SUBSET S /\ IsFiniteSet(S)
      BY DEF IsSpans
    <2> HIDE DEF T
    <2> QED
      BY <1>2, <2>1, SmallestSubset
  <1>4. \E x \in S : \A z \in S : z[1] <= x[1]
    BY <1>3
  <1> QED
    BY <1>4 DEF Latest

\* The fold over the spans, the earliest first.
MergeOf(S) ==
  MapThenFoldSet(LAMBDA s, merged : Extend(merged, s), <<>>, LAMBDA s : s, Latest, S)
Folds(i, S) ==
  i = [s \in SUBSET S |-> IF s = {} THEN <<>> ELSE Extend(i[s \ {Latest(s)}], Latest(s))]

LEMMA FoldsRestrict ==
  ASSUME NEW S, NEW i, Folds(i, S), NEW t \in SUBSET S
  PROVE  Folds([s \in SUBSET t |-> i[s]], t)
  <1>1. \A s \in SUBSET t :
          i[s] = IF s = {} THEN <<>> ELSE Extend(i[s \ {Latest(s)}], Latest(s))
    BY DEF Folds
  <1>2. \A s \in SUBSET t : s \ {Latest(s)} \in SUBSET t
    OBVIOUS
  <1> QED
    BY <1>1, <1>2 DEF Folds

LEMMA FoldsAgree ==
  ASSUME NEW S, IsSpans(S), NEW i, Folds(i, S), NEW R, NEW j, Folds(j, R), S \subseteq R
  PROVE  \A s \in SUBSET S : i[s] = j[s]
  <1> DEFINE T == {s \in SUBSET S : i[s] # j[s]}
  <1>1. ASSUME NEW s \in T, \A x \in s : s \ {x} \notin T
        PROVE  FALSE
    <2>1. /\ i[s] = IF s = {} THEN <<>> ELSE Extend(i[s \ {Latest(s)}], Latest(s))
          /\ j[s] = IF s = {} THEN <<>> ELSE Extend(j[s \ {Latest(s)}], Latest(s))
      BY DEF Folds
    <2>2. CASE s # {}
      <3>1. IsSpans(s)
        BY FS_Subset DEF IsSpans
      <3>2. Latest(s) \in s
        BY <2>2, <3>1, LatestIsLast
      <3>3. i[s \ {Latest(s)}] = j[s \ {Latest(s)}]
        BY <1>1, <3>2
      <3> QED
        BY <2>1, <2>2, <3>3
    <2> QED
      BY <2>1, <2>2
  <1>2. T = {}
    <2>1. T \in SUBSET SUBSET S /\ IsFiniteSet(S)
      BY DEF IsSpans
    <2> HIDE DEF T
    <2> QED
      BY <1>1, <2>1, SmallestSubset
  <1> QED
    BY <1>2

LEMMA FoldsExist ==
  ASSUME NEW S, IsSpans(S)
  PROVE  \E i : Folds(i, S)
  <1> DEFINE T == {s \in SUBSET S : ~ \E i : Folds(i, s)}
             V(t) == (CHOOSE i : Folds(i, t))[t]
  <1>1. ASSUME NEW s \in T, \A x \in s : s \ {x} \notin T
        PROVE  FALSE
    <2>1. CASE s = {}
      <3>1. Folds([t \in SUBSET s |-> <<>>], s)
        BY <2>1 DEF Folds
      <3> QED
        BY <3>1
    <2>2. CASE s # {}
      <3>1. IsSpans(s) /\ \A t \in SUBSET s : IsSpans(t)
        BY FS_Subset DEF IsSpans
      <3>2. ASSUME NEW t \in SUBSET s, t # s
            PROVE  \E i : Folds(i, t)
        <4>1. PICK x \in s : t \in SUBSET (s \ {x})
          BY <3>2
        <4>2. PICK i : Folds(i, s \ {x})
          BY <1>1, <4>1
        <4> QED
          BY <4>1, <4>2, FoldsRestrict
      <3>3. ASSUME NEW t \in SUBSET s, t # s, NEW i, Folds(i, t)
            PROVE  i[t] = V(t)
        <4>1. Folds(CHOOSE j : Folds(j, t), t)
          BY <3>3
        <4> QED
          BY <3>1, <3>3, <4>1, FoldsAgree
      <3>4. ASSUME NEW t \in SUBSET s, t # s
            PROVE  V(t) = IF t = {} THEN <<>> ELSE Extend(V(t \ {Latest(t)}), Latest(t))
        <4>1. PICK i : Folds(i, t)
          BY <3>2, <3>4
        <4>2. V(t) = i[t]
          BY <3>3, <3>4, <4>1
        <4>3. i[t] = IF t = {} THEN <<>> ELSE Extend(i[t \ {Latest(t)}], Latest(t))
          BY <4>1 DEF Folds
        <4>4. CASE t # {}
          <5>1. PICK r : r = t \ {Latest(t)}
            OBVIOUS
          <5>2. r \in SUBSET t /\ r \in SUBSET s /\ r # s
            BY <3>4, <5>1
          <5>3. Folds([q \in SUBSET r |-> i[q]], r)
            BY <4>1, <5>2, FoldsRestrict
          <5>4. V(r) = i[r]
            <6>1. r \in SUBSET r
              OBVIOUS
            <6> HIDE DEF V
            <6> QED
              BY <3>3, <5>2, <5>3, <6>1
          <5> HIDE DEF V
          <5> QED
            BY <4>2, <4>3, <4>4, <5>1, <5>4
        <4> QED
          BY <4>2, <4>3, <4>4
      <3> DEFINE W(t) == IF t = s THEN Extend(V(s \ {Latest(s)}), Latest(s)) ELSE V(t)
                 g == [t \in SUBSET s |-> W(t)]
      <3>5. Latest(s) \in s
        BY <2>2, <3>1, LatestIsLast
      <3>6. ASSUME NEW t \in SUBSET s
            PROVE  W(t) = IF t = {} THEN <<>> ELSE Extend(g[t \ {Latest(t)}], Latest(t))
        <4>1. t \ {Latest(t)} \in SUBSET s /\ t \ {Latest(t)} # s
          BY <3>5
        <4>2. g[t \ {Latest(t)}] = V(t \ {Latest(t)})
          <5> HIDE DEF V
          <5> QED
            BY <4>1
        <4> HIDE DEF V, g
        <4> QED
          BY <2>2, <3>4, <4>2
      <3> HIDE DEF W
      <3>7. Folds(g, s)
        BY <3>6 DEF Folds
      <3> QED
        BY <3>7
    <2> QED
      BY <2>1, <2>2
  <1> HIDE DEF V
  <1>2. T = {}
    <2>1. T \in SUBSET SUBSET S /\ IsFiniteSet(S)
      BY DEF IsSpans
    <2> HIDE DEF T
    <2> QED
      BY <1>1, <2>1, SmallestSubset
  <1> QED
    BY <1>2

LEMMA MergeIsFold ==
  ASSUME NEW S, IsSpans(S)
  PROVE  \E i : Folds(i, S) /\ MergeOf(S) = i[S]
  <1> DEFINE i == CHOOSE i : i = [s \in SUBSET S |->
                    IF s = {} THEN <<>> ELSE Extend(i[s \ {Latest(s)}], Latest(s))]
  <1>1. MergeOf(S) = i[S]
    BY DEF MergeOf, MapThenFoldSet
  <1>2. Folds(i, S)
    <2>1. PICK g : Folds(g, S)
      BY FoldsExist
    <2>2. \A j : Folds(j, S) <=>
            j = [s \in SUBSET S |-> IF s = {} THEN <<>> ELSE Extend(j[s \ {Latest(s)}], Latest(s))]
      BY DEF Folds
    <2> QED
      BY <2>1, <2>2
  <1> HIDE DEF i
  <1> QED
    BY <1>1, <1>2
\* What merging makes of spans: stretches apart from each other, each beginning with one of the
\* spans, that cover the same instants.
Covers(s, t) == s[1] <= t /\ t < s[2]
Merges(q, S) ==
  /\ q \in Seq(Int \X Int)
  /\ \A k \in 1 .. Len(q) : q[k][1] < q[k][2] /\ \E z \in S : q[k][1] = z[1]
  /\ \A k, l \in 1 .. Len(q) : k < l => q[k][2] < q[l][1]
  /\ \A t \in Int : (\E k \in 1 .. Len(q) : Covers(q[k], t)) <=> \E z \in S : Covers(z, t)

LEMMA AppendMerges ==
  ASSUME NEW S, NEW q, Merges(q, S), NEW m \in Int \X Int, m[1] < m[2],
         q # <<>> => q[Len(q)][2] < m[1]
  PROVE  Merges(Append(q, m), S \cup {m})
  <1>1. q \in Seq(Int \X Int)
    BY DEF Merges
  <1>a. PICK n \in Nat : n = Len(q)
    BY <1>1
  <1>b. PICK r : r = Append(q, m)
    OBVIOUS
  <1>2. n \in Nat /\ n = Len(q) /\ r = Append(q, m)
    BY <1>a, <1>b
  <1>3. /\ r \in Seq(Int \X Int) /\ Len(r) = n + 1 /\ r[n + 1] = m
        /\ \A k \in 1 .. n : r[k] = q[k] /\ q[k] \in Int \X Int
    BY <1>1, <1>2
  <1>4. \A k \in 1 .. n + 1 : k \in 1 .. n \/ k = n + 1
    BY <1>2
  <1>5. ASSUME NEW k \in 1 .. n
        PROVE  q[k][2] < m[1]
    <2>1. n \in 1 .. n /\ q # <<>> /\ q[n][1] < q[n][2] /\ q[n] \in Int \X Int
      BY <1>1, <1>2, <1>3 DEF Merges
    <2>2. q[n][2] < m[1]
      BY <1>2, <2>1
    <2>3. CASE k = n
      BY <2>2, <2>3
    <2>4. CASE k # n
      <3>1. k < n
        BY <1>2, <2>4
      <3>2. q[k][2] < q[n][1]
        BY <1>2, <2>1, <3>1 DEF Merges
      <3> QED
        BY <1>3, <2>1, <2>2, <3>2
    <2> QED
      BY <2>3, <2>4
  <1>6. ASSUME NEW k \in 1 .. n + 1
        PROVE  r[k][1] < r[k][2] /\ \E z \in S \cup {m} : r[k][1] = z[1]
    <2>1. CASE k \in 1 .. n
      BY <1>2, <1>3, <2>1 DEF Merges
    <2>2. CASE k = n + 1
      BY <1>3, <2>2
    <2> QED
      BY <1>4, <2>1, <2>2
  <1>7. ASSUME NEW k \in 1 .. n + 1, NEW l \in 1 .. n + 1, k < l
        PROVE  r[k][2] < r[l][1]
    <2>1. k \in 1 .. n
      BY <1>2, <1>7
    <2>2. CASE l \in 1 .. n
      BY <1>2, <1>3, <1>7, <2>1, <2>2 DEF Merges
    <2>3. CASE l = n + 1
      BY <1>3, <1>5, <2>1, <2>3
    <2> QED
      BY <1>4, <2>2, <2>3
  <1>8. ASSUME NEW t \in Int
        PROVE  (\E k \in 1 .. n + 1 : Covers(r[k], t)) <=> \E z \in S \cup {m} : Covers(z, t)
    <2>1. (\E k \in 1 .. n : Covers(q[k], t)) <=> \E z \in S : Covers(z, t)
      BY <1>2 DEF Merges
    <2>2. ASSUME NEW k \in 1 .. n + 1, Covers(r[k], t)
          PROVE  (\E l \in 1 .. n : Covers(q[l], t)) \/ Covers(m, t)
      <3>1. k = n + 1 => r[k] = m
        BY <1>3
      <3>2. k \in 1 .. n => r[k] = q[k]
        BY <1>3
      <3> QED
        BY <1>4, <2>2, <3>1, <3>2
    <2>3. ASSUME NEW l \in 1 .. n, Covers(q[l], t)
          PROVE  \E k \in 1 .. n + 1 : Covers(r[k], t)
      <3>1. l \in 1 .. n + 1 /\ r[l] = q[l]
        BY <1>2, <1>3
      <3> QED
        BY <2>3, <3>1
    <2>4. n + 1 \in 1 .. n + 1 /\ r[n + 1] = m
      BY <1>2, <1>3
    <2> QED
      BY <2>1, <2>2, <2>3, <2>4
  <1>9. Merges(r, S \cup {m})
    BY <1>3, <1>6, <1>7, <1>8 DEF Merges
  <1> QED
    BY <1>2, <1>9

LEMMA WidenMerges ==
  ASSUME NEW S, NEW q, Merges(q, S), NEW m \in Int \X Int, m[1] < m[2],
         \A z \in S : z \in Int \X Int /\ z[1] <= m[1],
         q # <<>>, m[1] <= q[Len(q)][2],
         NEW e \in Int, e = IF q[Len(q)][2] >= m[2] THEN q[Len(q)][2] ELSE m[2]
  PROVE  Merges([q EXCEPT ![Len(q)][2] = e], S \cup {m})
  <1>1. q \in Seq(Int \X Int)
    BY DEF Merges
  <1>a. PICK n \in Nat : n = Len(q) /\ n >= 1
    BY <1>1
  <1>b. PICK r : r = [q EXCEPT ![Len(q)][2] = e]
    OBVIOUS
  <1>2. n \in Nat /\ n = Len(q) /\ n >= 1 /\ r = [q EXCEPT ![n][2] = e]
    BY <1>a, <1>b
  <1>3. PICK a \in Int, b \in Int : q[n] = <<a, b>>
    BY <1>1, <1>2
  <1>4. a < b /\ a <= m[1] /\ m[1] <= b /\ e = IF b >= m[2] THEN b ELSE m[2]
    <2>1. n \in 1 .. n
      BY <1>2
    <2>2. q[n][1] < q[n][2] /\ \E z \in S : q[n][1] = z[1]
      BY <1>2, <2>1 DEF Merges
    <2> QED
      BY <1>2, <1>3, <2>2
  <1>5. /\ r \in Seq(Int \X Int) /\ Len(r) = n /\ r[n] = <<a, e>>
        /\ \A k \in 1 .. n : k # n => r[k] = q[k]
        /\ \A k \in 1 .. n : q[k] \in Int \X Int
    <2>1. DOMAIN q = 1 .. n /\ \A k \in 1 .. n : q[k] \in Int \X Int
      BY <1>1, <1>2
    <2>2. r = [k \in 1 .. n |-> IF k = n THEN <<a, e>> ELSE q[k]]
      <3>1. r = [q EXCEPT ![n] = [q[n] EXCEPT ![2] = e]]
        BY <1>2
      <3>2. [q[n] EXCEPT ![2] = e] = <<a, e>>
        BY <1>3
      <3> QED
        BY <2>1, <3>1, <3>2
    <2>3. r = [q EXCEPT ![n] = <<a, e>>] /\ <<a, e>> \in Int \X Int
      BY <2>1, <2>2
    <2>4. r \in Seq(Int \X Int) /\ Len(r) = n
      <3>1. PICK X : X = Int \X Int
        OBVIOUS
      <3>2. PICK v : v = <<a, e>>
        OBVIOUS
      <3>3. q \in Seq(X) /\ n \in 1 .. Len(q) /\ v \in X
        BY <1>1, <1>2, <2>3, <3>1, <3>2
      <3>4. [q EXCEPT ![n] = v] \in Seq(X) /\ Len([q EXCEPT ![n] = v]) = Len(q)
        BY <3>3, ExceptSeq
      <3>5. r = [q EXCEPT ![n] = v] /\ n = Len(q)
        BY <1>2, <2>3, <3>2
      <3> QED
        BY <3>1, <3>4, <3>5
    <2> QED
      BY <1>2, <2>1, <2>2, <2>4
  <1>6. ASSUME NEW k \in 1 .. n
        PROVE  r[k][1] = q[k][1] /\ r[k][1] < r[k][2] /\ \E z \in S \cup {m} : r[k][1] = z[1]
    <2>1. q[k][1] < q[k][2] /\ \E z \in S : q[k][1] = z[1]
      BY <1>2 DEF Merges
    <2>2. CASE k = n
      BY <1>3, <1>4, <1>5, <2>1, <2>2
    <2>3. CASE k # n
      BY <1>5, <2>1, <2>3
    <2> QED
      BY <2>2, <2>3
  <1>7. ASSUME NEW k \in 1 .. n, NEW l \in 1 .. n, k < l
        PROVE  r[k][2] < r[l][1]
    <2>1. k # n
      BY <1>2, <1>7
    <2>2. q[k][2] < q[l][1]
      BY <1>2, <1>7 DEF Merges
    <2> QED
      BY <1>5, <1>6, <2>1, <2>2
  <1>8. ASSUME NEW t \in Int
        PROVE  (\E k \in 1 .. n : Covers(r[k], t)) <=> \E z \in S \cup {m} : Covers(z, t)
    <2>1. (\E k \in 1 .. n : Covers(q[k], t)) <=> \E z \in S : Covers(z, t)
      BY <1>2 DEF Merges
    <2>2. Covers(r[n], t) <=> Covers(q[n], t) \/ Covers(m, t)
      <3>1. PICK c \in Int, d \in Int : m = <<c, d>>
        OBVIOUS
      <3>2. Covers(r[n], t) <=> a <= t /\ t < e
        BY <1>5 DEF Covers
      <3>3. Covers(q[n], t) <=> a <= t /\ t < b
        BY <1>3 DEF Covers
      <3>4. Covers(m, t) <=> c <= t /\ t < d
        BY <3>1 DEF Covers
      <3>5. a <= c /\ c <= b /\ e = IF b >= d THEN b ELSE d
        BY <1>4, <3>1
      <3> QED
        BY <3>2, <3>3, <3>4, <3>5
    <2>3. \A k \in 1 .. n : k # n => (Covers(r[k], t) <=> Covers(q[k], t))
      BY <1>5
    <2>4. n \in 1 .. n
      BY <1>2
    <2>5. (\E k \in 1 .. n : Covers(r[k], t)) <=> (\E k \in 1 .. n : Covers(q[k], t)) \/ Covers(m, t)
      BY <2>2, <2>3, <2>4
    <2> QED
      BY <2>1, <2>5
  <1>9. Merges(r, S \cup {m})
    BY <1>5, <1>6, <1>7, <1>8 DEF Merges
  <1> QED
    BY <1>2, <1>9

LEMMA ExtendMerges ==
  ASSUME NEW S, NEW q, Merges(q, S), NEW m \in Int \X Int, m[1] < m[2],
         \A z \in S : z \in Int \X Int /\ z[1] <= m[1]
  PROVE  Merges(Extend(q, m), S \cup {m})
  <1>1. q \in Seq(Int \X Int)
    BY DEF Merges
  <1>2. q # <<>> => Len(q) \in DOMAIN q /\ q[Len(q)] \in Int \X Int /\ Last(q) = q[Len(q)]
    BY <1>1 DEF Last
  <1>3. CASE q # <<>> /\ m[1] <= q[Len(q)][2]
    <2>1. PICK b \in Int, d \in Int : b = q[Len(q)][2] /\ d = m[2]
      BY <1>2, <1>3
    <2>2. PICK e \in Int : e = Max({b, d}) /\ e = IF b >= d THEN b ELSE d
      BY MaxMin
    <2>3. Extend(q, m) = [q EXCEPT ![Len(q)][2] = e]
      BY <1>2, <1>3, <2>1, <2>2 DEF Extend
    <2>4. e = IF q[Len(q)][2] >= m[2] THEN q[Len(q)][2] ELSE m[2]
      BY <2>1, <2>2
    <2>5. Merges([q EXCEPT ![Len(q)][2] = e], S \cup {m})
      BY <1>3, <2>2, <2>4, WidenMerges
    <2> QED
      BY <2>3, <2>5
  <1>4. CASE q = <<>> \/ ~ (m[1] <= q[Len(q)][2])
    <2>1. Extend(q, m) = Append(q, m)
      BY <1>2, <1>4 DEF Extend
    <2>2. q # <<>> => q[Len(q)][2] < m[1]
      BY <1>2, <1>4
    <2> QED
      BY <2>1, <2>2, AppendMerges
  <1> QED
    BY <1>3, <1>4

LEMMA MergeCovers ==
  ASSUME NEW S, IsSpans(S)
  PROVE  Merges(MergeOf(S), S)
  <1>1. PICK i : Folds(i, S) /\ MergeOf(S) = i[S]
    BY MergeIsFold
  <1> DEFINE T == {s \in SUBSET S : ~ Merges(i[s], s)}
  <1>2. ASSUME NEW s \in T, \A x \in s : s \ {x} \notin T
        PROVE  FALSE
    <2>1. i[s] = IF s = {} THEN <<>> ELSE Extend(i[s \ {Latest(s)}], Latest(s))
      BY <1>1 DEF Folds
    <2>2. CASE s = {}
      <3>1. Merges(<<>>, {})
        BY DEF Merges
      <3> QED
        BY <2>1, <2>2, <3>1
    <2>3. CASE s # {}
      <3>1. IsSpans(s)
        BY FS_Subset DEF IsSpans
      <3>2. PICK m \in s : m = Latest(s) /\ \A z \in s : z[1] <= m[1]
        BY <2>3, <3>1, LatestIsLast
      <3>3. Merges(i[s \ {m}], s \ {m})
        BY <1>2
      <3>4. m \in Int \X Int /\ m[1] < m[2] /\ \A z \in s \ {m} : z \in Int \X Int /\ z[1] <= m[1]
        BY <3>1, <3>2 DEF IsSpans
      <3>5. Merges(Extend(i[s \ {m}], m), (s \ {m}) \cup {m})
        BY <3>3, <3>4, ExtendMerges
      <3>6. (s \ {m}) \cup {m} = s
        OBVIOUS
      <3>7. i[s] = Extend(i[s \ {m}], m)
        BY <2>1, <2>3, <3>2
      <3> QED
        BY <3>5, <3>6, <3>7
    <2> QED
      BY <2>2, <2>3
  <1>3. T = {}
    <2>1. T \in SUBSET SUBSET S /\ IsFiniteSet(S)
      BY DEF IsSpans
    <2> HIDE DEF T
    <2> QED
      BY <1>2, <2>1, SmallestSubset
  <1> QED
    BY <1>1, <1>3-----------------------------------------------------------------------------
\* The sessions lie within the instants considered, and so does what a request may make of them.

InTime(a, b) == a \in Nat /\ b \in Int /\ b <= LastTick + 1
MayAsk(q) ==
  /\ q.in \in Int /\ (q.in # Open => q.in \in Nat)
  /\ q.out \in Int /\ q.out <= LastTick + 1
Placed(x) ==
  /\ x.at = "insert" => MayAsk(x.x)
  /\ x.at = "claim" /\ x.span # <<>> => InTime(x.span[1], x.span[2])
  /\ x.at = "correct" => InTime(x.span[1], x.span[2])

SessionsInTime == \A i \in SessionIds : session[i] # NoRow => InTime(session[i].in, session[i].out)
RequestsInTime == \A r \in Requests : request[r] # NoRow => MayAsk(request[r])
CallsInTime == \A c \in Calls : \A x : x = call[c] => Placed(x)

\* The inductive invariant, beside the others.
TimesInv == SessionsInTime /\ RequestsInTime /\ CallsInTime

LEMMA PlainIsPlaced == \A x : Plain(x) => Placed(x)
  BY DEF Plain, Placed

LEMMA PlacedKept ==
  ASSUME OnceInv, CallsInTime, NEW c \in Calls, NEW next, Become(c, next), Placed(next)
  PROVE  CallsInTime'
  <1>1. \A b \in Calls : call'[b] = IF b = c THEN next ELSE call[b]
    BY DEF Become, OnceInv, CallsInv
  <1> QED
    BY <1>1 DEF CallsInTime

\* DayOf of an instant is a day only from the first instant on.
LEMMA DayIsNat ==
  ASSUME NEW t \in Int, DayOf(t) \in Nat
  PROVE  t \in Nat
  <1>1. PICK n \in Nat, e \in Int : n = TicksPerDay /\ n > 0 /\ e = t \div n
    BY CalendarAssumption
  <1>2. e \in Nat
    BY <1>1 DEF DayOf
  <1>3. t = n * e + (t % n) /\ t % n \in 0 .. n - 1
    BY <1>1
  <1>4. n * e \in Nat
    BY <1>1, <1>2
  <1> QED
    BY <1>3, <1>4

LEMMA AskInTime ==
  ASSUME OnceInv, TimesInv, NEW c \in Calls,
         \E u \in Users, x \in Corrections : RequestCheck(c, u, x)
  PROVE  TimesInv'
  <1>1. PICK u \in Users, x \in Corrections : RequestCheck(c, u, x)
    OBVIOUS
  <1>2. UNCHANGED <<session, request>>
    BY <1>1 DEF RequestCheck, records
  <1>3. PICK next : next = [at |-> "insert", user |-> u, x |-> x] /\ Become(c, next)
    BY <1>1 DEF RequestCheck, Begin
  <1>4. x.day \in Nat /\ x.in \in Int /\ x.out \in Int /\ x.out <= LastTick + 1
    BY WorkdaysAssumption
  <1>5. x.in # Open => x.in \in Nat
    BY <1>1, <1>4, DayIsNat DEF RequestCheck, WindowFitsDay
  <1>6. Placed(next)
    BY <1>3, <1>4, <1>5 DEF Placed, MayAsk
  <1>7. CallsInTime'
    BY <1>3, <1>6, PlacedKept DEF TimesInv
  <1> QED
    BY <1>2, <1>7 DEF TimesInv, SessionsInTime, RequestsInTime

LEMMA InsertInTime ==
  ASSUME OnceInv, TimesInv, NEW c \in Calls, RequestInsert(c)
  PROVE  TimesInv'
  <1>1. PICK x : x = call[c] /\ Placed(x) /\ x.at = "insert"
    BY DEF TimesInv, CallsInTime, RequestInsert, Continue
  <1>2. PICK r \in Requests :
        request' = [request EXCEPT ![r] =
             [user |-> x.user, day |-> x.x.day, kind |-> x.x.kind,
              in |-> x.x.in, out |-> x.x.out, status |-> "PENDING"]]
    BY <1>1 DEF RequestInsert
  <1>3. MayAsk(request'[r])
    BY <1>1, <1>2 DEF Placed, MayAsk, OnceInv, RequestsInv
  <1>4. \A q \in Requests : q # r => request'[q] = request[q]
    BY <1>2 DEF OnceInv, RequestsInv
  <1>5. RequestsInTime'
    BY <1>3, <1>4 DEF TimesInv, RequestsInTime
  <1>6. Become(c, Idle) /\ UNCHANGED session
    BY DEF RequestInsert, Continue
  <1>7. CallsInTime'
    BY <1>6, PlacedKept, PlainIsPlaced, IdleIsPlain DEF TimesInv
  <1> QED
    BY <1>5, <1>6, <1>7 DEF TimesInv, SessionsInTime

\* correctiveSession: what was asked for, with an end or a beginning the sessions have.
LEMMA CorrectiveInTime ==
  ASSUME TimesInv, NEW q, MayAsk(q), NEW span \in Corrective(q)
  PROVE  InTime(span[1], span[2])
  <1>1. \A s \in SessionsOf(q.user, q.day) : InTime(s.in, s.out)
    BY DEF SessionsOf, TimesInv, SessionsInTime
  <1>2. CASE q.in # Open /\ q.out # Open
    <2>1. span = <<q.in, q.out>>
      BY <1>2 DEF Corrective
    <2> QED
      BY <1>2, <2>1 DEF MayAsk, InTime
  <1>3. CASE q.in = Open
    <2>1. \E s \in SessionsOf(q.user, q.day) : span = <<s.in, q.out>>
      BY <1>3 DEF Corrective
    <2> QED
      BY <1>1, <2>1 DEF MayAsk, InTime
  <1>4. CASE q.in # Open /\ q.out = Open
    <2>1. \E s \in SessionsOf(q.user, q.day) : span = <<q.in, s.out>>
      BY <1>4 DEF Corrective
    <2> QED
      BY <1>1, <1>4, <2>1 DEF MayAsk, InTime
  <1> QED
    BY <1>2, <1>3, <1>4

LEMMA DecideInTime ==
  ASSUME OnceInv, TimesInv, NEW c \in Calls,
         \E r \in Requests, a \in Approvers, approve \in BOOLEAN : DecideLoad(c, r, a, approve)
  PROVE  TimesInv'
  <1>1. PICK r \in Requests, a \in Approvers, approve \in BOOLEAN : DecideLoad(c, r, a, approve)
    OBVIOUS
  <1>2. UNCHANGED <<session, request>> /\ request[r] # NoRow
    BY <1>1 DEF DecideLoad, records
  <1>3. PICK span \in IF approve /\ request[r].kind # "POWER_CUT" THEN Corrective(request[r])
                      ELSE {<<>>} :
          Become(c, [at |-> "claim", r |-> r, approve |-> approve, span |-> span])
    BY <1>1 DEF DecideLoad, Begin
  <1>4. span # <<>> => InTime(span[1], span[2])
    <2>1. MayAsk(request[r])
      BY <1>2 DEF TimesInv, RequestsInTime
    <2>2. span # <<>> => span \in Corrective(request[r])
      BY <1>3
    <2> QED
      BY <2>1, <2>2, CorrectiveInTime
  <1>5. Placed([at |-> "claim", r |-> r, approve |-> approve, span |-> span])
    BY <1>4 DEF Placed
  <1>6. CallsInTime'
    BY <1>3, <1>5, PlacedKept DEF TimesInv
  <1> QED
    BY <1>2, <1>6 DEF TimesInv, SessionsInTime, RequestsInTime

LEMMA ClaimInTime ==
  ASSUME OnceInv, TimesInv, NEW c \in Calls, DecideClaim(c)
  PROVE  TimesInv'
  <1>1. PICK x : x = call[c] /\ Placed(x) /\ x.at = "claim"
    BY DEF TimesInv, CallsInTime, DecideClaim
  <1>2. x.r \in Requests /\ IsRequest(request[x.r]) /\ UNCHANGED session
    BY <1>1 DEF OnceInv, CallsInv, DecideClaim, ClaimAlways, records
  <1>3. UNCHANGED request \/ \E s : request' = [request EXCEPT ![x.r].status = s]
    BY <1>1 DEF DecideClaim, ClaimAlways, records
  <1>4. ASSUME NEW r \in Requests, request'[r] # NoRow
        PROVE  MayAsk(request'[r])
    <2>1. CASE UNCHANGED request
      BY <1>4, <2>1 DEF TimesInv, RequestsInTime
    <2>2. ASSUME NEW s, request' = [request EXCEPT ![x.r].status = s]
          PROVE  MayAsk(request'[r])
      <3>1. CASE r # x.r
        BY <1>4, <2>2, <3>1 DEF OnceInv, RequestsInv, TimesInv, RequestsInTime
      <3>2. CASE r = x.r
        <4>1. request[r] # NoRow
          BY <1>2, <3>2, NoRowIsNoRequest
        <4>2. MayAsk(request[r])
          BY <4>1 DEF TimesInv, RequestsInTime
        <4>3. request'[r].in = request[r].in /\ request'[r].out = request[r].out
          BY <1>2, <2>2, <3>2 DEF OnceInv, RequestsInv, IsRequest, Fields
        <4> QED
          BY <4>2, <4>3 DEF MayAsk
      <3> QED
        BY <3>1, <3>2
    <2> QED
      BY <1>3, <2>1, <2>2
  <1>5. RequestsInTime'
    BY <1>4 DEF RequestsInTime
  <1>6. PICK next : Become(c, next) /\ Placed(next)
    <2>1. CASE Become(c, Idle)
      BY <2>1, PlainIsPlaced, IdleIsPlain
    <2>2. CASE Become(c, AfterClaim(c))
      <3>1. PICK next : next = AfterClaim(c)
        OBVIOUS
      <3>2. Placed(next)
        BY <1>1, <3>1 DEF AfterClaim, Placed, Idle
      <3> QED
        BY <2>2, <3>1, <3>2
    <2> QED
      BY <2>1, <2>2 DEF DecideClaim, ClaimAlways, Continue
  <1>7. CallsInTime'
    BY <1>6, PlacedKept DEF TimesInv
  <1> QED
    BY <1>2, <1>5, <1>7 DEF TimesInv, SessionsInTime

LEMMA CorrectInTime ==
  ASSUME OnceInv, IdleInv, TimesInv, NEW c \in Calls, CorrectiveInsert(c)
  PROVE  TimesInv'
  <1>1. PICK x : x = call[c] /\ Placed(x) /\ x.at = "correct"
    BY DEF TimesInv, CallsInTime, CorrectiveInsert, Continue
  <1>2. InTime(x.span[1], x.span[2])
    BY <1>1 DEF Placed
  <1>3. x.r \in Requests
    BY <1>1 DEF OnceInv, CallsInv, Applying
  <1>4. PICK q : /\ session' = [session EXCEPT ![x.r] = q]
                 /\ q.in = x.span[1] /\ q.out = x.span[2]
    <2>1. PICK q : q = [user |-> request[x.r].user, idle |-> 0,
                        in |-> x.span[1], out |-> x.span[2]]
      OBVIOUS
    <2>2. session' = [session EXCEPT ![x.r] = q]
      BY <1>1, <2>1 DEF CorrectiveInsert
    <2>3. q.in = x.span[1] /\ q.out = x.span[2]
      BY <2>1
    <2> QED
      BY <2>2, <2>3
  <1>5. ASSUME NEW i \in SessionIds, session'[i] # NoRow
        PROVE  InTime(session'[i].in, session'[i].out)
    <2>1. CASE i = x.r
      <3>1. session'[i] = q
        BY <1>4, <2>1 DEF IdleInv, SessionsInv
      <3> QED
        BY <1>2, <1>4, <3>1
    <2>2. CASE i # x.r
      <3>1. session'[i] = session[i]
        BY <1>4, <2>2 DEF IdleInv, SessionsInv
      <3> QED
        BY <1>5, <3>1 DEF TimesInv, SessionsInTime
    <2> QED
      BY <2>1, <2>2
  <1>6. SessionsInTime'
    BY <1>5 DEF SessionsInTime
  <1>7. Become(c, DayOfRequest(call[c].r)) /\ UNCHANGED request
    BY DEF CorrectiveInsert, Continue
  <1>8. Placed(DayOfRequest(call[c].r))
    BY PlainIsPlaced, WorkIsPlain DEF DayOfRequest
  <1>9. CallsInTime'
    BY <1>7, <1>8, PlacedKept DEF TimesInv
  <1> QED
    BY <1>6, <1>7, <1>9 DEF TimesInv, RequestsInTime

LEMMA CreditInTime ==
  ASSUME OnceInv, IdleInv, TimesInv, NEW c \in Calls, CreditWrite(c)
  PROVE  TimesInv'
  <1>1. PICK x : x = call[c] /\ Crediting(x) /\ x.at = "uncharge"
    BY DEF IdleInv, CreditsInv, CreditWrite
  <1>2. CASE ~ (x.cut \subseteq stretches)
    <2>1. UNCHANGED session
      BY <1>1, <1>2 DEF CreditWrite
    <2> QED
      <3>1. Become(c, Idle) /\ UNCHANGED request
        BY <1>1, <1>2 DEF CreditWrite, Continue
      <3>2. CallsInTime'
        BY <3>1, PlacedKept, PlainIsPlaced, IdleIsPlain DEF TimesInv
      <3> QED
        BY <2>1, <3>1, <3>2 DEF TimesInv, SessionsInTime, RequestsInTime
  <1>3. CASE x.cut \subseteq stretches
    <2>1. /\ Become(c, DayOfRequest(x.r)) /\ UNCHANGED request
          /\ session' = [i \in SessionIds |->
                           IF i \in DOMAIN x.credit
                           THEN [session[i] EXCEPT !.idle = @ - x.credit[i]] ELSE session[i]]
      BY <1>1, <1>3 DEF CreditWrite, UnchargeRows, Continue
    <2>2. ASSUME NEW i \in SessionIds, session'[i] # NoRow
          PROVE  InTime(session'[i].in, session'[i].out)
      <3>1. CASE i \in DOMAIN x.credit
        <4>1. PICK g \in x.cut : i = g.id
          BY <1>1, <3>1 DEF Crediting, CreditFits
        <4>2. i \in Users \X Days /\ session[i] # NoRow
          BY <1>3, <4>1 DEF IdleInv, StretchesInv, IsStretch
        <4>3. IsSession(session[i])
          BY <4>2 DEF IdleInv, SessionsInv
        <4>4. session'[i] = [session[i] EXCEPT !.idle = session[i].idle - x.credit[i]]
          BY <2>1, <3>1
        <4>5. session'[i].in = session[i].in /\ session'[i].out = session[i].out
          BY <4>3, <4>4 DEF IsSession, SessionFields
        <4> QED
          BY <4>2, <4>5 DEF TimesInv, SessionsInTime
      <3>2. CASE i \notin DOMAIN x.credit
        <4>1. session'[i] = session[i]
          BY <2>1, <3>2
        <4> QED
          BY <2>2, <4>1 DEF TimesInv, SessionsInTime
      <3> QED
        BY <3>1, <3>2
    <2>3. SessionsInTime'
      BY <2>2 DEF SessionsInTime
    <2>4. Placed(DayOfRequest(x.r))
      BY PlainIsPlaced, WorkIsPlain DEF DayOfRequest
    <2>5. CallsInTime'
      BY <2>1, <2>4, PlacedKept DEF TimesInv
    <2> QED
      BY <2>1, <2>3, <2>5 DEF TimesInv, RequestsInTime
  <1> QED
    BY <1>2, <1>3
LEMMA NextDayInTime ==
  ASSUME TimesInv, DaysInv, NextDay
  PROVE  TimesInv'
  <1>1. PICK d \in 0 .. LastDay - 1 : d = today
    BY WorkdaysAssumption DEF NextDay, DaysInv, Days
  <1>2. PICK worked \in [Users -> DayShapes[d]] :
          session' = [i \in SessionIds |->
            IF i \in {u \in Users : worked[u] # NoRow} \X {d} THEN Worked(i[1], worked[i[1]])
            ELSE session[i]]
    <2>1. PICK worked \in [Users -> DayShapes[today]] :
            session' = [i \in SessionIds |->
              IF i \in {u \in Users : worked[u] # NoRow} \X {today} THEN Worked(i[1], worked[i[1]])
              ELSE session[i]]
      BY Zenon DEF NextDay
    <2> QED
      BY <1>1, <2>1
  <1>3. ASSUME NEW i \in SessionIds, session'[i] # NoRow
        PROVE  InTime(session'[i].in, session'[i].out)
    <2>1. CASE i \in {u \in Users : worked[u] # NoRow} \X {d}
      <3>1. PICK shape \in DayShapes[d] \ {NoRow} : shape = worked[i[1]]
        BY <1>2, <2>1
      <3>2. /\ shape.in \in Nat /\ shape.out \in Nat
            /\ d * TicksPerDay + shape.out <= LastTick + 1
        BY ShapesAssumption
      <3>3. /\ session'[i].in = d * TicksPerDay + shape.in
            /\ session'[i].out = d * TicksPerDay + shape.out
        BY <1>1, <1>2, <2>1, <3>1 DEF Worked
      <3>4. PICK base \in Nat : base = d * TicksPerDay
        BY CalendarAssumption
      <3>5. base + shape.in \in Nat /\ base + shape.out \in Int
        BY <3>2, <3>4
      <3> QED
        BY <3>2, <3>3, <3>4, <3>5 DEF InTime
    <2>2. CASE i \notin {u \in Users : worked[u] # NoRow} \X {d}
      <3>1. session'[i] = session[i]
        BY <1>2, <2>2
      <3> QED
        BY <1>3, <3>1 DEF TimesInv, SessionsInTime
    <2> QED
      BY <2>1, <2>2
  <1>4. SessionsInTime'
    BY <1>3 DEF SessionsInTime
  <1>5. UNCHANGED <<request, call>>
    BY DEF NextDay
  <1> QED
    BY <1>4, <1>5 DEF TimesInv, RequestsInTime, CallsInTime

LEMMA StepInTime ==
  ASSUME OnceInv, IdleInv, TimesInv, NEW c \in Calls, Step(c)
  PROVE  TimesInv'
  <1>1. ASSUME \/ \E l \in Leaves : LeaveLoad(c, l)
               \/ \E d \in Days : Nightly(c, d)
               \/ \E m \in Months : ExportLoad(c, m)
               \/ LeaveClaim(c) \/ ReadDay(c) \/ WriteDay(c) \/ ReadLates(c) \/ WriteLates(c)
               \/ NightTally(c) \/ NightApply(c) \/ ExportRead(c) \/ ExportInsert(c)
        PROVE  TimesInv'
    <2>1. UNCHANGED <<session, request>>
      BY <1>1, PlainSteps
    <2>2. PICK next : Become(c, next) /\ Plain(next)
      BY <1>1, PlainSteps
    <2>3. CallsInTime'
      BY <2>2, PlainIsPlaced, PlacedKept DEF TimesInv
    <2> QED
      BY <2>1, <2>3 DEF TimesInv, SessionsInTime, RequestsInTime
  <1>2. CASE CreditRead(c)
    <2>1. UNCHANGED <<session, request>>
      BY <1>2 DEF CreditRead, records
    <2>2. PICK cut, kept, credit :
            Become(c, [at |-> "uncharge", r |-> call[c].r, cut |-> cut, kept |-> kept,
                       credit |-> credit])
      BY <1>2, Zenon DEF CreditRead, Continue
    <2>3. Placed([at |-> "uncharge", r |-> call[c].r, cut |-> cut, kept |-> kept,
                  credit |-> credit])
      BY DEF Placed
    <2>4. CallsInTime'
      BY <2>2, <2>3, PlacedKept DEF TimesInv
    <2> QED
      BY <2>1, <2>4 DEF TimesInv, SessionsInTime, RequestsInTime
  <1> QED
    BY <1>1, <1>2, AskInTime, InsertInTime, DecideInTime, ClaimInTime, CorrectInTime,
       CreditInTime DEF Step

LEMMA InTimeAtFirst == Init => TimesInv
  <1> SUFFICES ASSUME Init PROVE TimesInv
    OBVIOUS
  <1>1. SessionsInTime /\ RequestsInTime
    BY DEF Init, SessionsInTime, RequestsInTime
  <1>2. CallsInTime
    BY PlainIsPlaced, IdleIsPlain DEF Init, CallsInTime
  <1> QED
    BY <1>1, <1>2 DEF TimesInv

LEMMA InTimeStill == TimesInv /\ IdleInv /\ OnceInv /\ FrozenInv /\ [Next]_vars => TimesInv'
  <1> SUFFICES ASSUME TimesInv, IdleInv, OnceInv, FrozenInv, [Next]_vars PROVE TimesInv'
    OBVIOUS
  <1>1. ASSUME UNCHANGED <<session, request, call>>
        PROVE  TimesInv'
    BY <1>1 DEF TimesInv, SessionsInTime, RequestsInTime, CallsInTime
  <1>2. CASE UNCHANGED vars
    BY <1>1, <1>2 DEF vars, records
  <1>3. CASE NextDay
    BY <1>3, NextDayInTime DEF FrozenInv, ShapeInv
  <1>4. CASE Restart
    <2>1. call' = [c \in Calls |-> Idle] /\ UNCHANGED <<session, request>>
      BY <1>4 DEF Restart, records
    <2>2. CallsInTime'
      BY <2>1, PlainIsPlaced, IdleIsPlain DEF CallsInTime
    <2> QED
      BY <2>1, <2>2 DEF TimesInv, SessionsInTime, RequestsInTime
  <1>5. CASE \/ \E h \in HolidayDays : AddHoliday(h)
             \/ \E m \in Months : Lock(m) \/ Unlock(m)
    BY <1>1, <1>5 DEF AddHoliday, Lock, Unlock
  <1>6. ASSUME NEW c \in Calls, Step(c) PROVE TimesInv'
    BY <1>6, StepInTime
  <1> QED
    BY <1>2, <1>3, <1>4, <1>5, <1>6 DEF Next
-----------------------------------------------------------------------------
\* The worked time and the overtime of merged spans count instants.

LEMMA MaxIsLast ==
  ASSUME NEW n \in Nat, NEW S \in SUBSET (1 .. n), S # {}
  PROVE  Max(S) \in S
  <1> DEFINE T == {s \in SUBSET S : s # {} /\ ~ \E x \in s : \A y \in s : x >= y}
  <1>1. \A x \in S : x \in Int
    OBVIOUS
  <1>2. ASSUME NEW s \in T, \A x \in s : s \ {x} \notin T
        PROVE  FALSE
    <2>1. PICK x \in s : TRUE
      OBVIOUS
    <2>2. CASE s \ {x} = {}
      <3>1. s = {x}
        BY <2>1, <2>2
      <3> QED
        BY <1>1, <2>1, <3>1
    <2>3. CASE s \ {x} # {}
      <3>1. PICK y \in s \ {x} : \A z \in s \ {x} : y >= z
        BY <1>2, <2>3
      <3>2. x \in Int /\ y \in Int /\ \A z \in s : z \in Int
        BY <1>1
      <3>3. CASE y >= x
        BY <3>1, <3>3
      <3>4. CASE x >= y
        <4>1. \A z \in s : x >= z
          BY <3>1, <3>2, <3>4
        <4> QED
          BY <4>1
      <3> QED
        BY <3>2, <3>3, <3>4
    <2> QED
      BY <2>2, <2>3
  <1>3. T = {}
    <2>1. T \in SUBSET SUBSET S
      OBVIOUS
    <2>2. IsFiniteSet(S)
      <3>1. IsFiniteSet(1 .. n)
        BY FS_Interval
      <3> QED
        BY <3>1, FS_Subset
    <2> HIDE DEF T
    <2> QED
      BY <1>2, <2>1, <2>2, SmallestSubset
  <1>4. \E x \in S : \A y \in S : x >= y
    BY <1>3
  <1> QED
    BY <1>4 DEF Max

\* The fold over the places of a sequence, the last one first.
FoldsPlaces(i, F, n) ==
  i = [s \in SUBSET (1 .. n) |-> IF s = {} THEN 0 ELSE i[s \ {Max(s)}] + F[Max(s)]]

\* Sets of instants that are apart: the fold of their sizes is the size of all of them.
LEMMA SizesAdd ==
  ASSUME NEW n \in Nat, NEW F, NEW R \in [1 .. n -> SUBSET Time],
         \A k \in 1 .. n : F[k] = Cardinality(R[k]),
         \A k, l \in 1 .. n : k # l => R[k] \cap R[l] = {}
  PROVE  /\ \E i : FoldsPlaces(i, F, n)
         /\ \A i : FoldsPlaces(i, F, n)
                   => i[1 .. n] = Cardinality({t \in Time : \E k \in 1 .. n : t \in R[k]})
  <1> DEFINE U(s) == {t \in Time : \E k \in s : t \in R[k]}
             g == [s \in SUBSET (1 .. n) |-> Cardinality(U(s))]
  <1>1. ASSUME NEW s \in SUBSET (1 .. n), NEW x \in s
        PROVE  g[s] = g[s \ {x}] + F[x]
    <2>1. IsFiniteSet(U(s \ {x})) /\ IsFiniteSet(R[x])
      <3>1. U(s \ {x}) \in SUBSET Time /\ R[x] \in SUBSET Time
        OBVIOUS
      <3> HIDE DEF U
      <3> QED
        BY <3>1, TimeIsFinite, FS_Subset
    <2>2. U(s) = U(s \ {x}) \cup R[x]
      OBVIOUS
    <2>3. U(s \ {x}) \cap R[x] = {}
      OBVIOUS
    <2>4. g[s] = Cardinality(U(s)) /\ g[s \ {x}] = Cardinality(U(s \ {x}))
      <3> HIDE DEF U
      <3> QED
        OBVIOUS
    <2> HIDE DEF U, g
    <2>5. PICK A, B : A = U(s \ {x}) /\ B = R[x]
      OBVIOUS
    <2>6. Cardinality(A) \in Nat /\ Cardinality(B) \in Nat /\ Cardinality(A \cap B) = 0
      BY <2>1, <2>3, <2>5, FS_CardinalityType, FS_EmptySet
    <2>7. Cardinality(A \cup B) = Cardinality(A) + Cardinality(B) - Cardinality(A \cap B)
      BY <2>1, <2>5, FS_Union
    <2>8. Cardinality(A \cup B) = Cardinality(A) + Cardinality(B)
      BY <2>6, <2>7
    <2>9. F[x] = Cardinality(B)
      BY <2>5
    <2> QED
      BY <2>2, <2>4, <2>5, <2>8, <2>9
  <1>2. g[{}] = 0
    <2>1. U({}) = {} /\ {} \in SUBSET (1 .. n)
      OBVIOUS
    <2> HIDE DEF U
    <2> QED
      BY <2>1, FS_EmptySet
  <1>3. FoldsPlaces(g, F, n)
    <2>1. ASSUME NEW s \in SUBSET (1 .. n)
          PROVE  g[s] = IF s = {} THEN 0 ELSE g[s \ {Max(s)}] + F[Max(s)]
      <3>1. s # {} => Max(s) \in s
        BY MaxIsLast
      <3> HIDE DEF g
      <3> QED
        BY <1>1, <1>2, <3>1
    <2>2. g = [s \in SUBSET (1 .. n) |-> g[s]]
      OBVIOUS
    <2> HIDE DEF g
    <2> QED
      BY <2>1, <2>2 DEF FoldsPlaces
  <1>4. ASSUME NEW i, FoldsPlaces(i, F, n)
        PROVE  i[1 .. n] = g[1 .. n]
    <2> DEFINE T == {s \in SUBSET (1 .. n) : i[s] # g[s]}
    <2>1. ASSUME NEW s \in T, \A x \in s : s \ {x} \notin T
          PROVE  FALSE
      <3> HIDE DEF g
      <3>1. i[s] = IF s = {} THEN 0 ELSE i[s \ {Max(s)}] + F[Max(s)]
        BY <1>4 DEF FoldsPlaces
      <3>2. CASE s = {}
        BY <1>2, <3>1, <3>2
      <3>3. CASE s # {}
        <4>1. Max(s) \in s
          BY <3>3, MaxIsLast
        <4>2. i[s \ {Max(s)}] = g[s \ {Max(s)}]
          BY <2>1, <4>1
        <4>3. g[s] = g[s \ {Max(s)}] + F[Max(s)]
          BY <1>1, <4>1
        <4> QED
          BY <3>1, <3>3, <4>2, <4>3
      <3> QED
        BY <3>2, <3>3
    <2>2. T = {}
      <3>1. T \in SUBSET SUBSET (1 .. n) /\ IsFiniteSet(1 .. n)
        BY FS_Interval
      <3> HIDE DEF T
      <3> QED
        BY <2>1, <3>1, SmallestSubset
    <2> HIDE DEF g
    <2> QED
      BY <2>2
  <1>5. g[1 .. n] = Cardinality(U(1 .. n))
    <2> HIDE DEF U
    <2> QED
      OBVIOUS
  <1> HIDE DEF g
  <1> QED
    BY <1>3, <1>4, <1>5

LEMMA RegularIsFold ==
  ASSUME NEW n \in Nat, NEW q, DOMAIN q = 1 .. n,
         NEW F, \A k \in 1 .. n : F[k] = Regular(q[k]),
         \E i : FoldsPlaces(i, F, n)
  PROVE  \E i : FoldsPlaces(i, F, n) /\ Total(Regular, q) = i[1 .. n]
  <1> DEFINE i == CHOOSE i : i = [s \in SUBSET (1 .. n) |->
                    IF s = {} THEN 0 ELSE i[s \ {Max(s)}] + Regular(q[Max(s)])]
  <1>1. Total(Regular, q) = i[1 .. n]
    BY DEF Total, FoldLeft, MapThenFoldSet
  <1>2. FoldsPlaces(i, F, n)
    <2>1. ASSUME NEW j
          PROVE  FoldsPlaces(j, F, n) <=>
                   j = [s \in SUBSET (1 .. n) |->
                          IF s = {} THEN 0 ELSE j[s \ {Max(s)}] + Regular(q[Max(s)])]
      <3>1. ASSUME NEW s \in SUBSET (1 .. n), s # {}
            PROVE  F[Max(s)] = Regular(q[Max(s)])
        <4>1. Max(s) \in 1 .. n
          BY <3>1, MaxIsLast
        <4> QED
          BY <4>1
      <3>2. [s \in SUBSET (1 .. n) |-> IF s = {} THEN 0 ELSE j[s \ {Max(s)}] + F[Max(s)]]
            = [s \in SUBSET (1 .. n) |->
                 IF s = {} THEN 0 ELSE j[s \ {Max(s)}] + Regular(q[Max(s)])]
        BY <3>1
      <3> QED
        BY <3>2 DEF FoldsPlaces
    <2> QED
      BY <2>1
  <1> HIDE DEF i
  <1> QED
    BY <1>1, <1>2

LEMMA OvertimeIsFold ==
  ASSUME NEW n \in Nat, NEW q, DOMAIN q = 1 .. n,
         NEW F, \A k \in 1 .. n : F[k] = Overtime(q[k]),
         \E i : FoldsPlaces(i, F, n)
  PROVE  \E i : FoldsPlaces(i, F, n) /\ Total(Overtime, q) = i[1 .. n]
  <1> DEFINE i == CHOOSE i : i = [s \in SUBSET (1 .. n) |->
                    IF s = {} THEN 0 ELSE i[s \ {Max(s)}] + Overtime(q[Max(s)])]
  <1>1. Total(Overtime, q) = i[1 .. n]
    BY DEF Total, FoldLeft, MapThenFoldSet
  <1>2. FoldsPlaces(i, F, n)
    <2>1. ASSUME NEW j
          PROVE  FoldsPlaces(j, F, n) <=>
                   j = [s \in SUBSET (1 .. n) |->
                          IF s = {} THEN 0 ELSE j[s \ {Max(s)}] + Overtime(q[Max(s)])]
      <3>1. ASSUME NEW s \in SUBSET (1 .. n), s # {}
            PROVE  F[Max(s)] = Overtime(q[Max(s)])
        <4>1. Max(s) \in 1 .. n
          BY <3>1, MaxIsLast
        <4> QED
          BY <4>1
      <3>2. [s \in SUBSET (1 .. n) |-> IF s = {} THEN 0 ELSE j[s \ {Max(s)}] + F[Max(s)]]
            = [s \in SUBSET (1 .. n) |->
                 IF s = {} THEN 0 ELSE j[s \ {Max(s)}] + Overtime(q[Max(s)])]
        BY <3>1
      <3> QED
        BY <3>2 DEF FoldsPlaces
    <2> QED
      BY <2>1
  <1> HIDE DEF i
  <1> QED
    BY <1>1, <1>2
\* splitSessionSeconds: what of a span lies before the end of its shift, and what does not.
LEMMA SpanParts ==
  ASSUME NEW s \in Int \X Int, NEW e \in Int, e = ShiftEndOf(s[1]),
         0 <= s[1], s[1] < s[2], s[2] <= LastTick + 1
  PROVE  /\ Regular(s) = Cardinality({t \in Time : Covers(s, t) /\ t < e})
         /\ Overtime(s) = Cardinality({t \in Time : Covers(s, t) /\ ~ (t < e)})
  <1>1. PICK a \in Int, b \in Int : s = <<a, b>>
    OBVIOUS
  <1>2. 0 <= a /\ a < b /\ b <= LastTick + 1 /\ LastTick \in Int /\ e = ShiftEndOf(a)
    BY <1>1, WorkdaysAssumption
  <1>3. PICK m \in Int : m = Min({b, e}) /\ m = IF b <= e THEN b ELSE e
    BY MaxMin
  <1>4. PICK n \in Int : n = Max({a, e}) /\ n = IF a >= e THEN a ELSE e
    BY MaxMin
  <1>5. Regular(s) = Max({0, m - a})
    BY <1>1, <1>2, <1>3 DEF Regular
  <1>6. Overtime(s) = Max({0, b - n})
    BY <1>1, <1>2, <1>4 DEF Overtime
  <1>7. Max({0, m - a}) = IF 0 >= m - a THEN 0 ELSE m - a
    BY MaxMin
  <1>8. Max({0, b - n}) = IF 0 >= b - n THEN 0 ELSE b - n
    BY MaxMin
  <1>9. {t \in Time : Covers(s, t) /\ t < e} = a .. (m - 1)
    BY <1>1, <1>2, <1>3 DEF Time, Covers
  <1>10. {t \in Time : Covers(s, t) /\ ~ (t < e)} = n .. (b - 1)
    BY <1>1, <1>2, <1>4 DEF Time, Covers
  <1>11. Cardinality(a .. (m - 1)) = IF a > m - 1 THEN 0 ELSE (m - 1) - a + 1
    BY FS_Interval
  <1>12. Cardinality(n .. (b - 1)) = IF n > b - 1 THEN 0 ELSE (b - 1) - n + 1
    BY FS_Interval
  <1>13. Cardinality(a .. (m - 1)) = Max({0, m - a})
    BY <1>7, <1>11
  <1>14. Cardinality(n .. (b - 1)) = Max({0, b - n})
    BY <1>8, <1>12
  <1> QED
    BY <1>5, <1>6, <1>9, <1>10, <1>13, <1>14

\* The spans lie within the instants considered and their shifts end at the same instant, e.
OfOneDay(S, e) ==
  \A z \in S : z \in Nat \X Int /\ z[2] <= LastTick + 1 /\ ShiftEndOf(z[1]) = e

LEMMA StretchesFit ==
  ASSUME NEW S, NEW q, Merges(q, S), NEW e \in Int, OfOneDay(S, e), NEW k \in 1 .. Len(q)
  PROVE  /\ q[k] \in Int \X Int /\ 0 <= q[k][1] /\ q[k][1] < q[k][2]
         /\ q[k][2] <= LastTick + 1 /\ ShiftEndOf(q[k][1]) = e
  <1>1. q \in Seq(Int \X Int)
    BY DEF Merges
  <1>2. q[k] \in Int \X Int
    BY <1>1
  <1>3. q[k][1] < q[k][2] /\ \E z \in S : q[k][1] = z[1]
    BY DEF Merges
  <1>4. 0 <= q[k][1] /\ ShiftEndOf(q[k][1]) = e
    BY <1>3 DEF OfOneDay
  <1>5. PICK t \in Int : t = q[k][2] - 1
    BY <1>2
  <1>6. Covers(q[k], t)
    BY <1>2, <1>3, <1>5 DEF Covers
  <1>7. PICK z \in S : Covers(z, t)
    BY <1>6 DEF Merges
  <1>8. q[k][2] <= LastTick + 1
    <2>1. z[2] \in Int /\ z[2] <= LastTick + 1 /\ t < z[2] /\ q[k][2] \in Int /\ LastTick \in Int
      BY <1>2, <1>7, WorkdaysAssumption DEF OfOneDay, Covers
    <2> QED
      BY <1>5, <2>1
  <1> QED
    BY <1>2, <1>3, <1>4, <1>8

LEMMA StretchesApart ==
  ASSUME NEW S, NEW q, Merges(q, S), NEW k \in 1 .. Len(q), NEW l \in 1 .. Len(q), k # l,
         NEW t \in Int
  PROVE  ~ (Covers(q[k], t) /\ Covers(q[l], t))
  <1>1. q \in Seq(Int \X Int)
    BY DEF Merges
  <1>2. PICK a \in Int, b \in Int : q[k] = <<a, b>>
    <2>1. q[k] \in Int \X Int
      BY <1>1
    <2> QED
      BY <2>1
  <1>3. PICK c \in Int, d \in Int : q[l] = <<c, d>>
    <2>1. q[l] \in Int \X Int
      BY <1>1
    <2> QED
      BY <2>1
  <1>4. k < l \/ l < k
    BY <1>1
  <1>5. q[k][2] < q[l][1] \/ q[l][2] < q[k][1]
    BY <1>4 DEF Merges
  <1> QED
    BY <1>2, <1>3, <1>5 DEF Covers

LEMMA MergedCounts ==
  ASSUME NEW S, NEW q, Merges(q, S), NEW e \in Int, OfOneDay(S, e)
  PROVE  /\ Total(Regular, q) = Cardinality({t \in Time : (\E z \in S : Covers(z, t)) /\ t < e})
         /\ Total(Overtime, q)
            = Cardinality({t \in Time : (\E z \in S : Covers(z, t)) /\ ~ (t < e)})
  <1>1. PICK n \in Nat : n = Len(q) /\ DOMAIN q = 1 .. n
    BY DEF Merges
  <1>2. \A t \in Time : t \in Int
    BY WorkdaysAssumption DEF Time
  <1>3. \A t \in Time : (\E k \in 1 .. n : Covers(q[k], t)) <=> \E z \in S : Covers(z, t)
    BY <1>1, <1>2 DEF Merges
  <1>4. \A k, l \in 1 .. n : k # l => \A t \in Time : ~ (Covers(q[k], t) /\ Covers(q[l], t))
    BY <1>1, <1>2, StretchesApart
  <1>5. \A k \in 1 .. n :
          /\ Regular(q[k]) = Cardinality({t \in Time : Covers(q[k], t) /\ t < e})
          /\ Overtime(q[k]) = Cardinality({t \in Time : Covers(q[k], t) /\ ~ (t < e)})
    <2>1. ASSUME NEW k \in 1 .. n
          PROVE  /\ Regular(q[k]) = Cardinality({t \in Time : Covers(q[k], t) /\ t < e})
                 /\ Overtime(q[k]) = Cardinality({t \in Time : Covers(q[k], t) /\ ~ (t < e)})
      <3>1. PICK s : s = q[k]
        OBVIOUS
      <3>2. /\ s \in Int \X Int /\ 0 <= s[1] /\ s[1] < s[2]
            /\ s[2] <= LastTick + 1 /\ e = ShiftEndOf(s[1])
        BY <1>1, <3>1, StretchesFit
      <3>3. /\ Regular(s) = Cardinality({t \in Time : Covers(s, t) /\ t < e})
            /\ Overtime(s) = Cardinality({t \in Time : Covers(s, t) /\ ~ (t < e)})
        BY <3>2, SpanParts
      <3> QED
        BY <3>1, <3>3
    <2> QED
      BY <2>1
  <1>6. Total(Regular, q) = Cardinality({t \in Time : (\E z \in S : Covers(z, t)) /\ t < e})
    <2>1. PICK F, R : /\ F = [k \in 1 .. n |-> Regular(q[k])]
                      /\ R = [k \in 1 .. n |-> {t \in Time : Covers(q[k], t) /\ t < e}]
      OBVIOUS
    <2>2. \A k \in 1 .. n : F[k] = Regular(q[k]) /\ F[k] = Cardinality(R[k])
      BY <1>5, <2>1
    <2>3. R \in [1 .. n -> SUBSET Time] /\ \A k, l \in 1 .. n : k # l => R[k] \cap R[l] = {}
      BY <1>4, <2>1
    <2>4. /\ \E i : FoldsPlaces(i, F, n)
          /\ \A i : FoldsPlaces(i, F, n)
                    => i[1 .. n] = Cardinality({t \in Time : \E k \in 1 .. n : t \in R[k]})
      BY <2>2, <2>3, SizesAdd
    <2>5. Total(Regular, q) = Cardinality({t \in Time : \E k \in 1 .. n : t \in R[k]})
      <3>1. \E i : FoldsPlaces(i, F, n) /\ Total(Regular, q) = i[1 .. n]
        BY <1>1, <2>2, <2>4, RegularIsFold
      <3> QED
        BY <2>4, <3>1
    <2>6. {t \in Time : \E k \in 1 .. n : t \in R[k]}
          = {t \in Time : (\E z \in S : Covers(z, t)) /\ t < e}
      BY <1>3, <2>1
    <2> QED
      BY <2>5, <2>6
  <1>7. Total(Overtime, q) = Cardinality({t \in Time : (\E z \in S : Covers(z, t)) /\ ~ (t < e)})
    <2>1. PICK F, R : /\ F = [k \in 1 .. n |-> Overtime(q[k])]
                      /\ R = [k \in 1 .. n |-> {t \in Time : Covers(q[k], t) /\ ~ (t < e)}]
      OBVIOUS
    <2>2. \A k \in 1 .. n : F[k] = Overtime(q[k]) /\ F[k] = Cardinality(R[k])
      BY <1>5, <2>1
    <2>3. R \in [1 .. n -> SUBSET Time] /\ \A k, l \in 1 .. n : k # l => R[k] \cap R[l] = {}
      BY <1>4, <2>1
    <2>4. /\ \E i : FoldsPlaces(i, F, n)
          /\ \A i : FoldsPlaces(i, F, n)
                    => i[1 .. n] = Cardinality({t \in Time : \E k \in 1 .. n : t \in R[k]})
      BY <2>2, <2>3, SizesAdd
    <2>5. Total(Overtime, q) = Cardinality({t \in Time : \E k \in 1 .. n : t \in R[k]})
      <3>1. \E i : FoldsPlaces(i, F, n) /\ Total(Overtime, q) = i[1 .. n]
        BY <1>1, <2>2, <2>4, OvertimeIsFold
      <3> QED
        BY <2>4, <3>1
    <2>6. {t \in Time : \E k \in 1 .. n : t \in R[k]}
          = {t \in Time : (\E z \in S : Covers(z, t)) /\ ~ (t < e)}
      BY <1>3, <2>1
    <2> QED
      BY <2>5, <2>6
  <1> QED
    BY <1>6, <1>7

\* The marks of a day count the instants its closed sessions cover.
LEMMA CountedOnce == TimesInv => TimeCountsOnce
  <1> SUFFICES ASSUME TimesInv, NEW u \in Users, NEW d \in Days
      PROVE  LET own == SessionsOf(u, d)
                 covered == {t \in Time : \E s \in own : s.in <= t /\ t < s.out}
                 regular == {t \in covered : t < d * TicksPerDay + ShiftEnd}
                 m == MarksNow(u, d, holidays)
             IN m.worked = Cardinality(regular) /\ m.overtime = Cardinality(covered \ regular)
    BY Zenon DEF TimeCountsOnce
  <1>1. PICK own : own = SessionsOf(u, d)
    OBVIOUS
  <1>2. \A s \in own : InTime(s.in, s.out) /\ DayOf(s.in) = d
    BY <1>1 DEF SessionsOf, TimesInv, SessionsInTime
  <1>3. PICK S : S = ClosedSpans(own)
    OBVIOUS
  <1>4. PICK e \in Int : e = d * TicksPerDay + ShiftEnd
    BY WorkdaysAssumption, CalendarAssumption DEF Days
  <1>5. \A z \in S : \E s \in own : s.in < s.out /\ z = <<s.in, s.out>>
    BY <1>3 DEF ClosedSpans
  <1>6. \A s \in own : s.in < s.out => <<s.in, s.out>> \in S
    BY <1>3 DEF ClosedSpans
  <1>7. OfOneDay(S, e) /\ \A z \in S : z[1] < z[2]
    <2>1. ASSUME NEW z \in S
          PROVE  z \in Nat \X Int /\ z[1] < z[2] /\ z[2] <= LastTick + 1 /\ ShiftEndOf(z[1]) = e
      <3>1. PICK s \in own : s.in < s.out /\ z = <<s.in, s.out>>
        BY <1>5
      <3>2. s.in \in Nat /\ s.out \in Int /\ s.out <= LastTick + 1 /\ DayOf(s.in) = d
        BY <1>2 DEF InTime
      <3>3. ShiftEndOf(s.in) = e
        BY <1>4, <3>2 DEF ShiftEndOf
      <3> QED
        BY <3>1, <3>2, <3>3
    <2> QED
      BY <2>1 DEF OfOneDay
  <1>8. IsSpans(S)
    <2>1. IsFiniteSet(0 .. LastTick + 1)
      BY WorkdaysAssumption, FS_Interval
    <2>2. IsFiniteSet((0 .. LastTick + 1) \X (0 .. LastTick + 1))
      BY <2>1, FS_Product
    <2>3. S \in SUBSET ((0 .. LastTick + 1) \X (0 .. LastTick + 1))
      <3>1. ASSUME NEW z \in S
            PROVE  z \in (0 .. LastTick + 1) \X (0 .. LastTick + 1)
        <4>1. PICK a \in Nat, b \in Int : z = <<a, b>> /\ a < b /\ b <= LastTick + 1
          BY <1>7 DEF OfOneDay
        <4> QED
          BY <4>1, WorkdaysAssumption
      <3> QED
        BY <3>1
    <2>4. IsFiniteSet(S)
      BY <2>2, <2>3, FS_Subset
    <2>5. \A z \in S : z \in Int \X Int
      BY <1>7 DEF OfOneDay
    <2> QED
      BY <1>7, <2>4, <2>5 DEF IsSpans
  <1>9. PICK q : q = MergeOf(S)
    OBVIOUS
  <1>10. Merges(q, S)
    BY <1>8, <1>9, MergeCovers
  <1>11. Merged(own) = q
    BY <1>3, <1>9 DEF Merged, MergeOf
  <1>12. /\ MarksNow(u, d, holidays).worked = Total(Regular, q)
         /\ MarksNow(u, d, holidays).overtime = Total(Overtime, q)
    BY <1>1, <1>11 DEF MarksNow, Marks
  <1>13. PICK covered : covered = {t \in Time : \E s \in own : s.in <= t /\ t < s.out}
    OBVIOUS
  <1>14. \A t \in Time : t \in covered <=> \E z \in S : Covers(z, t)
    <2>1. ASSUME NEW t \in Time, NEW s \in own, s.in <= t, t < s.out
          PROVE  \E z \in S : Covers(z, t)
      <3>1. s.in < s.out
        BY <1>2, <2>1 DEF InTime, Time
      <3>2. Covers(<<s.in, s.out>>, t)
        BY <2>1 DEF Covers
      <3> QED
        BY <1>6, <3>1, <3>2
    <2>2. ASSUME NEW t \in Time, NEW z \in S, Covers(z, t)
          PROVE  \E s \in own : s.in <= t /\ t < s.out
      <3>1. PICK s \in own : z = <<s.in, s.out>>
        BY <1>5
      <3> QED
        BY <2>2, <3>1 DEF Covers
    <2> QED
      BY <1>13, <2>1, <2>2
  <1>15. /\ {t \in covered : t < e} = {t \in Time : (\E z \in S : Covers(z, t)) /\ t < e}
         /\ covered \ {t \in covered : t < e}
            = {t \in Time : (\E z \in S : Covers(z, t)) /\ ~ (t < e)}
    BY <1>13, <1>14
  <1>16. /\ Total(Regular, q) = Cardinality({t \in covered : t < e})
         /\ Total(Overtime, q) = Cardinality(covered \ {t \in covered : t < e})
    <2>1. /\ Total(Regular, q)
             = Cardinality({t \in Time : (\E z \in S : Covers(z, t)) /\ t < e})
          /\ Total(Overtime, q)
             = Cardinality({t \in Time : (\E z \in S : Covers(z, t)) /\ ~ (t < e)})
      BY <1>7, <1>10, MergedCounts
    <2> QED
      BY <1>15, <2>1
  <1> QED
    BY <1>1, <1>4, <1>12, <1>13, <1>16

\* mergeOverlapping and splitSessionSeconds: whatever corrections are approved and whenever, time
\* that several sessions of a day share counts once, as worked or as overtime.
THEOREM SharedTimeCountsOnce == Spec => []TimeCountsOnce
  <1> QED
    BY CountedOnce, OnceInitially, OnceStep, FrozenInitially, FrozenStep, ChargedAtFirst,
       ChargedStill, InTimeAtFirst, InTimeStill, PTL DEF Spec
=============================================================================
