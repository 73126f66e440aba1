-------------------------- MODULE AttendanceProofs --------------------------
(***************************************************************************)
(* What AttendanceProperties states of the server, and DesktopProperties   *)
(* of the agent that watches one computer and reports to it, proved for    *)
(* any number of sessions, users and concurrent calls.                     *)
(***************************************************************************)
EXTENDS DesktopProperties, FiniteSetTheorems, TLAPS

\* What a call carries to its write fits the session it will write to.
Fits(x) ==
  /\ x.at \in {"beat", "checkOut"} => Used(x.id) /\ session[x.id].in <= x.t
  /\ x.at = "checkIn" => x.t <= now
  /\ x.at = "night" => \A i \in DOMAIN x.close : Used(i) /\ session[i].in <= x.close[i]

CallsFit == \A c \in Calls : Fits(call[c])

NotAhead == \A i \in Ids : Used(i) => session[i].in <= now

SpanInv == TypeOK /\ CallsFit /\ NotAhead /\ SpanIsForward

-----------------------------------------------------------------------------
\* Arithmetic and rows

LEMMA DayEnds ==
  ASSUME NEW t \in Nat
  PROVE  EndOfDay(t) \in Int /\ t <= EndOfDay(t)
  <1>1. TicksPerDay \in Nat /\ 0 < TicksPerDay
    BY ClockAssumption
  <1>2. /\ t \div TicksPerDay \in Int /\ t % TicksPerDay \in 0 .. TicksPerDay - 1
        /\ t = TicksPerDay * (t \div TicksPerDay) + (t % TicksPerDay)
    BY <1>1
  <1>3. (t \div TicksPerDay + 1) * TicksPerDay = TicksPerDay * (t \div TicksPerDay) + TicksPerDay
    BY <1>1, <1>2
  <1> QED
    BY <1>1, <1>2, <1>3 DEF EndOfDay, DayOf

LEMMA IdleIsNat == ASSUME NEW spans PROVE IdleOf(spans) \in Nat
  <1>1. IsFiniteSet(Time)
    BY FS_Interval, ClockAssumption DEF Time
  <1>2. ShiftTicks(spans) \subseteq Time
    BY DEF ShiftTicks
  <1>3. IsFiniteSet(ShiftTicks(spans))
    BY <1>1, <1>2, FS_Subset
  <1> QED
    BY <1>3, FS_CardinalityType DEF IdleOf

LEMMA UsedIsRow ==
  ASSUME TypeOK, NEW i \in Ids
  PROVE  /\ Used(i) <=> session[i] \in SessionRow
         /\ Used(i) => /\ session[i].user \in Users /\ session[i].in \in Time
                       /\ session[i].out \in Time \cup {Open} /\ session[i].beat \in Time
                       /\ session[i].idle \in Nat
  <1>1. Unused \notin SessionRow
    BY DEF Unused, SessionRow
  <1>2. session[i] \in SessionRow \cup {Unused}
    BY DEF TypeOK
  <1> QED
    BY <1>1, <1>2 DEF Used, SessionRow

LEMMA RowEdits ==
  ASSUME NEW row \in SessionRow, NEW t \in Time
  PROVE  /\ LET new == [row EXCEPT !.beat = t]
            IN /\ new \in SessionRow /\ new.user = row.user /\ new.in = row.in
               /\ new.out = row.out /\ new.beat = t /\ new.key = row.key
         /\ LET new == [row EXCEPT !.out = t]
            IN /\ new \in SessionRow /\ new.user = row.user /\ new.in = row.in
               /\ new.out = t /\ new.beat = row.beat /\ new.key = row.key
  BY DEF SessionRow

LEMMA IdleEdit ==
  ASSUME NEW row \in SessionRow, NEW n \in Nat
  PROVE  LET new == [row EXCEPT !.idle = row.idle + n]
         IN /\ new \in SessionRow /\ new.user = row.user /\ new.in = row.in
            /\ new.out = row.out /\ new.beat = row.beat /\ new.key = row.key
  BY DEF SessionRow

LEMMA CallShapes ==
  ASSUME TypeOK, NEW c \in Calls
  PROVE  /\ call[c].at = "checkIn" => call[c] \in CheckIn
         /\ call[c].at \in {"beat", "checkOut"} => call[c] \in ById
         /\ call[c].at = "night" => call[c] \in Night
         /\ call[c] = Idle <=> call[c].at = "idle"
  BY DEF TypeOK, CallState, Idle, CheckIn, ById, Night

\* One session in use changes, and keeps its key.
LEMMA Touch ==
  ASSUME TypeOK, NEW i \in Ids, Used(i), NEW row \in SessionRow, row.key = session[i].key,
         session' = [session EXCEPT ![i] = row]
  PROVE  /\ session' \in [Ids -> SessionRow \cup {Unused}]
         /\ session'[i] = row /\ \A j \in Ids \ {i} : session'[j] = session[j]
         /\ \A j \in Ids : Used(j)' <=> Used(j)
         /\ KeysAreUnique'
  <1>1. session' \in [Ids -> SessionRow \cup {Unused}]
    BY DEF TypeOK
  <1>2. session'[i] = row /\ \A j \in Ids \ {i} : session'[j] = session[j]
    BY DEF TypeOK
  <1>3. Unused \notin SessionRow
    BY DEF Unused, SessionRow
  <1>4. \A j \in Ids : (Used(j)' <=> Used(j)) /\ session'[j].key = session[j].key
    BY <1>2, <1>3 DEF Used
  <1>5. KeysAreUnique'
    BY <1>4 DEF TypeOK, KeysAreUnique
  <1> QED
    BY <1>1, <1>2, <1>4, <1>5

\* The two transactions: the row handed over, plus the idle of its stretches.
LEMMA Charging ==
  ASSUME TypeOK, NEW i \in Ids, Used(i), NEW row \in SessionRow, row.key = session[i].key,
         NEW spans, Charge(i, spans, row)
  PROVE  /\ session' \in [Ids -> SessionRow \cup {Unused}]
         /\ gaps' \in [Ids -> [Spans -> Nat]]
         /\ session'[i].user = row.user /\ session'[i].in = row.in
         /\ session'[i].out = row.out /\ session'[i].beat = row.beat
         /\ \A j \in Ids \ {i} : session'[j] = session[j]
         /\ \A j \in Ids : Used(j)' <=> Used(j)
         /\ KeysAreUnique'
  <1> DEFINE new == [row EXCEPT !.idle = row.idle + IdleOf(spans)]
  <1>1. /\ new \in SessionRow /\ new.user = row.user /\ new.in = row.in
        /\ new.out = row.out /\ new.beat = row.beat /\ new.key = session[i].key
    BY IdleIsNat, IdleEdit
  <1>2. session' = [session EXCEPT ![i] = new]
    BY DEF Charge
  <1> HIDE DEF new
  <1>3. /\ session' \in [Ids -> SessionRow \cup {Unused}]
        /\ session'[i] = new /\ \A j \in Ids \ {i} : session'[j] = session[j]
        /\ \A j \in Ids : Used(j)' <=> Used(j)
        /\ KeysAreUnique'
    BY <1>1, <1>2, Touch
  <1>4. gaps' \in [Ids -> [Spans -> Nat]]
    <2> DEFINE added == [s \in Spans |-> gaps[i][s] + (IF s \in spans THEN 1 ELSE 0)]
    <2>1. gaps \in [Ids -> [Spans -> Nat]]
      BY DEF TypeOK
    <2>2. added \in [Spans -> Nat]
      BY <2>1
    <2>3. gaps' = [gaps EXCEPT ![i] = added]
      BY DEF Charge
    <2> HIDE DEF added
    <2> QED
      BY <2>1, <2>2, <2>3
  <1> QED
    BY <1>1, <1>3, <1>4

-----------------------------------------------------------------------------
\* The invariant is kept

LEMMA InitHolds == Init => SpanInv
  <1> SUFFICES ASSUME Init PROVE SpanInv
    OBVIOUS
  <1>1. 0 \in Time
    BY ClockAssumption DEF Time
  <1>2. \A i \in Ids : ~ Used(i)
    BY DEF Init, Used
  <1>3. TypeOK
    BY <1>1, <1>2 DEF Init, TypeOK, CallState, KeysAreUnique
  <1>4. CallsFit
    BY DEF Init, CallsFit, Fits, Idle
  <1> QED
    BY <1>2, <1>3, <1>4 DEF SpanInv, NotAhead, SpanIsForward

\* What a step has to show: sessions in use stay, with their check-in; and every call
\* carries on, ends, or carries something new that fits.
Kept == \A i \in Ids : Used(i) => Used(i)' /\ session'[i].in = session[i].in
CarriesOn == \A c \in Calls : call'[c] = call[c] \/ call'[c] = Idle \/ Fits(call[c])'

LEMMA Keeping ==
  ASSUME SpanInv, now' \in Time, now <= now',
         session' \in [Ids -> SessionRow \cup {Unused}], gaps' \in [Ids -> [Spans -> Nat]],
         call' \in [Calls -> CallState], KeysAreUnique',
         NotAhead', SpanIsForward', Kept, CarriesOn
  PROVE  SpanInv'
  <1>1. TypeOK'
    BY DEF TypeOK
  <1>3. ASSUME NEW c \in Calls PROVE Fits(call[c])'
    <2>1. CASE call'[c] = call[c]
      <3>1. Fits(call[c]) /\ TypeOK
        BY DEF SpanInv, CallsFit
      <3>2. call[c].at \in {"beat", "checkOut"} => call[c].id \in Ids
        BY <3>1, CallShapes DEF ById
      <3>3. call[c].at = "night" => DOMAIN call[c].close \subseteq Ids
        BY <3>1, CallShapes DEF Night
      <3>4. call[c].at = "checkIn" => call[c].t <= now'
        <4>1. call[c].at = "checkIn" => call[c].t \in Int
          BY <3>1, CallShapes DEF CheckIn, Time
        <4>2. now \in Int /\ now' \in Int /\ now <= now'
          BY <3>1 DEF TypeOK, Time
        <4> QED
          BY <3>1, <4>1, <4>2 DEF Fits
      <3> QED
        BY <2>1, <3>1, <3>2, <3>3, <3>4 DEF Fits, Kept
    <2>2. CASE call'[c] = Idle
      BY <2>2 DEF Fits, Idle
    <2> QED
      BY <1>3, <2>1, <2>2 DEF CarriesOn
  <1> QED
    BY <1>1, <1>3 DEF SpanInv, CallsFit

\* A step that only changes what one call carries.
LEMMA Loading ==
  ASSUME SpanInv, NEW c \in Calls, NEW next \in CallState, Fits(next), Become(c, next),
         UNCHANGED <<now, session, gaps>>
  PROVE  SpanInv'
  <1>1. TypeOK /\ CallsFit /\ NotAhead /\ SpanIsForward
    BY DEF SpanInv
  <1>2. call' \in [Calls -> CallState] /\ call'[c] = next
        /\ \A d \in Calls \ {c} : call'[d] = call[d]
    BY <1>1 DEF TypeOK, Become
  <1>3. CarriesOn
    BY <1>2 DEF CarriesOn, Fits, Used
  <1>4. \A i \in Ids : (Used(i)' <=> Used(i)) /\ session'[i] = session[i]
    BY DEF Used
  <1>5. Kept
    BY <1>4 DEF Kept
  <1>6. KeysAreUnique'
    BY <1>1, <1>4 DEF TypeOK, KeysAreUnique
  <1>7. now' \in Time /\ now <= now'
    BY <1>1 DEF TypeOK, Time
  <1>8. session' \in [Ids -> SessionRow \cup {Unused}] /\ gaps' \in [Ids -> [Spans -> Nat]]
    BY <1>1 DEF TypeOK
  <1>9. NotAhead' /\ SpanIsForward'
    BY <1>1, <1>4 DEF NotAhead, SpanIsForward
  <1> QED
    BY <1>2, <1>3, <1>5, <1>6, <1>7, <1>8, <1>9, Keeping

LEMMA CheckInLoadHolds ==
  ASSUME SpanInv, NEW c \in Calls, NEW u \in Users, NEW key \in Keys \cup {NoKey},
         NEW source \in Sources, CheckInLoad(c, u, key, source)
  PROVE  SpanInv'
  <1> DEFINE next == [at |-> "checkIn", user |-> u, t |-> now, source |-> source, key |-> key]
  <1>1. next \in CallState
    BY DEF SpanInv, TypeOK, CallState, CheckIn
  <1>2. Fits(next)
    BY DEF Fits, SpanInv, TypeOK, Time
  <1>3. Become(c, next) /\ UNCHANGED <<now, session, gaps>>
    BY DEF CheckInLoad, Loads
  <1> HIDE DEF next
  <1> QED
    BY <1>1, <1>2, <1>3, Loading

LEMMA HeartbeatLoadHolds ==
  ASSUME SpanInv, NEW c \in Calls, NEW u, NEW offlineAt, NEW fromDesktop,
         HeartbeatLoad(c, u, offlineAt, fromDesktop)
  PROVE  SpanInv'
  <1>1. PICK i \in FindOpen(u) \ {NoSession} :
          Become(c, [at |-> "beat", id |-> i, t |-> now,
                     spans |-> IdleSpans(session[i].beat, Replayed(i, offlineAt, fromDesktop), now)])
    BY DEF HeartbeatLoad
  <1>2. i \in Ids /\ Used(i)
    BY <1>1 DEF FindOpen, IsOpen
  <1> DEFINE spans == IdleSpans(session[i].beat, Replayed(i, offlineAt, fromDesktop), now)
             next == [at |-> "beat", id |-> i, t |-> now, spans |-> spans]
  <1>3. spans \subseteq Spans
    BY DEF IdleSpans, IdleSpansAnyLength
  <1>4. Become(c, next)
    BY <1>1
  <1> HIDE DEF spans
  <1>5. next \in CallState
    BY <1>2, <1>3 DEF SpanInv, TypeOK, CallState, ById
  <1>6. Fits(next)
    BY <1>2 DEF Fits, SpanInv, NotAhead
  <1>7. UNCHANGED <<now, session, gaps>>
    BY DEF HeartbeatLoad, Loads
  <1> HIDE DEF next
  <1> QED
    BY <1>4, <1>5, <1>6, <1>7, Loading

LEMMA CheckOutLoadHolds ==
  ASSUME SpanInv, NEW c \in Calls, NEW u, NEW reconcile, CheckOutLoad(c, u, reconcile)
  PROVE  SpanInv'
  <1>1. PICK i \in FindOpen(u) \ {NoSession} :
          Become(c, [at |-> "checkOut", id |-> i,
                     t |-> IF reconcile THEN session[i].beat ELSE now,
                     spans |-> IF reconcile THEN {} ELSE IdleSpans(session[i].beat, {}, now)])
    BY DEF CheckOutLoad
  <1>2. i \in Ids /\ Used(i)
    BY <1>1 DEF FindOpen, IsOpen
  <1> DEFINE spans == IF reconcile THEN {} ELSE IdleSpans(session[i].beat, {}, now)
             t == IF reconcile THEN session[i].beat ELSE now
             next == [at |-> "checkOut", id |-> i, t |-> t, spans |-> spans]
  <1>3. spans \subseteq Spans
    BY DEF IdleSpans, IdleSpansAnyLength
  <1>4. t \in Time /\ session[i].in <= t
    BY <1>2, UsedIsRow DEF SpanInv, NotAhead, SpanIsForward, TypeOK
  <1>5. Become(c, next)
    BY <1>1
  <1> HIDE DEF spans, t
  <1>6. next \in CallState
    BY <1>2, <1>3, <1>4 DEF CallState, ById
  <1>7. Fits(next)
    BY <1>2, <1>4 DEF Fits
  <1>8. UNCHANGED <<now, session, gaps>>
    BY DEF CheckOutLoad, Loads
  <1> HIDE DEF next
  <1> QED
    BY <1>5, <1>6, <1>7, <1>8, Loading

\* Every write ends its call, or (the nightly job) takes one session off its list.
LEMMA CallEnds ==
  ASSUME TypeOK, NEW c \in Calls, Become(c, Idle)
  PROVE  call' \in [Calls -> CallState] /\ CarriesOn
  BY DEF TypeOK, Become, CarriesOn, CallState

LEMMA CheckInWriteHolds ==
  ASSUME SpanInv, NEW c \in Calls, CheckInWrite(c)
  PROVE  SpanInv'
  <1>1. TypeOK /\ NotAhead /\ SpanIsForward /\ CallsFit
    BY DEF SpanInv
  <1>2. now' = now /\ gaps' = gaps /\ Become(c, Idle) /\ call[c].at = "checkIn" /\ Insert(c)
    BY DEF CheckInWrite, Writes
  <1>3. call' \in [Calls -> CallState] /\ CarriesOn
    BY <1>1, <1>2, CallEnds
  <1>4. now' \in Time /\ now <= now' /\ gaps' \in [Ids -> [Spans -> Nat]]
    BY <1>1, <1>2 DEF TypeOK, Time
  <1>5. CASE KeyTaken(call[c].key)
    <2>1. session' = session
      BY <1>2, <1>5 DEF Insert
    <2>2. KeysAreUnique' /\ NotAhead' /\ SpanIsForward' /\ Kept
      BY <1>1, <1>2, <2>1 DEF TypeOK, KeysAreUnique, NotAhead, SpanIsForward, Kept, Used
    <2> QED
      BY <1>1, <1>3, <1>4, <2>1, <2>2, Keeping DEF TypeOK
  <1>6. CASE ~ KeyTaken(call[c].key)
    <2> DEFINE row == [user |-> call[c].user, in |-> call[c].t, out |-> Open, beat |-> call[c].t,
                       idle |-> 0, source |-> call[c].source, key |-> call[c].key]
    <2>1. PICK i \in Ids : ~ Used(i) /\ session' = [session EXCEPT ![i] = row]
      BY <1>2, <1>6 DEF Insert, InsertAnyKey
    <2>2. call[c] \in CheckIn
      BY <1>1, <1>2, CallShapes
    <2>3. /\ row \in SessionRow /\ row.in = row.beat /\ row.out = Open /\ row.in = call[c].t
          /\ row.key = call[c].key
      BY <2>2 DEF CheckIn, SessionRow
    <2> HIDE DEF row
    <2>4. /\ session' \in [Ids -> SessionRow \cup {Unused}] /\ session'[i] = row
          /\ \A j \in Ids \ {i} : session'[j] = session[j]
      BY <1>1, <2>1, <2>3 DEF TypeOK
    <2>5. \A j \in Ids \ {i} : Used(j)' <=> Used(j)
      BY <2>4 DEF Used
    <2>6. KeysAreUnique'
      BY <1>1, <1>6, <2>3, <2>4, <2>5 DEF TypeOK, KeysAreUnique, KeyTaken
    <2>7. Kept
      BY <2>1, <2>4, <2>5 DEF Kept
    <2>8. call[c].t <= now
      BY <1>1, <1>2 DEF CallsFit, Fits
    <2>9. row.in \in Int
      BY <2>3 DEF SessionRow, Time
    <2>10. NotAhead'
      BY <1>1, <1>2, <2>3, <2>4, <2>5, <2>8 DEF NotAhead
    <2>11. SpanIsForward'
      <3>1. session'[i].in <= session'[i].beat /\ session'[i].out = Open
        <4>1. row.in <= row.beat /\ row.out = Open
          BY <2>3, <2>9
        <4> QED
          BY <2>4, <4>1
      <3>2. ASSUME NEW j \in Ids \ {i}, Used(j)'
            PROVE  /\ session'[j].in <= session'[j].beat
                   /\ session'[j].out # Open => session'[j].in <= session'[j].out
        BY <1>1, <2>4, <2>5, <3>2 DEF SpanIsForward
      <3> QED
        BY <3>1, <3>2 DEF SpanIsForward
    <2> QED
      BY <1>3, <1>4, <2>4, <2>6, <2>7, <2>10, <2>11, Keeping
  <1> QED
    BY <1>5, <1>6

\* One session in use is written, and stays forward.
LEMMA Writing ==
  ASSUME SpanInv, NEW i \in Ids, Used(i), now' = now,
         session' \in [Ids -> SessionRow \cup {Unused}], gaps' \in [Ids -> [Spans -> Nat]],
         call' \in [Calls -> CallState], CarriesOn, KeysAreUnique',
         \A j \in Ids : Used(j)' <=> Used(j),
         \A j \in Ids \ {i} : session'[j] = session[j],
         session'[i].in = session[i].in, session'[i].in <= session'[i].beat,
         session'[i].out # Open => session'[i].in <= session'[i].out
  PROVE  SpanInv'
  <1>1. TypeOK /\ NotAhead /\ SpanIsForward
    BY DEF SpanInv
  <1>2. now' \in Time /\ now <= now'
    BY <1>1 DEF TypeOK, Time
  <1>3. Kept
    BY DEF Kept
  <1>4. NotAhead' /\ SpanIsForward'
    BY <1>1 DEF NotAhead, SpanIsForward
  <1> QED
    BY <1>2, <1>3, <1>4, Keeping

LEMMA HeartbeatWriteHolds ==
  ASSUME SpanInv, NEW c \in Calls, HeartbeatWrite(c)
  PROVE  SpanInv'
  <1>1. TypeOK /\ CallsFit /\ SpanIsForward
    BY DEF SpanInv
  <1>2. call[c].at = "beat" /\ Become(c, Idle) /\ now' = now
    BY DEF HeartbeatWrite, Writes
  <1>3. PICK i, t, spans : i = call[c].id /\ t = call[c].t /\ spans = call[c].spans
    OBVIOUS
  <1>4. i \in Ids /\ t \in Time /\ Used(i) /\ session[i].in <= t
    BY <1>1, <1>2, <1>3, CallShapes DEF ById, CallsFit, Fits
  <1> DEFINE row == [session[i] EXCEPT !.beat = t]
  <1>5. session[i] \in SessionRow
    BY <1>1, <1>4, UsedIsRow
  <1>6. /\ row \in SessionRow /\ row.key = session[i].key /\ row.in = session[i].in
        /\ row.out = session[i].out /\ row.beat = t
    BY <1>4, <1>5, RowEdits
  <1>7. Charge(i, spans, row)
    BY <1>3 DEF HeartbeatWrite
  <1> HIDE DEF row
  <1>8. call' \in [Calls -> CallState] /\ CarriesOn
    BY <1>1, <1>2, CallEnds
  <1>9. /\ session' \in [Ids -> SessionRow \cup {Unused}] /\ gaps' \in [Ids -> [Spans -> Nat]]
        /\ session'[i].in = row.in /\ session'[i].out = row.out /\ session'[i].beat = row.beat
        /\ \A j \in Ids \ {i} : session'[j] = session[j]
        /\ \A j \in Ids : Used(j)' <=> Used(j)
        /\ KeysAreUnique'
    BY <1>1, <1>4, <1>6, <1>7, Charging
  <1>10. row.out # Open => row.in <= row.out
    BY <1>1, <1>4, <1>6 DEF SpanIsForward
  <1> QED
    BY <1>2, <1>4, <1>6, <1>8, <1>9, <1>10, Writing

LEMMA CheckOutWriteHolds ==
  ASSUME SpanInv, NEW c \in Calls, CheckOutWrite(c)
  PROVE  SpanInv'
  <1>1. TypeOK /\ CallsFit /\ SpanIsForward
    BY DEF SpanInv
  <1>2. call[c].at = "checkOut" /\ Become(c, Idle) /\ now' = now
    BY DEF CheckOutWrite, Writes
  <1>3. PICK i, t, spans : i = call[c].id /\ t = call[c].t /\ spans = call[c].spans
    OBVIOUS
  <1>4. i \in Ids /\ t \in Time /\ Used(i) /\ session[i].in <= t
    BY <1>1, <1>2, <1>3, CallShapes DEF ById, CallsFit, Fits
  <1> DEFINE row == [session[i] EXCEPT !.out = t]
  <1>5. session[i] \in SessionRow
    BY <1>1, <1>4, UsedIsRow
  <1>6. /\ row \in SessionRow /\ row.key = session[i].key /\ row.in = session[i].in
        /\ row.out = t /\ row.beat = session[i].beat
    BY <1>4, <1>5, RowEdits
  <1>7. Charge(i, spans, row)
    BY <1>3 DEF CheckOutWrite
  <1> HIDE DEF row
  <1>8. call' \in [Calls -> CallState] /\ CarriesOn
    BY <1>1, <1>2, CallEnds
  <1>9. /\ session' \in [Ids -> SessionRow \cup {Unused}] /\ gaps' \in [Ids -> [Spans -> Nat]]
        /\ session'[i].in = row.in /\ session'[i].out = row.out /\ session'[i].beat = row.beat
        /\ \A j \in Ids \ {i} : session'[j] = session[j]
        /\ \A j \in Ids : Used(j)' <=> Used(j)
        /\ KeysAreUnique'
    BY <1>1, <1>4, <1>6, <1>7, Charging
  <1>10. row.in <= row.beat
    BY <1>1, <1>4, <1>6 DEF SpanIsForward
  <1> QED
    BY <1>2, <1>4, <1>6, <1>8, <1>9, <1>10, Writing

LEMMA NightlyReadHolds ==
  ASSUME SpanInv, NEW c \in Calls, NightlyRead(c)
  PROVE  SpanInv'
  <1>1. TypeOK /\ SpanIsForward
    BY DEF SpanInv
  <1> DEFINE stale == {i \in Ids : Stale(i)}
             close == [i \in stale |-> CloseAt(i)]
             next == [at |-> "night", close |-> close]
  <1>2. Become(c, next) /\ UNCHANGED <<now, session, gaps>>
    BY DEF NightlyRead
  <1>3. ASSUME NEW i \in stale PROVE Used(i) /\ CloseAt(i) \in Time /\ session[i].in <= CloseAt(i)
    <2>1. i \in Ids /\ Used(i)
      BY DEF Stale, IsOpen
    <2>2. session[i].in \in Time /\ session[i].beat \in Time /\ session[i].in <= session[i].beat
      BY <1>1, <2>1, UsedIsRow DEF SpanIsForward
    <2>3. EndOfDay(session[i].in) \in Int /\ session[i].in <= EndOfDay(session[i].in)
      BY <2>2, DayEnds DEF Time
    <2>4. LastTick \in Nat
      BY ClockAssumption
    <2> QED
      BY <2>1, <2>2, <2>3, <2>4 DEF CloseAt, Time
  <1>4. close \in [stale -> Time] /\ stale \in SUBSET Ids
    BY <1>3
  <1>5. next \in CallState
    BY <1>4 DEF CallState, Night
  <1>6. Fits(next)
    BY <1>3 DEF Fits
  <1> HIDE DEF next
  <1> QED
    BY <1>2, <1>5, <1>6, Loading

LEMMA NightlyWriteHolds ==
  ASSUME SpanInv, NEW c \in Calls, NightlyWrite(c)
  PROVE  SpanInv'
  <1>1. TypeOK /\ CallsFit /\ SpanIsForward
    BY DEF SpanInv
  <1>2. call[c].at = "night" /\ now' = now /\ gaps' = gaps
    BY DEF NightlyWrite
  <1>3. PICK close : close = call[c].close
    OBVIOUS
  <1>4. PICK i \in DOMAIN close :
          /\ session' = [session EXCEPT ![i] = [session[i] EXCEPT !.out = close[i]]]
          /\ Become(c, IF DOMAIN close \ {i} = {} THEN Idle
                       ELSE [at |-> "night", close |-> [j \in DOMAIN close \ {i} |-> close[j]]])
    BY <1>3 DEF NightlyWrite
  <1>5. DOMAIN close \subseteq Ids /\ close \in [DOMAIN close -> Time]
    BY <1>1, <1>2, <1>3, CallShapes DEF Night
  <1>6. \A j \in DOMAIN close : Used(j) /\ session[j].in <= close[j]
    BY <1>1, <1>2, <1>3 DEF CallsFit, Fits
  <1> DEFINE row == [session[i] EXCEPT !.out = close[i]]
             rest == [j \in DOMAIN close \ {i} |-> close[j]]
             next == IF DOMAIN close \ {i} = {} THEN Idle ELSE [at |-> "night", close |-> rest]
  <1>7. session[i] \in SessionRow /\ close[i] \in Time /\ i \in Ids
    BY <1>1, <1>5, <1>6, UsedIsRow
  <1>8. /\ row \in SessionRow /\ row.key = session[i].key /\ row.in = session[i].in
        /\ row.out = close[i] /\ row.beat = session[i].beat
    BY <1>7, RowEdits
  <1>9. session' = [session EXCEPT ![i] = row] /\ Become(c, next)
    BY <1>4
  <1>10. next \in CallState
    <2>1. rest \in [DOMAIN close \ {i} -> Time] /\ DOMAIN close \ {i} \in SUBSET Ids
      BY <1>5
    <2> HIDE DEF rest
    <2> QED
      BY <2>1 DEF CallState, Night
  <1> HIDE DEF row
  <1>11. /\ session' \in [Ids -> SessionRow \cup {Unused}]
         /\ session'[i] = row /\ \A j \in Ids \ {i} : session'[j] = session[j]
         /\ \A j \in Ids : Used(j)' <=> Used(j)
         /\ KeysAreUnique'
    BY <1>1, <1>6, <1>7, <1>8, <1>9, Touch
  <1>12. Fits(next)'
    <2>1. \A j \in DOMAIN rest : Used(j)' /\ session'[j].in <= rest[j]
      BY <1>5, <1>6, <1>11
    <2> HIDE DEF rest
    <2> QED
      BY <2>1 DEF Fits, Idle
  <1> HIDE DEF next
  <1>13. call' \in [Calls -> CallState] /\ call'[c] = next
         /\ \A d \in Calls \ {c} : call'[d] = call[d]
    BY <1>1, <1>9, <1>10 DEF TypeOK, Become
  <1>14. CarriesOn
    BY <1>12, <1>13 DEF CarriesOn, Fits
  <1>15. session[i].in <= session[i].beat /\ session[i].in <= close[i]
    BY <1>1, <1>6, <1>7 DEF SpanIsForward
  <1>16. gaps' \in [Ids -> [Spans -> Nat]]
    BY <1>1, <1>2 DEF TypeOK
  <1> QED
    BY <1>2, <1>6, <1>7, <1>8, <1>11, <1>13, <1>14, <1>15, <1>16, Writing

LEMMA RestartHolds == ASSUME SpanInv, Restart PROVE SpanInv'
  <1>1. TypeOK /\ NotAhead /\ SpanIsForward
    BY DEF SpanInv
  <1>2. UNCHANGED <<now, session, gaps>> /\ call' = [c \in Calls |-> Idle]
    BY DEF Restart
  <1>3. call' \in [Calls -> CallState] /\ CarriesOn
    BY <1>2 DEF CarriesOn, CallState
  <1>4. KeysAreUnique' /\ NotAhead' /\ SpanIsForward' /\ Kept
    BY <1>1, <1>2 DEF TypeOK, KeysAreUnique, NotAhead, SpanIsForward, Kept, Used
  <1> QED
    BY <1>1, <1>2, <1>3, <1>4, Keeping DEF TypeOK, Time

LEMMA TickHolds == ASSUME SpanInv, Tick PROVE SpanInv'
  <1>1. TypeOK /\ NotAhead /\ SpanIsForward
    BY DEF SpanInv
  <1>2. now' \in Time /\ now <= now' /\ now \in Int /\ UNCHANGED <<session, gaps, call>>
    BY <1>1, ClockAssumption DEF Tick, TypeOK, Time
  <1>3. KeysAreUnique' /\ SpanIsForward' /\ Kept /\ CarriesOn
    BY <1>1, <1>2 DEF TypeOK, KeysAreUnique, SpanIsForward, Kept, Used, CarriesOn
  <1>4. NotAhead'
    <2>1. \A i \in Ids : Used(i) => session[i].in \in Int /\ session[i].in <= now
      BY <1>1, UsedIsRow DEF NotAhead, Time
    <2>2. now' \in Int
      BY <1>2 DEF Time
    <2> QED
      BY <1>2, <2>1, <2>2 DEF NotAhead, Used
  <1> QED
    BY <1>1, <1>2, <1>3, <1>4, Keeping DEF TypeOK

LEMMA StepHolds == SpanInv /\ [Next]_vars => SpanInv'
  <1> SUFFICES ASSUME SpanInv, [Next]_vars PROVE SpanInv'
    OBVIOUS
  <1>1. CASE UNCHANGED vars
    <2>1. UNCHANGED <<now, session, gaps, call>>
      BY <1>1 DEF vars
    <2>2. KeysAreUnique' /\ NotAhead' /\ SpanIsForward' /\ Kept /\ CarriesOn
      BY <2>1 DEF SpanInv, TypeOK, KeysAreUnique, NotAhead, SpanIsForward, Kept, CarriesOn, Used
    <2> QED
      BY <2>1, <2>2, Keeping DEF SpanInv, TypeOK, Time
  <1>2. CASE Tick
    BY <1>2, TickHolds
  <1>3. CASE Restart
    BY <1>3, RestartHolds
  <1>4. ASSUME NEW c \in Calls, StaffStep(c) PROVE SpanInv'
    <2>1. CASE \E u \in Users, key \in Keys \cup {NoKey}, source \in Sources :
                 CheckInLoad(c, u, key, source)
      BY <2>1, CheckInLoadHolds
    <2>2. CASE \E u \in Users, offlineAt \in SUBSET (0 .. now), fromDesktop \in BOOLEAN :
                 HeartbeatLoad(c, u, offlineAt, fromDesktop)
      BY <2>2, HeartbeatLoadHolds
    <2>3. CASE \E u \in Users, reconcile \in BOOLEAN : CheckOutLoad(c, u, reconcile)
      BY <2>3, CheckOutLoadHolds
    <2>4. CASE CheckInWrite(c) \/ HeartbeatWrite(c) \/ CheckOutWrite(c)
      BY <2>4, CheckInWriteHolds, HeartbeatWriteHolds, CheckOutWriteHolds
    <2> QED
      BY <1>4, <2>1, <2>2, <2>3, <2>4 DEF StaffStep
  <1>5. ASSUME NEW c \in Calls, NightlyStep(c) PROVE SpanInv'
    BY <1>5, NightlyReadHolds, NightlyWriteHolds DEF NightlyStep
  <1> QED
    BY <1>1, <1>2, <1>3, <1>4, <1>5 DEF Next

THEOREM SpanInvHolds == Spec => []SpanInv
  <1>1. Init => SpanInv
    BY InitHolds
  <1>2. SpanInv /\ [Next]_vars => SpanInv'
    BY StepHolds
  <1> QED
    BY <1>1, <1>2, PTL DEF Spec

\* Rows and calls keep their types, and retry keys stay unique, under any interleaving of any
\* number of calls and restarts.
THEOREM TypeCorrect == Spec => []TypeOK
  BY SpanInvHolds, PTL DEF SpanInv

\* No race of any number of heartbeats, check-outs, reconciliations and nightly runs closes a
\* session before its check-in.
THEOREM SpansAreForward == Spec => []SpanIsForward
  BY SpanInvHolds, PTL DEF SpanInv

-----------------------------------------------------------------------------
\* A closed session

\* A step that takes up no closed session, and writes only by the calls under way.
ByCalls(i) ==
  /\ session'[i] # session[i] \/ gaps'[i] # gaps[i] => ~ Used(i) \/ \E c \in Calls : UnderWay(c, i)
  /\ \A c \in Calls : UnderWay(c, i)' => UnderWay(c, i) \/ IsOpen(i)

LEMMA FoundIsOpen ==
  ASSUME NEW u, NEW i \in FindOpen(u) \ {NoSession}
  PROVE  i \in Ids /\ IsOpen(i)
  BY DEF FindOpen

LEMMA BecomeIs ==
  ASSUME TypeOK, NEW c \in Calls, NEW next, Become(c, next)
  PROVE  call'[c] = next /\ \A d \in Calls \ {c} : call'[d] = call[d]
  BY DEF TypeOK, Become

\* A load of a call, which leaves the tables alone.
LEMMA LoadIsByCalls ==
  ASSUME TypeOK, NEW c \in Calls, NEW next, Become(c, next), UNCHANGED <<session, gaps>>,
         NEW i \in Ids,
         next.at \in {"beat", "checkOut"} /\ next.id = i => IsOpen(i),
         next.at = "night" /\ i \in DOMAIN next.close => IsOpen(i) \/ UnderWay(c, i)
  PROVE  ByCalls(i)
  <1>1. call'[c] = next /\ \A d \in Calls \ {c} : call'[d] = call[d]
    BY BecomeIs
  <1> QED
    BY <1>1 DEF ByCalls, UnderWay

\* A write to one row, at the end of a call.
LEMMA WriteIsByCalls ==
  ASSUME TypeOK, NEW c \in Calls, NEW next, Become(c, next),
         NEW i \in Ids, NEW j \in Ids, (session'[j] = session[j] /\ gaps'[j] = gaps[j]) \/ j = i,
         ~ Used(i) \/ UnderWay(c, i),
         next = Idle \/ (next.at = "night" /\ (j \in DOMAIN next.close => UnderWay(c, j)))
  PROVE  ByCalls(j)
  <1>1. call'[c] = next /\ \A d \in Calls \ {c} : call'[d] = call[d]
    BY BecomeIs
  <1> QED
    BY <1>1 DEF ByCalls, UnderWay, Idle

LEMMA StepIsByCalls ==
  ASSUME SpanInv, [Next]_vars, NEW j \in Ids
  PROVE  ByCalls(j)
  <1>1. TypeOK /\ StaffCalls \subseteq Calls /\ NightlyCalls \subseteq Calls
    BY DEF SpanInv, Calls
  <1>2. CASE UNCHANGED vars \/ Tick
    BY <1>2 DEF vars, Tick, ByCalls, UnderWay
  <1>3. CASE Restart
    BY <1>3 DEF Restart, ByCalls, UnderWay, Idle
  <1>4. ASSUME NEW c \in StaffCalls, NEW u, NEW key, NEW source, CheckInLoad(c, u, key, source)
        PROVE  ByCalls(j)
    <2> DEFINE x == [at |-> "checkIn", user |-> u, t |-> now, source |-> source, key |-> key]
    <2>1. Become(c, x) /\ UNCHANGED <<session, gaps>> /\ x.at = "checkIn"
      BY <1>4 DEF CheckInLoad, Loads
    <2> HIDE DEF x
    <2> QED
      BY <1>1, <2>1, LoadIsByCalls
  <1>5. ASSUME NEW c \in StaffCalls, NEW u, NEW offlineAt, NEW fromDesktop,
               HeartbeatLoad(c, u, offlineAt, fromDesktop)
        PROVE  ByCalls(j)
    <2>1. PICK i \in FindOpen(u) \ {NoSession} :
            \E spans : Become(c, [at |-> "beat", id |-> i, t |-> now, spans |-> spans])
      BY <1>5 DEF HeartbeatLoad
    <2>3. PICK spans : Become(c, [at |-> "beat", id |-> i, t |-> now, spans |-> spans])
      BY <2>1
    <2> DEFINE x == [at |-> "beat", id |-> i, t |-> now, spans |-> spans]
    <2>2. Become(c, x) /\ UNCHANGED <<session, gaps>> /\ x.at = "beat" /\ x.id = i
      BY <1>5, <2>3 DEF HeartbeatLoad, Loads
    <2> HIDE DEF x
    <2> QED
      BY <1>1, <2>2, FoundIsOpen, LoadIsByCalls
  <1>6. ASSUME NEW c \in StaffCalls, NEW u, NEW reconcile, CheckOutLoad(c, u, reconcile)
        PROVE  ByCalls(j)
    <2>1. PICK i \in FindOpen(u) \ {NoSession} :
            \E t, spans : Become(c, [at |-> "checkOut", id |-> i, t |-> t, spans |-> spans])
      BY <1>6 DEF CheckOutLoad
    <2>3. PICK t, spans : Become(c, [at |-> "checkOut", id |-> i, t |-> t, spans |-> spans])
      BY <2>1
    <2> DEFINE x == [at |-> "checkOut", id |-> i, t |-> t, spans |-> spans]
    <2>2. Become(c, x) /\ UNCHANGED <<session, gaps>> /\ x.at = "checkOut" /\ x.id = i
      BY <1>6, <2>3 DEF CheckOutLoad, Loads
    <2> HIDE DEF x
    <2> QED
      BY <1>1, <2>2, FoundIsOpen, LoadIsByCalls
  <1>7. ASSUME NEW c \in StaffCalls, CheckInWrite(c) PROVE ByCalls(j)
    <2>1. Become(c, Idle) /\ UNCHANGED gaps /\ Insert(c)
      BY <1>7 DEF CheckInWrite, Writes
    <2>2. CASE UNCHANGED session
      BY <1>1, <2>1, <2>2, LoadIsByCalls DEF Idle
    <2>3. ASSUME NEW i \in Ids, ~ Used(i), NEW row, session' = [session EXCEPT ![i] = row]
          PROVE  ByCalls(j)
      <3>1. j = i \/ session'[j] = session[j]
        BY <1>1, <2>3 DEF TypeOK
      <3> QED
        BY <1>1, <2>1, <2>3, <3>1, WriteIsByCalls
    <2> QED
      BY <2>1, <2>2, <2>3 DEF Insert, InsertAnyKey
  <1>8. ASSUME NEW c \in StaffCalls, NEW i \in Ids, NEW spans, NEW row, Charge(i, spans, row),
               Become(c, Idle), UnderWay(c, i)
        PROVE  ByCalls(j)
    <2>1. j = i \/ (session'[j] = session[j] /\ gaps'[j] = gaps[j])
      BY <1>1, <1>8 DEF Charge, TypeOK
    <2> QED
      BY <1>1, <1>8, <2>1, WriteIsByCalls
  <1>9. ASSUME NEW c \in StaffCalls, HeartbeatWrite(c) \/ CheckOutWrite(c) PROVE ByCalls(j)
    <2>1. call[c].at \in {"beat", "checkOut"} /\ Become(c, Idle)
      BY <1>9 DEF HeartbeatWrite, CheckOutWrite, Writes
    <2>2. PICK i : i = call[c].id
      OBVIOUS
    <2>3. i \in Ids /\ UnderWay(c, i)
      BY <1>1, <2>1, <2>2, CallShapes DEF ById, UnderWay
    <2>4. \E spans, row : Charge(i, spans, row)
      BY <1>9, <2>2 DEF HeartbeatWrite, CheckOutWrite
    <2> QED
      BY <1>8, <2>1, <2>3, <2>4
  <1>10. ASSUME NEW c \in NightlyCalls, NightlyRead(c) PROVE ByCalls(j)
    <2> DEFINE stale == {i \in Ids : Stale(i)}
               x == [at |-> "night", close |-> [i \in stale |-> CloseAt(i)]]
    <2>1. Become(c, x) /\ UNCHANGED <<session, gaps>>
      BY <1>10 DEF NightlyRead
    <2>2. x.at = "night" /\ (j \in DOMAIN x.close => IsOpen(j))
      BY DEF Stale
    <2> HIDE DEF x
    <2> QED
      BY <1>1, <2>1, <2>2, LoadIsByCalls
  <1>11. ASSUME NEW c \in NightlyCalls, NightlyWrite(c) PROVE ByCalls(j)
    <2>1. PICK close : close = call[c].close /\ call[c].at = "night" /\ UNCHANGED gaps
      BY <1>11 DEF NightlyWrite
    <2> DEFINE Rest(i) == IF DOMAIN close \ {i} = {} THEN Idle
                          ELSE [at |-> "night", close |-> [k \in DOMAIN close \ {i} |-> close[k]]]
    <2>2. PICK i \in DOMAIN close :
            /\ session' = [session EXCEPT ![i] = [session[i] EXCEPT !.out = close[i]]]
            /\ Become(c, Rest(i))
      BY <1>11, <2>1 DEF NightlyWrite
    <2>3. i \in Ids /\ UnderWay(c, i)
      BY <1>1, <2>1, <2>2, CallShapes DEF Night, UnderWay
    <2>4. j = i \/ session'[j] = session[j]
      BY <1>1, <2>2 DEF TypeOK
    <2>5. PICK x : x = Rest(i)
      OBVIOUS
    <2>6. x = Idle \/ (x.at = "night" /\ (j \in DOMAIN x.close => UnderWay(c, j)))
      BY <2>1, <2>5 DEF UnderWay
    <2> HIDE DEF Rest
    <2> QED
      BY <1>1, <2>1, <2>2, <2>3, <2>4, <2>5, <2>6, WriteIsByCalls
  <1> QED
    BY <1>2, <1>3, <1>4, <1>5, <1>6, <1>7, <1>9, <1>10, <1>11 DEF Next, StaffStep, NightlyStep, Calls,
       Loads, Writes, CheckInLoad, HeartbeatLoad, CheckOutLoad, CheckInWrite, HeartbeatWrite,
       CheckOutWrite, NightlyRead, NightlyWrite

\* Under any interleaving of any number of calls, nightly runs and restarts: once the writes that
\* had read a session while it was open have landed or died, the closed session never changes
\* again, nor do the idle stretches charged to it.
THEOREM ClosedSessionsAreFinal == Spec => ClosedIsFinal
  <1>1. ASSUME SpanInv, [Next]_vars, NEW i \in Ids, Final(i)
        PROVE  session'[i] = session[i] /\ gaps'[i] = gaps[i] /\ Final(i)'
    <2>1. ByCalls(i)
      BY <1>1, StepIsByCalls
    <2> QED
      BY <1>1, <2>1 DEF ByCalls, Final, Used, IsOpen
  <1>2. SpanInv /\ [Next]_vars
          => [\A i \in Ids : Final(i) => /\ session'[i] = session[i] /\ gaps'[i] = gaps[i]
                                         /\ Final(i)']_vars
    BY <1>1
  <1> QED
    BY <1>2, SpanInvHolds, PTL DEF Spec, ClosedIsFinal

-----------------------------------------------------------------------------
\* One open session per user, while the employees' calls come one at a time

NoneOpen(u) == \A i \in Ids : IsOpen(i) => session[i].user # u
CheckInsAreFree == \A c \in StaffCalls : call[c].at = "checkIn" => NoneOpen(call[c].user)

\* A step that opens no session and starts no check-in it may not.
OpensNone == \A i \in Ids : IsOpen(i)' => IsOpen(i) /\ session'[i].user = session[i].user
StartsFree ==
  \A c \in StaffCalls : call'[c].at = "checkIn" => call'[c] = call[c] \/ NoneOpen(call'[c].user)

LEMMA OpeningNone ==
  ASSUME OneOpenSession, CheckInsAreFree, OpensNone, StartsFree
  PROVE  OneOpenSession' /\ CheckInsAreFree'
  <1>1. OneOpenSession'
    BY DEF OneOpenSession, OpensNone
  <1>2. CheckInsAreFree'
    BY DEF CheckInsAreFree, NoneOpen, OpensNone, StartsFree
  <1> QED
    BY <1>1, <1>2

LEMMA ChargeOpensNone ==
  ASSUME TypeOK, NEW i \in Ids, Used(i), NEW row \in SessionRow, row.key = session[i].key,
         row.user = session[i].user, row.out = Open => IsOpen(i), NEW spans, Charge(i, spans, row)
  PROVE  OpensNone
  <1>1. /\ session'[i].user = row.user /\ session'[i].out = row.out
        /\ \A j \in Ids \ {i} : session'[j] = session[j]
        /\ \A j \in Ids : Used(j)' <=> Used(j)
    BY Charging
  <1> QED
    BY <1>1 DEF OpensNone, IsOpen

LEMMA EndsFree ==
  ASSUME TypeOK, NEW c \in Calls, NEW next, Become(c, next), next.at # "checkIn"
  PROVE  StartsFree
  BY DEF TypeOK, Become, StartsFree, Calls

LEMMA OneOpenStep ==
  ASSUME \A c, d \in StaffCalls : c = d, SpanInv, OneOpenSession, CheckInsAreFree, [Next]_vars
  PROVE  OneOpenSession' /\ CheckInsAreFree'
  <1>1. TypeOK /\ CallsFit
    BY DEF SpanInv
  <1>2. CASE UNCHANGED <<session, call>>
    BY <1>2, OpeningNone DEF OpensNone, StartsFree, IsOpen, Used
  <1>3. CASE Restart
    <2>1. session' = session /\ call' = [c \in Calls |-> Idle]
      BY <1>3 DEF Restart
    <2>2. StartsFree
      BY <2>1 DEF StartsFree, Idle, Calls
    <2> QED
      BY <2>1, <2>2, OpeningNone DEF OpensNone, IsOpen, Used
  <1>4. ASSUME NEW c \in Calls, StaffStep(c) PROVE OneOpenSession' /\ CheckInsAreFree'
    <2>1. ASSUME NEW u \in Users, NEW key, NEW source, CheckInLoad(c, u, key, source)
          PROVE  OneOpenSession' /\ CheckInsAreFree'
      <3>1. /\ session' = session /\ MayCheckIn(u)
            /\ Become(c, [at |-> "checkIn", user |-> u, t |-> now, source |-> source, key |-> key])
        BY <2>1 DEF CheckInLoad, Loads
      <3>2. NoneOpen(u)
        <4>1. SUFFICES ASSUME NEW i \in Ids, IsOpen(i), session[i].user = u PROVE FALSE
          BY DEF NoneOpen
        <4>2. NoSession \in FindOpen(u) /\ NoSession \notin Ids
          BY <3>1, NamesAssumption DEF MayCheckIn
        <4> QED
          BY <4>1, <4>2 DEF FindOpen
      <3>3. StartsFree
        BY <1>1, <3>1, <3>2 DEF TypeOK, Become, StartsFree, Calls
      <3> QED
        BY <3>1, <3>3, OpeningNone DEF OpensNone, IsOpen, Used
    <2>2. ASSUME NEW u \in Users, NEW offlineAt, NEW fromDesktop,
                 HeartbeatLoad(c, u, offlineAt, fromDesktop)
          PROVE  OneOpenSession' /\ CheckInsAreFree'
      <3>1. session' = session /\ \E next : Become(c, next) /\ next.at # "checkIn"
        BY <2>2 DEF HeartbeatLoad, Loads
      <3>2. StartsFree
        BY <1>1, <3>1, EndsFree
      <3> QED
        BY <3>1, <3>2, OpeningNone DEF OpensNone, IsOpen, Used
    <2>3. ASSUME NEW u \in Users, NEW reconcile, CheckOutLoad(c, u, reconcile)
          PROVE  OneOpenSession' /\ CheckInsAreFree'
      <3>1. session' = session /\ \E next : Become(c, next) /\ next.at # "checkIn"
        BY <2>3 DEF CheckOutLoad, Loads
      <3>2. StartsFree
        BY <1>1, <3>1, EndsFree
      <3> QED
        BY <3>1, <3>2, OpeningNone DEF OpensNone, IsOpen, Used
    <2>4. CASE CheckInWrite(c)
      <3>1. c \in StaffCalls /\ call[c].at = "checkIn" /\ Become(c, Idle) /\ Insert(c)
        BY <2>4 DEF CheckInWrite, Writes
      <3>2. NoneOpen(call[c].user)
        BY <3>1 DEF CheckInsAreFree
      <3>3. call' = [call EXCEPT ![c] = Idle] /\ \A d \in StaffCalls : d = c
        BY <3>1 DEF Become
      <3>4. \A d \in StaffCalls : call'[d].at # "checkIn"
        BY <1>1, <3>1, <3>3 DEF TypeOK, Idle
      <3>5. CASE session' = session
        BY <3>4, <3>5, OpeningNone DEF OpensNone, StartsFree, IsOpen, Used
      <3>6. CASE InsertAnyKey(c)
        <4>1. PICK u : u = call[c].user
          OBVIOUS
        <4>2. PICK i \in Ids : /\ ~ Used(i) /\ session'[i].user = u
                              /\ \A j \in Ids \ {i} : session'[j] = session[j]
          BY <1>1, <3>6, <4>1 DEF InsertAnyKey, TypeOK
        <4>3. \A j \in Ids \ {i} : IsOpen(j)' <=> IsOpen(j)
          BY <4>2 DEF IsOpen, Used
        <4>4. \A j \in Ids \ {i} : IsOpen(j)' => session'[j].user # u
          BY <3>2, <4>1, <4>2, <4>3 DEF NoneOpen
        <4>5. OneOpenSession'
          BY <4>2, <4>3, <4>4 DEF OneOpenSession
        <4> QED
          BY <3>4, <4>5 DEF CheckInsAreFree
      <3> QED
        BY <3>1, <3>5, <3>6 DEF Insert
    <2>5. CASE HeartbeatWrite(c)
      <3>1. call[c].at = "beat" /\ Become(c, Idle)
        BY <2>5 DEF HeartbeatWrite, Writes
      <3>2. PICK i, t, spans : i = call[c].id /\ t = call[c].t /\ spans = call[c].spans
        OBVIOUS
      <3>3. i \in Ids /\ t \in Time /\ Used(i) /\ session[i] \in SessionRow
        BY <1>1, <3>1, <3>2, CallShapes, UsedIsRow DEF ById, CallsFit, Fits
      <3> DEFINE row == [session[i] EXCEPT !.beat = t]
      <3>4. /\ row \in SessionRow /\ row.key = session[i].key /\ row.user = session[i].user
            /\ row.out = session[i].out
        BY <3>3, RowEdits
      <3>5. Charge(i, spans, row)
        BY <2>5, <3>2 DEF HeartbeatWrite
      <3> HIDE DEF row
      <3>6. OpensNone
        BY <1>1, <3>3, <3>4, <3>5, ChargeOpensNone DEF IsOpen
      <3>7. StartsFree
        BY <1>1, <3>1, EndsFree DEF Idle
      <3> QED
        BY <3>6, <3>7, OpeningNone
    <2>6. CASE CheckOutWrite(c)
      <3>1. call[c].at = "checkOut" /\ Become(c, Idle)
        BY <2>6 DEF CheckOutWrite, Writes
      <3>2. PICK i, t, spans : i = call[c].id /\ t = call[c].t /\ spans = call[c].spans
        OBVIOUS
      <3>3. i \in Ids /\ t \in Time /\ Used(i) /\ session[i] \in SessionRow
        BY <1>1, <3>1, <3>2, CallShapes, UsedIsRow DEF ById, CallsFit, Fits
      <3> DEFINE row == [session[i] EXCEPT !.out = t]
      <3>4. /\ row \in SessionRow /\ row.key = session[i].key /\ row.user = session[i].user
            /\ row.out = t
        BY <3>3, RowEdits
      <3>5. Charge(i, spans, row)
        BY <2>6, <3>2 DEF CheckOutWrite
      <3> HIDE DEF row
      <3>6. t # Open
        BY <3>3 DEF Time, Open
      <3>7. OpensNone
        BY <1>1, <3>3, <3>4, <3>5, <3>6, ChargeOpensNone
      <3>8. StartsFree
        BY <1>1, <3>1, EndsFree DEF Idle
      <3> QED
        BY <3>7, <3>8, OpeningNone
    <2> QED
      BY <1>4, <2>1, <2>2, <2>3, <2>4, <2>5, <2>6 DEF StaffStep
  <1>5. ASSUME NEW c \in Calls, NightlyRead(c) PROVE OneOpenSession' /\ CheckInsAreFree'
    <2>1. session' = session /\ \E next : Become(c, next) /\ next.at # "checkIn"
      BY <1>5 DEF NightlyRead
    <2>2. StartsFree
      BY <1>1, <2>1, EndsFree
    <2> QED
      BY <2>1, <2>2, OpeningNone DEF OpensNone, IsOpen, Used
  <1>6. ASSUME NEW c \in Calls, NightlyWrite(c) PROVE OneOpenSession' /\ CheckInsAreFree'
    <2>1. PICK close : close = call[c].close /\ call[c].at = "night"
      BY <1>6 DEF NightlyWrite
    <2> DEFINE Left(i) == IF DOMAIN close \ {i} = {} THEN Idle
                          ELSE [at |-> "night", close |-> [j \in DOMAIN close \ {i} |-> close[j]]]
    <2>2. PICK i \in DOMAIN close :
            /\ session' = [session EXCEPT ![i] = [session[i] EXCEPT !.out = close[i]]]
            /\ Become(c, Left(i))
      BY <1>6, <2>1 DEF NightlyWrite
    <2>8. Left(i).at # "checkIn"
      BY DEF Idle
    <2> HIDE DEF Left
    <2>3. i \in Ids /\ close[i] \in Time /\ Used(i) /\ session[i] \in SessionRow
      BY <1>1, <2>1, <2>2, CallShapes, UsedIsRow DEF Night, CallsFit, Fits
    <2>4. close[i] # Open
      BY <2>3 DEF Time, Open
    <2>5. session'[i].out = close[i] /\ \A j \in Ids \ {i} : session'[j] = session[j]
      BY <1>1, <2>2, <2>3 DEF TypeOK, SessionRow
    <2>6. OpensNone
      BY <2>4, <2>5 DEF OpensNone, IsOpen, Used
    <2>7. StartsFree
      BY <1>1, <2>2, <2>8, EndsFree
    <2> QED
      BY <2>6, <2>7, OpeningNone
  <1>7. CASE Tick
    BY <1>2, <1>7 DEF Tick
  <1>8. CASE UNCHANGED vars
    BY <1>2, <1>8 DEF vars
  <1> QED
    BY <1>3, <1>4, <1>5, <1>6, <1>7, <1>8 DEF Next, NightlyStep

\* While no two calls of employees overlap, a user has at most one open session, whatever the
\* nightly job, the recompute on demand and restarts do meanwhile.
THEOREM OneSessionAtATime ==
  ASSUME \A c, d \in StaffCalls : c = d
  PROVE  Spec => []OneOpenSession
  <1>1. Init => OneOpenSession /\ CheckInsAreFree
    BY DEF Init, OneOpenSession, CheckInsAreFree, IsOpen, Used, Idle, Calls
  <1>2. SpanInv /\ OneOpenSession /\ CheckInsAreFree /\ [Next]_vars
          => OneOpenSession' /\ CheckInsAreFree'
    BY OneOpenStep
  <1> QED
    BY <1>1, <1>2, SpanInvHolds, PTL DEF Spec

-----------------------------------------------------------------------------
\* The agent of Desktop, seen from the server

Flight == [phase : Phases, batch : SUBSET (0 .. now), active : BOOLEAN, since : 0 .. now]

AgentTyped ==
  /\ up \in BOOLEAN /\ polled \in BOOLEAN /\ knownOut \in BOOLEAN /\ marker \in BOOLEAN
  /\ acts \in Nat /\ queue \subseteq 0 .. now /\ worked \subseteq 0 .. now
  /\ sending \in {Quiet} \cup Flight

\* What a step of the agent, of the browser tab or of the nightly job does at the server.
Exchange(c) ==
  \/ ServerIdle /\ CheckInLoad(c, Me, NoKey, "DESKTOP")
  \/ /\ ServerIdle
     /\ \E offlineAt \in SUBSET (0 .. now), fromDesktop \in BOOLEAN :
          HeartbeatLoad(c, Me, offlineAt, fromDesktop)
  \/ ServerTakes /\ \E reconcile \in BOOLEAN : CheckOutLoad(c, Me, reconcile)
  \/ CheckInWrite(c) \/ HeartbeatWrite(c) \/ CheckOutWrite(c)

DayPasses == Tick /\ ServerIdle /\ ((\E i \in Ids : Stale(i)) => "lateNight" \in Adverse)

Exchanges ==
  \/ UNCHANGED vars \/ DayPasses \/ Restart
  \/ \E c \in StaffCalls : Exchange(c)
  \/ \E c \in NightlyCalls : (ServerIdle /\ NightlyRead(c)) \/ NightlyWrite(c)

LEMMA AgentExchanges ==
  ASSUME AgentTyped, [AgentNext]_agentVars
  PROVE  Exchanges
  <1>1. ASSUME NEW c \in StaffCalls, Deliver(c) PROVE Exchanges
    <2>1. sending.phase = "out" => sending.batch \in SUBSET (0 .. now)
      BY DEF AgentTyped, Flight, Quiet
    <2> QED
      BY <1>1, <2>1 DEF Deliver, Exchange, Exchanges
  <1>2. ASSUME NEW c \in StaffCalls,
               Served(c) \/ CheckInPress(c) \/ CheckedIn(c) \/ CheckOutPress(c) \/ CheckedOut(c)
                 \/ Launch(c) \/ WebHeartbeat(c)
        PROVE  Exchanges
    BY <1>2 DEF Served, CheckInPress, CheckedIn, CheckOutPress, CheckedOut, Launch, WebHeartbeat,
                ServerTakes, Exchange, Exchanges
  <1>3. CASE Nightly \/ ServerRestart \/ AgentTick
    BY <1>3 DEF Nightly, ServerRestart, AgentTick, Exchanges, DayPasses
  <1>4. ASSUME NEW b \in BOOLEAN, TrackerTick(b) \/ Stop(b) PROVE Exchanges
    BY <1>4 DEF TrackerTick, Stop, Exchanges
  <1>5. CASE Flush \/ Answered \/ Failed \/ StatusPoll \/ UNCHANGED agentVars
    BY <1>5 DEF Flush, Answered, Failed, StatusPoll, agentVars, Exchanges
  <1> QED
    BY <1>1, <1>2, <1>3, <1>4, <1>5 DEF AgentNext

LEMMA ExchangesAreSteps == Exchanges => [Next]_vars
  <1>1. Me \in Users /\ "DESKTOP" \in Sources
    BY AgentAssumption
  <1>2. ASSUME NEW c \in StaffCalls, Exchange(c) PROVE Next
    <2>1. StaffStep(c)
      BY <1>1, <1>2 DEF Exchange, StaffStep
    <2> QED
      BY <2>1 DEF Next, Calls
  <1> QED
    BY <1>2 DEF Exchanges, DayPasses, Next, NightlyStep, Calls

LEMMA AgentTypedStep ==
  ASSUME now \in Nat, AgentTyped, [AgentNext]_agentVars
  PROVE  AgentTyped'
  <1> USE DEF AgentTyped
  <1>1. ASSUME NEW p \in Phases, Phase(p), sending \in Flight, now' = now PROVE AgentTyped'
    BY <1>1 DEF Phase, Flight
  <1>2. ASSUME UNCHANGED agent, now' = now PROVE AgentTyped'
    BY <1>2 DEF agent, Flight
  <1>3. ASSUME NEW c \in StaffCalls, Deliver(c) PROVE AgentTyped'
    <2>1. sending \in Flight /\ {"served", "refused"} \subseteq Phases
      BY <1>3 DEF Deliver, Quiet, Phases
    <2>2. now' = now
      BY <1>3 DEF Deliver, HeartbeatLoad, Loads, vars
    <2> QED
      BY <1>1, <1>3, <2>1, <2>2 DEF Deliver
  <1>4. ASSUME NEW c \in StaffCalls, Served(c) PROVE AgentTyped'
    <2>1. now' = now
      BY <1>4 DEF Served, HeartbeatWrite, Writes
    <2>2. sending.phase = "served" => sending \in Flight
      BY DEF Quiet
    <2> QED
      BY <1>1, <1>2, <1>4, <2>1, <2>2 DEF Served, Phases
  <1>5. ASSUME NEW c \in StaffCalls, CheckInPress(c) \/ CheckOutPress(c) \/ WebHeartbeat(c)
        PROVE  AgentTyped'
    <2>1. now' = now
      BY <1>5 DEF CheckInPress, CheckOutPress, WebHeartbeat, CheckInLoad, CheckOutLoad,
                  HeartbeatLoad, Loads
    <2> QED
      BY <1>2, <1>5, <2>1 DEF CheckInPress, CheckOutPress, WebHeartbeat
  <1>6. ASSUME NEW c \in StaffCalls, CheckedIn(c) \/ CheckedOut(c) PROVE AgentTyped'
    <2>1. now' = now
      BY <1>6 DEF CheckedIn, CheckedOut, CheckInWrite, CheckOutWrite, Writes
    <2> QED
      BY <1>6, <2>1 DEF CheckedIn, CheckedOut, Flight
  <1>7. ASSUME NEW c \in StaffCalls, Launch(c) PROVE AgentTyped'
    <2>1. now' = now
      BY <1>7 DEF Launch, CheckOutLoad, Loads, vars
    <2> QED
      BY <1>7, <2>1 DEF Launch, Flight
  <1>8. CASE Nightly \/ ServerRestart
    <2>1. now' = now /\ UNCHANGED agent
      BY <1>8 DEF Nightly, NightlyRead, NightlyWrite, ServerRestart, Restart
    <2> QED
      BY <1>2, <2>1
  <1>9. CASE AgentTick
    <2>1. now' = now + 1 /\ polled' = FALSE
          /\ UNCHANGED <<up, queue, sending, knownOut, marker, acts, worked>>
      BY <1>9 DEF AgentTick, Tick
    <2>2. 0 .. now \subseteq 0 .. now'
      BY <2>1
    <2>3. Flight \subseteq Flight'
      BY <2>2 DEF Flight
    <2> QED
      BY <2>1, <2>2, <2>3
  <1>10. ASSUME NEW active \in BOOLEAN, Send(active), now' = now
         PROVE  sending' \in {Quiet} \cup Flight'
    BY <1>10 DEF Send, Flight, Phases
  <1>11. ASSUME NEW active \in BOOLEAN, TrackerTick(active) PROVE AgentTyped'
    <2>1. now' = now /\ polled' = TRUE /\ worked' \subseteq 0 .. now
          /\ UNCHANGED <<up, queue, knownOut, marker, acts>>
      BY <1>11 DEF TrackerTick, vars
    <2>2. sending' \in {Quiet} \cup Flight'
      BY <1>10, <1>11, <2>1 DEF TrackerTick, Flight
    <2> QED
      BY <2>1, <2>2
  <1>12. CASE Flush
    <2>1. now' = now /\ acts' = acts + 1 /\ UNCHANGED <<up, polled, queue, knownOut, marker, worked>>
      BY <1>12 DEF Flush, vars
    <2>2. sending' \in {Quiet} \cup Flight'
      BY <1>10, <1>12, <2>1 DEF Flush
    <2> QED
      BY <2>1, <2>2
  <1>13. CASE Answered
    BY <1>13 DEF Answered, Delivered, vars
  <1>14. CASE Failed
    <2>1. sending \in Flight
      BY <1>14 DEF Failed
    <2> QED
      BY <1>14, <2>1 DEF Failed, Saved, vars, Flight
  <1>15. CASE StatusPoll
    BY <1>15 DEF StatusPoll, vars, Flight
  <1>16. ASSUME NEW shutdown \in BOOLEAN, Stop(shutdown) PROVE AgentTyped'
    <2>1. up' \in BOOLEAN /\ polled' \in BOOLEAN /\ knownOut' \in BOOLEAN /\ marker' \in BOOLEAN
      BY <1>16, Zenon DEF Stop
    <2>2. now' = now /\ acts' = acts + 1 /\ sending' = Quiet /\ UNCHANGED <<queue, worked>>
      BY <1>16 DEF Stop, vars
    <2> QED
      BY <2>1, <2>2
  <1>17. CASE UNCHANGED agentVars
    BY <1>2, <1>17 DEF agentVars, vars
  <1> QED
    BY <1>3, <1>4, <1>5, <1>6, <1>7, <1>8, <1>9, <1>11, <1>12, <1>13, <1>14, <1>15, <1>16, <1>17
    DEF AgentNext

AgentInv == SpanInv /\ AgentTyped

LEMMA AgentStep == AgentInv /\ [AgentNext]_agentVars => AgentInv' /\ [Next]_vars
  <1> SUFFICES ASSUME AgentInv, [AgentNext]_agentVars PROVE AgentInv' /\ [Next]_vars
    OBVIOUS
  <1>1. now \in Nat /\ AgentTyped
    BY DEF AgentInv, SpanInv, TypeOK, Time
  <1>2. [Next]_vars
    BY <1>1, AgentExchanges, ExchangesAreSteps
  <1>3. AgentTyped'
    BY <1>1, AgentTypedStep
  <1> QED
    BY <1>2, <1>3, StepHolds DEF AgentInv

LEMMA AgentStarts == AgentInit => Init /\ AgentInv
  <1>1. AgentInit => Init /\ now = 0
    BY DEF AgentInit, Init
  <1>2. AgentInit => /\ up \in BOOLEAN /\ polled \in BOOLEAN /\ knownOut \in BOOLEAN
                     /\ marker \in BOOLEAN
    BY Zenon DEF AgentInit
  <1>3. AgentInit => AgentTyped
    BY <1>2 DEF AgentTyped, AgentInit
  <1> QED
    BY <1>1, <1>3, InitHolds DEF AgentInv

LEMMA AgentInvHolds == AgentSpec => []AgentInv
  <1>1. AgentInit => AgentInv
    BY AgentStarts
  <1>2. AgentInv /\ [AgentNext]_agentVars => AgentInv'
    BY AgentStep
  <1> QED
    BY <1>1, <1>2, PTL DEF AgentSpec

\* The desktop agent, the browser tab and the nightly job only do at the server what Attendance
\* allows: a late answer, a replayed heartbeat or a reconciliation is one of its calls, so all
\* that is proved of the server holds with the agent at work.
THEOREM AgentUsesAttendance == AgentSpec => Spec
  <1>1. AgentInit => Init
    BY AgentStarts
  <1>2. AgentInv /\ [AgentNext]_agentVars => [Next]_vars
    BY AgentStep
  <1> QED
    BY <1>1, <1>2, AgentInvHolds, PTL DEF AgentSpec, Spec

-----------------------------------------------------------------------------
\* One call at a time

\* Every session is the agent's own, and a call was read from what is still there.
OwnInv ==
  \A i \in Ids : Used(i) => /\ session[i].user = Me /\ session[i].source = "DESKTOP"
                            /\ session[i].beat <= now
AloneInv == \A c, d \in Calls : call[c] # Idle /\ call[d] # Idle => c = d
PressInv ==
  \A c \in Calls : call[c].at = "checkIn" =>
    /\ call[c].user = Me /\ call[c].source = "DESKTOP" /\ call[c].t = now
    /\ \A i \in Ids : ~ IsOpen(i)
Within(s, from, to) == s \in Spans /\ from <= s[1] /\ s[2] <= to
WriteInv ==
  \A c \in Calls, i \in Ids : call[c].at \in {"beat", "checkOut"} /\ call[c].id = i =>
    /\ IsOpen(i) /\ session[i].beat <= call[c].t /\ call[c].t <= now
    /\ call[c].at = "beat" => call[c].t = now
    /\ \A s \in call[c].spans : Within(s, session[i].beat, call[c].t)
NightInv ==
  \A c \in Calls, i \in Ids : call[c].at = "night" /\ i \in DOMAIN call[c].close =>
    IsOpen(i) /\ call[c].close[i] = CloseAt(i)

ServerInv == OwnInv /\ OneOpenSession /\ AloneInv /\ PressInv /\ WriteInv /\ NightInv

\* What a load and the writes come to.
Over == \A d \in Calls : call'[d] = Idle
Loaded(c, x) ==
  /\ ServerIdle /\ UNCHANGED <<now, session, gaps>>
  /\ call'[c] = x /\ \A d \in Calls \ {c} : call'[d] = Idle
Others(i) == \A j \in Ids \ {i} : session'[j] = session[j]
Edited(i, out, beat, idle) ==
  /\ session'[i] \in SessionRow /\ Others(i)
  /\ session'[i].user = session[i].user /\ session'[i].source = session[i].source
  /\ session'[i].in = session[i].in /\ session'[i].out = out
  /\ session'[i].beat = beat /\ session'[i].idle = idle
Charged(i, spans) ==
  /\ \A s \in Spans : gaps'[i][s] = gaps[i][s] + (IF s \in spans THEN 1 ELSE 0)
  /\ \A j \in Ids \ {i} : gaps'[j] = gaps[j]

Opened(i) ==
  /\ ~ Used(i) /\ \A j \in Ids : ~ IsOpen(j)
  /\ session'[i] \in SessionRow /\ Others(i)
  /\ session'[i].user = Me /\ session'[i].source = "DESKTOP"
  /\ session'[i].in = now /\ session'[i].out = Open
  /\ session'[i].beat = now /\ session'[i].idle = 0
  /\ UNCHANGED <<now, gaps>> /\ Over
Beaten(c, i) ==
  /\ call[c].at = "beat" /\ call[c].id = i
  /\ Edited(i, Open, call[c].t, session[i].idle + IdleOf(call[c].spans))
  /\ Charged(i, call[c].spans) /\ UNCHANGED now /\ Over
Ended(c, i) ==
  /\ call[c].at = "checkOut" /\ call[c].id = i
  /\ Edited(i, call[c].t, session[i].beat, session[i].idle + IdleOf(call[c].spans))
  /\ Charged(i, call[c].spans) /\ UNCHANGED now /\ Over
Swept(c, i) ==
  /\ call[c].at = "night" /\ i \in DOMAIN call[c].close
  /\ Edited(i, CloseAt(i), session[i].beat, session[i].idle)
  /\ \A d \in Calls \ {c} : call'[d] = Idle
  /\ \/ call'[c] = Idle
     \/ /\ call'[c].at = "night" /\ DOMAIN call'[c].close = DOMAIN call[c].close \ {i}
        /\ \A j \in DOMAIN call'[c].close : call'[c].close[j] = call[c].close[j]
  /\ UNCHANGED <<now, gaps>>

LEMMA ChargedRow ==
  ASSUME TypeOK, NEW i \in Ids, NEW row \in SessionRow, row.key = session[i].key,
         NEW spans, Charge(i, spans, row), Used(i)
  PROVE  /\ session'[i] \in SessionRow /\ Others(i)
         /\ session'[i].user = row.user /\ session'[i].source = row.source
         /\ session'[i].in = row.in /\ session'[i].out = row.out /\ session'[i].beat = row.beat
         /\ session'[i].idle = row.idle + IdleOf(spans)
         /\ Charged(i, spans)
  <1> DEFINE new == [row EXCEPT !.idle = row.idle + IdleOf(spans)]
  <1>1. /\ new \in SessionRow /\ new.user = row.user /\ new.source = row.source
        /\ new.in = row.in /\ new.out = row.out /\ new.beat = row.beat
        /\ new.idle = row.idle + IdleOf(spans)
    BY IdleIsNat DEF SessionRow
  <1>2. session' = [session EXCEPT ![i] = new]
    BY DEF Charge
  <1> HIDE DEF new
  <1>3. session'[i] = new /\ Others(i)
    BY <1>2 DEF TypeOK, Others
  <1>4. Charged(i, spans)
    <2> DEFINE added == [s \in Spans |-> gaps[i][s] + (IF s \in spans THEN 1 ELSE 0)]
    <2>1. gaps' = [gaps EXCEPT ![i] = added] /\ gaps \in [Ids -> [Spans -> Nat]]
      BY DEF Charge, TypeOK
    <2>2. \A s \in Spans : added[s] = gaps[i][s] + (IF s \in spans THEN 1 ELSE 0)
      OBVIOUS
    <2> HIDE DEF added
    <2>3. gaps'[i] = added /\ \A j \in Ids \ {i} : gaps'[j] = gaps[j]
      BY <2>1
    <2> QED
      BY <2>2, <2>3 DEF Charged
  <1> QED
    BY <1>1, <1>3, <1>4

LEMMA Ending ==
  ASSUME TypeOK, AloneInv, NEW c \in Calls, call[c] # Idle, Become(c, Idle)
  PROVE  Over
  BY DEF TypeOK, AloneInv, Become, Over

LEMMA WriteFacts ==
  ASSUME TypeOK, ServerInv, NEW c \in Calls, call[c].at \in {"beat", "checkOut"}
  PROVE  /\ call[c].id \in Ids /\ call[c].t \in Time /\ call[c] # Idle
         /\ IsOpen(call[c].id) /\ session[call[c].id] \in SessionRow
  <1>1. call[c].id \in Ids /\ call[c].t \in Time /\ call[c] # Idle
    BY CallShapes DEF ById, Idle
  <1>2. IsOpen(call[c].id)
    BY <1>1 DEF ServerInv, WriteInv
  <1> QED
    BY <1>1, <1>2, UsedIsRow DEF IsOpen

LEMMA HeartbeatEffect ==
  ASSUME TypeOK, ServerInv, NEW c \in StaffCalls, HeartbeatWrite(c)
  PROVE  \E i \in Ids : IsOpen(i) /\ Beaten(c, i)
  <1>1. c \in Calls /\ call[c].at = "beat" /\ Become(c, Idle) /\ UNCHANGED now
    BY DEF HeartbeatWrite, Writes, Calls
  <1>2. PICK i, t, spans : i = call[c].id /\ t = call[c].t /\ spans = call[c].spans
    OBVIOUS
  <1>3. /\ i \in Ids /\ t \in Time /\ IsOpen(i) /\ Used(i) /\ session[i] \in SessionRow
        /\ call[c] # Idle
    BY <1>1, <1>2, WriteFacts DEF IsOpen
  <1> DEFINE row == [session[i] EXCEPT !.beat = t]
  <1>4. /\ row \in SessionRow /\ row.key = session[i].key /\ row.user = session[i].user
        /\ row.source = session[i].source /\ row.in = session[i].in /\ row.out = session[i].out
        /\ row.beat = t /\ row.idle = session[i].idle
    BY <1>3 DEF SessionRow
  <1>5. Charge(i, spans, row)
    BY <1>2 DEF HeartbeatWrite
  <1>6. Over
    BY <1>1, <1>3, Ending DEF ServerInv
  <1> HIDE DEF row
  <1>7. Edited(i, Open, t, session[i].idle + IdleOf(spans)) /\ Charged(i, spans)
    BY <1>3, <1>4, <1>5, ChargedRow DEF Edited, IsOpen
  <1> QED
    BY <1>1, <1>2, <1>3, <1>6, <1>7 DEF Beaten

LEMMA CheckOutEffect ==
  ASSUME TypeOK, ServerInv, NEW c \in StaffCalls, CheckOutWrite(c)
  PROVE  \E i \in Ids : IsOpen(i) /\ Ended(c, i)
  <1>1. c \in Calls /\ call[c].at = "checkOut" /\ Become(c, Idle) /\ UNCHANGED now
    BY DEF CheckOutWrite, Writes, Calls
  <1>2. PICK i, t, spans : i = call[c].id /\ t = call[c].t /\ spans = call[c].spans
    OBVIOUS
  <1>3. /\ i \in Ids /\ t \in Time /\ IsOpen(i) /\ Used(i) /\ session[i] \in SessionRow
        /\ call[c] # Idle
    BY <1>1, <1>2, WriteFacts DEF IsOpen
  <1> DEFINE row == [session[i] EXCEPT !.out = t]
  <1>4. /\ row \in SessionRow /\ row.key = session[i].key /\ row.user = session[i].user
        /\ row.source = session[i].source /\ row.in = session[i].in /\ row.out = t
        /\ row.beat = session[i].beat /\ row.idle = session[i].idle
    BY <1>3 DEF SessionRow
  <1>5. Charge(i, spans, row)
    BY <1>2 DEF CheckOutWrite
  <1>6. Over
    BY <1>1, <1>3, Ending DEF ServerInv
  <1> HIDE DEF row
  <1>7. Edited(i, t, session[i].beat, session[i].idle + IdleOf(spans)) /\ Charged(i, spans)
    BY <1>3, <1>4, <1>5, ChargedRow DEF Edited
  <1> QED
    BY <1>1, <1>2, <1>3, <1>6, <1>7 DEF Ended

LEMMA NightEffect ==
  ASSUME TypeOK, ServerInv, NEW c \in NightlyCalls, NightlyWrite(c)
  PROVE  \E i \in Ids : IsOpen(i) /\ Swept(c, i)
  <1>1. PICK close : close = call[c].close /\ call[c].at = "night" /\ c \in Calls
    BY DEF NightlyWrite, Calls
  <1> DEFINE Rest(i) == IF DOMAIN close \ {i} = {} THEN Idle
                        ELSE [at |-> "night", close |-> [j \in DOMAIN close \ {i} |-> close[j]]]
  <1>2. PICK i \in DOMAIN close :
          /\ session' = [session EXCEPT ![i] = [session[i] EXCEPT !.out = close[i]]]
          /\ Become(c, Rest(i)) /\ UNCHANGED <<now, gaps>>
    BY <1>1 DEF NightlyWrite
  <1>3. /\ i \in Ids /\ close[i] \in Time /\ call[c] # Idle
        /\ IsOpen(i) /\ close[i] = CloseAt(i) /\ session[i] \in SessionRow
    <2>1. i \in Ids /\ close[i] \in Time /\ call[c] # Idle
      BY <1>1, <1>2, CallShapes DEF Night, Idle
    <2>2. IsOpen(i) /\ close[i] = CloseAt(i)
      BY <1>1, <1>2, <2>1 DEF ServerInv, NightInv
    <2> QED
      BY <2>1, <2>2, UsedIsRow DEF IsOpen
  <1>4. PICK x : x = Rest(i)
    OBVIOUS
  <1>5. \/ x = Idle
        \/ /\ x.at = "night" /\ DOMAIN x.close = DOMAIN close \ {i}
           /\ \A j \in DOMAIN x.close : x.close[j] = close[j]
    BY <1>4
  <1> HIDE DEF Rest
  <1>6. call'[c] = x /\ \A d \in Calls \ {c} : call'[d] = Idle
    BY <1>1, <1>2, <1>3, <1>4 DEF TypeOK, Become, ServerInv, AloneInv
  <1>7. Edited(i, close[i], session[i].beat, session[i].idle)
    BY <1>2, <1>3 DEF TypeOK, Edited, Others, SessionRow
  <1> QED
    BY <1>1, <1>2, <1>3, <1>5, <1>6, <1>7 DEF Swept

LEMMA InsertEffect ==
  ASSUME TypeOK, ServerInv, NEW c \in StaffCalls, CheckInWrite(c)
  PROVE  \/ UNCHANGED <<now, session, gaps>> /\ Over
         \/ \E i \in Ids : Opened(i)
  <1>1. /\ c \in Calls /\ call[c].at = "checkIn" /\ Become(c, Idle) /\ Insert(c)
        /\ UNCHANGED <<now, gaps>>
    BY DEF CheckInWrite, Writes, Calls
  <1>2. call[c] \in CheckIn /\ call[c] # Idle
    BY <1>1, CallShapes DEF Idle
  <1>3. Over
    BY <1>1, <1>2, Ending DEF ServerInv
  <1>4. /\ call[c].user = Me /\ call[c].source = "DESKTOP" /\ call[c].t = now
        /\ \A i \in Ids : ~ IsOpen(i)
    BY <1>1 DEF ServerInv, PressInv
  <1>5. PICK k : k = call[c].key /\ k \in Keys \cup {NoKey}
    BY <1>2 DEF CheckIn
  <1> DEFINE row == [user |-> Me, in |-> now, out |-> Open, beat |-> now, idle |-> 0,
                     source |-> "DESKTOP", key |-> k]
  <1>6. row \in SessionRow
    BY <1>5, AgentAssumption DEF SessionRow, TypeOK
  <1>7. CASE KeyTaken(call[c].key)
    BY <1>1, <1>3, <1>7 DEF Insert
  <1>8. CASE InsertAnyKey(c)
    <2>1. PICK i \in Ids : ~ Used(i) /\ session' = [session EXCEPT ![i] = row]
      BY <1>4, <1>5, <1>8 DEF InsertAnyKey
    <2>2. session'[i] = row /\ Others(i)
      BY <2>1 DEF TypeOK, Others
    <2> QED
      BY <1>1, <1>3, <1>4, <1>6, <2>1, <2>2 DEF Opened
  <1> QED
    BY <1>1, <1>7, <1>8 DEF Insert
LEMMA FoundOpen ==
  ASSUME NEW u, NEW i \in FindOpen(u) \ {NoSession}
  PROVE  i \in Ids /\ IsOpen(i) /\ session[i].user = u
  BY DEF FindOpen

LEMMA SpanFacts ==
  ASSUME NEW since \in Time, NEW t \in Time, since <= t,
         NEW moments, \A m \in moments : m \in Int /\ since < m /\ m < t,
         NEW s \in IdleSpans(since, moments, t)
  PROVE  /\ Within(s, since, t) /\ s[2] - s[1] > IdleTicks
         /\ \A m \in moments : m <= s[1] \/ s[2] <= m
  <1>1. /\ s \in Spans /\ {s[1], s[2]} \subseteq {since, t} \cup moments
        /\ s[2] - s[1] > IdleTicks /\ \A p \in {since, t} \cup moments : p <= s[1] \/ s[2] <= p
    BY DEF IdleSpans, IdleSpansAnyLength
  <1>2. s[1] \in Int /\ s[2] \in Int /\ since \in Int /\ t \in Int
    BY <1>1 DEF Spans, Time
  <1>3. since <= s[1] /\ s[2] <= t
    BY <1>1, <1>2
  <1> QED
    BY <1>1, <1>3 DEF Within

LEMMA ReplayedFacts ==
  ASSUME NEW i, NEW offlineAt \in SUBSET (0 .. now), NEW fromDesktop
  PROVE  \A m \in Replayed(i, offlineAt, fromDesktop) :
           m \in Int /\ session[i].beat < m /\ m < now
  BY DEF Replayed

LEMMA Carrying ==
  ASSUME TypeOK, ServerIdle, NEW c \in Calls, NEW x, Become(c, x), UNCHANGED <<now, session, gaps>>
  PROVE  Loaded(c, x)
  BY DEF TypeOK, ServerIdle, Become, Loaded

LEMMA PressEffect ==
  ASSUME TypeOK, ServerInv, ServerIdle, NEW c \in StaffCalls, CheckInLoad(c, Me, NoKey, "DESKTOP")
  PROVE  /\ Loaded(c, [at |-> "checkIn", user |-> Me, t |-> now, source |-> "DESKTOP", key |-> NoKey])
         /\ \A i \in Ids : ~ IsOpen(i)
  <1>1. Loaded(c, [at |-> "checkIn", user |-> Me, t |-> now, source |-> "DESKTOP", key |-> NoKey])
    BY Carrying DEF CheckInLoad, Loads, Calls
  <1>2. SUFFICES ASSUME NEW i \in Ids, IsOpen(i) PROVE FALSE
    BY <1>1
  <1>3. session[i].user = Me
    BY <1>2 DEF ServerInv, OwnInv, IsOpen
  <1>4. NoSession \in FindOpen(Me) /\ NoSession \notin Ids
    BY NamesAssumption DEF CheckInLoad, MayCheckIn
  <1> QED
    BY <1>2, <1>3, <1>4 DEF FindOpen

LEMMA BeatLoadEffect ==
  ASSUME TypeOK, ServerInv, ServerIdle, NEW c \in StaffCalls,
         NEW offlineAt, NEW fromDesktop, HeartbeatLoad(c, Me, offlineAt, fromDesktop)
  PROVE  \E i \in Ids :
           /\ IsOpen(i)
           /\ Loaded(c, [at |-> "beat", id |-> i, t |-> now,
                         spans |-> IdleSpans(session[i].beat, Replayed(i, offlineAt, fromDesktop), now)])
  <1>1. PICK i \in FindOpen(Me) \ {NoSession} :
          Become(c, [at |-> "beat", id |-> i, t |-> now,
                     spans |-> IdleSpans(session[i].beat, Replayed(i, offlineAt, fromDesktop), now)])
    BY DEF HeartbeatLoad
  <1>2. UNCHANGED <<now, session, gaps>> /\ c \in Calls
    BY DEF HeartbeatLoad, Loads, Calls
  <1>3. i \in Ids /\ IsOpen(i)
    BY FoundOpen
  <1> QED
    BY <1>1, <1>2, <1>3, Carrying

LEMMA OutLoadEffect ==
  ASSUME TypeOK, ServerInv, ServerIdle, NEW c \in StaffCalls,
         NEW reconcile, CheckOutLoad(c, Me, reconcile)
  PROVE  \E i \in Ids :
           /\ IsOpen(i)
           /\ Loaded(c, [at |-> "checkOut", id |-> i,
                         t |-> IF reconcile THEN session[i].beat ELSE now,
                         spans |-> IF reconcile THEN {} ELSE IdleSpans(session[i].beat, {}, now)])
  <1>1. PICK i \in FindOpen(Me) \ {NoSession} :
          Become(c, [at |-> "checkOut", id |-> i,
                     t |-> IF reconcile THEN session[i].beat ELSE now,
                     spans |-> IF reconcile THEN {} ELSE IdleSpans(session[i].beat, {}, now)])
    BY DEF CheckOutLoad
  <1>2. UNCHANGED <<now, session, gaps>> /\ c \in Calls
    BY DEF CheckOutLoad, Loads, Calls
  <1>3. i \in Ids /\ IsOpen(i)
    BY FoundOpen
  <1> QED
    BY <1>1, <1>2, <1>3, Carrying

\* What is loaded must fit the rows, which a load leaves alone.
Sound(x) ==
  /\ x.at = "checkIn" => /\ x.user = Me /\ x.source = "DESKTOP" /\ x.t = now
                         /\ \A i \in Ids : ~ IsOpen(i)
  /\ x.at \in {"beat", "checkOut"} =>
       \A i \in Ids : x.id = i =>
         /\ IsOpen(i) /\ session[i].beat <= x.t /\ x.t <= now
         /\ x.at = "beat" => x.t = now
         /\ \A s \in x.spans : Within(s, session[i].beat, x.t)
  /\ x.at = "night" => \A i \in Ids : i \in DOMAIN x.close => IsOpen(i) /\ x.close[i] = CloseAt(i)

LEMMA LoadKeeps ==
  ASSUME ServerInv, NEW c \in Calls, NEW x, Loaded(c, x), Sound(x)
  PROVE  ServerInv'
  <1>1. \A i \in Ids : (Used(i)' <=> Used(i)) /\ (IsOpen(i)' <=> IsOpen(i)) /\ CloseAt(i)' = CloseAt(i)
    BY DEF Loaded, IsOpen, Used, CloseAt
  <1>2. session' = session /\ now' = now
    BY DEF Loaded
  <1>3. OwnInv' /\ OneOpenSession'
    BY <1>1, <1>2 DEF ServerInv, OwnInv, OneOpenSession
  <1>4. AloneInv'
    BY DEF Loaded, AloneInv
  <1>5. \A d \in Calls : call'[d] = Idle \/ (d = c /\ call'[d] = x)
    BY DEF Loaded
  <1>6. Idle.at = "idle"
    BY DEF Idle
  <1>7. PressInv'
    BY <1>1, <1>2, <1>5, <1>6 DEF PressInv, Sound
  <1>8. WriteInv'
    BY <1>1, <1>2, <1>5, <1>6 DEF WriteInv, Sound
  <1>9. NightInv'
    BY <1>1, <1>2, <1>5, <1>6 DEF NightInv, Sound
  <1> QED
    BY <1>3, <1>4, <1>7, <1>8, <1>9 DEF ServerInv

\* When the call is over, only the rows are left to look at.
LEMMA OverKeeps ==
  ASSUME Over, OwnInv', OneOpenSession'
  PROVE  ServerInv'
  <1>1. \A d \in Calls : call'[d].at = "idle"
    BY DEF Over, Idle
  <1> QED
    BY <1>1 DEF Over, ServerInv, AloneInv, PressInv, WriteInv, NightInv

LEMMA EditKeeps ==
  ASSUME SpanInv, ServerInv, now' = now, NEW i \in Ids, IsOpen(i), NEW out, NEW beat, NEW idle,
         beat <= now, Edited(i, out, beat, idle)
  PROVE  /\ OwnInv' /\ OneOpenSession'
         /\ \A j \in Ids \ {i} : (IsOpen(j)' <=> IsOpen(j)) /\ CloseAt(j)' = CloseAt(j)
         /\ IsOpen(i)' <=> out = Open
  <1>1. Unused \notin SessionRow
    BY DEF Unused, SessionRow
  <1>2. Used(i)' /\ Used(i) /\ \A j \in Ids \ {i} : Used(j)' <=> Used(j)
    BY <1>1 DEF Edited, Others, Used, IsOpen
  <1>3. OwnInv'
    BY <1>2 DEF Edited, Others, ServerInv, OwnInv
  <1>4. IsOpen(i)' <=> out = Open
    BY <1>2 DEF Edited, IsOpen
  <1>5. \A j \in Ids \ {i} : (IsOpen(j)' <=> IsOpen(j)) /\ CloseAt(j)' = CloseAt(j)
    BY <1>2 DEF Edited, Others, IsOpen, CloseAt
  <1>6. OneOpenSession'
    BY <1>4, <1>5 DEF ServerInv, OneOpenSession, Edited, Others
  <1> QED
    BY <1>3, <1>4, <1>5, <1>6

LEMMA OpenedKeeps ==
  ASSUME SpanInv, ServerInv, NEW i \in Ids, Opened(i)
  PROVE  ServerInv' /\ \A j \in Ids \ {i} : ~ IsOpen(j)'
  <1>1. Unused \notin SessionRow
    BY DEF Unused, SessionRow
  <1>2. Used(i)' /\ \A j \in Ids \ {i} : (Used(j)' <=> Used(j)) /\ (IsOpen(j)' <=> IsOpen(j))
    BY <1>1 DEF Opened, Others, Used, IsOpen
  <1>3. now \in Int
    BY DEF SpanInv, TypeOK, Time
  <1>4. OwnInv'
    BY <1>2, <1>3 DEF Opened, Others, ServerInv, OwnInv
  <1>5. OneOpenSession' /\ \A j \in Ids \ {i} : ~ IsOpen(j)'
    BY <1>2 DEF Opened, OneOpenSession
  <1> QED
    BY <1>4, <1>5, OverKeeps DEF Opened
Effects ==
  \/ UNCHANGED vars \/ DayPasses
  \/ UNCHANGED <<now, session, gaps>> /\ Over
  \/ \E c \in Calls : \E x : Loaded(c, x) /\ Sound(x)
  \/ \E i \in Ids : Opened(i)
  \/ \E c \in Calls, i \in Ids : IsOpen(i) /\ (Beaten(c, i) \/ Ended(c, i) \/ Swept(c, i))

LEMMA ExchangesHaveEffects ==
  ASSUME "overlap" \notin Adverse, SpanInv, ServerInv, Exchanges
  PROVE  Effects
  <1>1. TypeOK /\ StaffCalls \subseteq Calls /\ NightlyCalls \subseteq Calls /\ now \in Time
    BY DEF SpanInv, TypeOK, Calls
  <1>2. CASE Restart
    BY <1>2 DEF Restart, Over, Effects
  <1>3. ASSUME NEW c \in StaffCalls, ServerIdle, CheckInLoad(c, Me, NoKey, "DESKTOP") PROVE Effects
    <2> DEFINE x == [at |-> "checkIn", user |-> Me, t |-> now, source |-> "DESKTOP", key |-> NoKey]
    <2>1. Loaded(c, x) /\ \A i \in Ids : ~ IsOpen(i)
      BY <1>1, <1>3, PressEffect
    <2>2. Sound(x)
      BY <2>1 DEF Sound
    <2> QED
      BY <1>1, <2>1, <2>2 DEF Effects
  <1>4. ASSUME NEW c \in StaffCalls, ServerIdle, NEW offlineAt \in SUBSET (0 .. now),
               NEW fromDesktop \in BOOLEAN, HeartbeatLoad(c, Me, offlineAt, fromDesktop)
        PROVE  Effects
    <2>1. PICK i \in Ids :
            /\ IsOpen(i)
            /\ Loaded(c, [at |-> "beat", id |-> i, t |-> now,
                          spans |-> IdleSpans(session[i].beat, Replayed(i, offlineAt, fromDesktop), now)])
      BY <1>1, <1>4, BeatLoadEffect
    <2>2. session[i].beat \in Time /\ session[i].beat <= now
      BY <1>1, <2>1, UsedIsRow DEF ServerInv, OwnInv, IsOpen
    <2> DEFINE spans == IdleSpans(session[i].beat, Replayed(i, offlineAt, fromDesktop), now)
               x == [at |-> "beat", id |-> i, t |-> now, spans |-> spans]
    <2>3. \A s \in spans : Within(s, session[i].beat, now)
      BY <1>1, <2>2, ReplayedFacts, SpanFacts
    <2> HIDE DEF spans
    <2>4. now <= now
      BY <1>1 DEF Time
    <2>5. Sound(x)
      BY <2>1, <2>2, <2>3, <2>4 DEF Sound
    <2> QED
      BY <1>1, <2>1, <2>5 DEF Effects, spans
  <1>5. ASSUME NEW c \in StaffCalls, ServerIdle, NEW reconcile \in BOOLEAN,
               CheckOutLoad(c, Me, reconcile)
        PROVE  Effects
    <2>1. PICK i \in Ids :
            /\ IsOpen(i)
            /\ Loaded(c, [at |-> "checkOut", id |-> i,
                          t |-> IF reconcile THEN session[i].beat ELSE now,
                          spans |-> IF reconcile THEN {} ELSE IdleSpans(session[i].beat, {}, now)])
      BY <1>1, <1>5, OutLoadEffect
    <2>2. session[i].beat \in Time /\ session[i].beat <= now
      BY <1>1, <2>1, UsedIsRow DEF ServerInv, OwnInv, IsOpen
    <2> DEFINE spans == IF reconcile THEN {} ELSE IdleSpans(session[i].beat, {}, now)
               t == IF reconcile THEN session[i].beat ELSE now
               x == [at |-> "checkOut", id |-> i, t |-> t, spans |-> spans]
    <2>3. \A s \in spans : Within(s, session[i].beat, t)
      BY <1>1, <2>2, SpanFacts
    <2>4. session[i].beat <= t /\ t <= now
      BY <1>1, <2>2 DEF Time
    <2>5. Loaded(c, x)
      BY <2>1
    <2> HIDE DEF spans, t
    <2>6. Sound(x)
      BY <2>1, <2>3, <2>4 DEF Sound
    <2> HIDE DEF x
    <2> QED
      BY <1>1, <2>5, <2>6 DEF Effects
  <1>6. ASSUME NEW c \in StaffCalls, CheckInWrite(c) \/ HeartbeatWrite(c) \/ CheckOutWrite(c)
        PROVE  Effects
    BY <1>1, <1>6, InsertEffect, HeartbeatEffect, CheckOutEffect DEF Effects
  <1>7. ASSUME NEW c \in NightlyCalls, ServerIdle, NightlyRead(c) PROVE Effects
    <2> DEFINE stale == {i \in Ids : Stale(i)}
               x == [at |-> "night", close |-> [i \in stale |-> CloseAt(i)]]
    <2>1. Become(c, x) /\ UNCHANGED <<now, session, gaps>>
      BY <1>7 DEF NightlyRead
    <2>2. Sound(x)
      BY DEF Sound, Stale
    <2> HIDE DEF x
    <2> QED
      BY <1>1, <1>7, <2>1, <2>2, Carrying DEF Effects
  <1>8. ASSUME NEW c \in NightlyCalls, NightlyWrite(c) PROVE Effects
    BY <1>1, <1>8, NightEffect DEF Effects
  <1> QED
    BY <1>2, <1>3, <1>4, <1>5, <1>6, <1>7, <1>8 DEF Exchanges, Exchange, ServerTakes, Effects

LEMMA ServerStep == ASSUME SpanInv, ServerInv, Effects PROVE ServerInv'
  <1>0. TypeOK /\ now \in Int /\ \A i \in Ids : Used(i) => session[i].beat \in Int
    BY UsedIsRow DEF SpanInv, TypeOK, Time
  <1>1. CASE UNCHANGED vars
    <2>1. \A i \in Ids : (Used(i)' <=> Used(i)) /\ (IsOpen(i)' <=> IsOpen(i))
                         /\ CloseAt(i)' = CloseAt(i)
      BY <1>1 DEF vars, IsOpen, Used, CloseAt
    <2> QED
      BY <1>1, <2>1 DEF vars, ServerInv, OwnInv, OneOpenSession, AloneInv, PressInv, WriteInv, NightInv
  <1>2. CASE DayPasses
    <2>1. now' = now + 1 /\ UNCHANGED <<session, call>> /\ ServerIdle
      BY <1>2 DEF DayPasses, Tick
    <2>2. \A i \in Ids : (Used(i)' <=> Used(i)) /\ (IsOpen(i)' <=> IsOpen(i))
      BY <2>1 DEF IsOpen, Used
    <2>3. OwnInv' /\ OneOpenSession'
      BY <1>0, <2>1, <2>2 DEF ServerInv, OwnInv, OneOpenSession
    <2>4. Over
      BY <2>1 DEF ServerIdle, Over
    <2> QED
      BY <2>3, <2>4, OverKeeps
  <1>3. CASE UNCHANGED <<now, session, gaps>> /\ Over
    <2>1. \A i \in Ids : (Used(i)' <=> Used(i)) /\ (IsOpen(i)' <=> IsOpen(i))
      BY <1>3 DEF IsOpen, Used
    <2>2. OwnInv' /\ OneOpenSession'
      BY <1>3, <2>1 DEF ServerInv, OwnInv, OneOpenSession
    <2> QED
      BY <1>3, <2>2, OverKeeps
  <1>4. ASSUME NEW c \in Calls, NEW x, Loaded(c, x), Sound(x) PROVE ServerInv'
    BY <1>4, LoadKeeps
  <1>5. ASSUME NEW i \in Ids, Opened(i) PROVE ServerInv'
    BY <1>5, OpenedKeeps
  <1>6. ASSUME NEW c \in Calls, NEW i \in Ids, IsOpen(i), Beaten(c, i) PROVE ServerInv'
    <2>1. call[c].t <= now
      BY <1>6 DEF Beaten, ServerInv, WriteInv
    <2>2. OwnInv' /\ OneOpenSession'
      BY <1>6, <2>1, EditKeeps DEF Beaten
    <2> QED
      BY <1>6, <2>2, OverKeeps DEF Beaten
  <1>7. ASSUME NEW c \in Calls, NEW i \in Ids, IsOpen(i), Ended(c, i) PROVE ServerInv'
    <2>1. session[i].beat <= now
      BY <1>7 DEF ServerInv, OwnInv, IsOpen
    <2>2. OwnInv' /\ OneOpenSession'
      BY <1>7, <2>1, EditKeeps DEF Ended
    <2> QED
      BY <1>7, <2>2, OverKeeps DEF Ended
  <1>8. ASSUME NEW c \in Calls, NEW i \in Ids, IsOpen(i), Swept(c, i) PROVE ServerInv'
    <2>1. session[i].beat <= now
      BY <1>8 DEF ServerInv, OwnInv, IsOpen
    <2>2. /\ OwnInv' /\ OneOpenSession'
          /\ \A j \in Ids \ {i} : (IsOpen(j)' <=> IsOpen(j)) /\ CloseAt(j)' = CloseAt(j)
      BY <1>8, <2>1, EditKeeps DEF Swept
    <2>3. \A d \in Calls \ {c} : call'[d] = Idle
      BY <1>8 DEF Swept
    <2>4. Idle.at = "idle"
      BY DEF Idle
    <2>5. call'[c].at \in {"idle", "night"}
      BY <1>8, <2>4 DEF Swept
    <2>6. AloneInv'
      BY <2>3 DEF AloneInv
    <2>7. PressInv' /\ WriteInv'
      BY <2>3, <2>4, <2>5 DEF PressInv, WriteInv
    <2>8. NightInv'
      <3>1. SUFFICES ASSUME NEW j \in Ids, call'[c].at = "night", j \in DOMAIN call'[c].close
                     PROVE  IsOpen(j)' /\ call'[c].close[j] = CloseAt(j)'
        BY <2>3, <2>4 DEF NightInv
      <3>2. j \in DOMAIN call[c].close \ {i} /\ call'[c].close[j] = call[c].close[j]
            /\ call[c].at = "night"
        BY <1>8, <2>4, <3>1 DEF Swept
      <3> QED
        BY <2>2, <3>1, <3>2 DEF ServerInv, NightInv
    <2> QED
      BY <2>2, <2>6, <2>7, <2>8 DEF ServerInv
  <1> QED
    BY <1>1, <1>2, <1>3, <1>4, <1>5, <1>6, <1>7, <1>8 DEF Effects

LEMMA ServerStarts == Init => ServerInv
  <1> SUFFICES ASSUME Init PROVE ServerInv
    OBVIOUS
  <1>1. /\ \A i \in Ids : ~ Used(i) /\ ~ IsOpen(i)
        /\ \A c \in Calls : call[c] = Idle /\ call[c].at = "idle"
    BY DEF Init, Used, IsOpen, Idle
  <1> QED
    BY <1>1 DEF ServerInv, OwnInv, OneOpenSession, AloneInv, PressInv, WriteInv, NightInv

LEMMA ServerInvHolds ==
  ASSUME "overlap" \notin Adverse
  PROVE  AgentSpec => []ServerInv
  <1>1. AgentInit => ServerInv
    BY AgentStarts, ServerStarts
  <1>2. AgentInv /\ ServerInv /\ [AgentNext]_agentVars => ServerInv'
    BY AgentExchanges, ExchangesHaveEffects, ServerStep DEF AgentInv
  <1> QED
    BY <1>1, <1>2, AgentInvHolds, PTL DEF AgentSpec

-----------------------------------------------------------------------------
\* No moment is charged twice

LEMMA ShiftTicksAreFinite == ASSUME NEW spans PROVE IsFiniteSet(ShiftTicks(spans))
  <1>1. IsFiniteSet(Time)
    BY FS_Interval, ClockAssumption DEF Time
  <1> QED
    BY <1>1, FS_Subset DEF ShiftTicks

LEMMA IdleAdds ==
  ASSUME NEW a \in Int, NEW b \in Int, NEW c \in Int, a <= b, b <= c,
         NEW spans, \A s \in spans : Within(s, b, c)
  PROVE  IdleOf({<<a, b>>}) + IdleOf(spans) <= IdleOf({<<a, c>>})
  <1> DEFINE before == ShiftTicks({<<a, b>>})
             more == ShiftTicks(spans)
             all == ShiftTicks({<<a, c>>})
  <1>1. IsFiniteSet(before) /\ IsFiniteSet(more) /\ IsFiniteSet(all)
    BY ShiftTicksAreFinite
  <1>2. ASSUME NEW t \in more PROVE t \in Time /\ InShift(t) /\ b <= t /\ t < c
    <2>1. PICK s \in spans : t \in Time /\ InShift(t) /\ s[1] <= t /\ t < s[2]
      BY <1>2 DEF ShiftTicks
    <2>2. s[1] \in Int /\ s[2] \in Int /\ b <= s[1] /\ s[2] <= c
      BY DEF Within, Spans, Time
    <2> QED
      BY <2>1, <2>2 DEF Time
  <1>3. ASSUME NEW t \in before PROVE t \in Time /\ InShift(t) /\ a <= t /\ t < b
    BY <1>3 DEF ShiftTicks
  <1>4. before \cap more = {}
    BY <1>2, <1>3 DEF Time
  <1>5. before \cup more \subseteq all
    BY <1>2, <1>3 DEF Time, ShiftTicks
  <1> HIDE DEF before, more, all
  <1>6. Cardinality(before \cup more) = Cardinality(before) + Cardinality(more)
    <2>1. Cardinality(before) \in Nat /\ Cardinality(more) \in Nat
      BY <1>1, FS_CardinalityType
    <2>2. Cardinality(before \cup more)
            = Cardinality(before) + Cardinality(more) - Cardinality(before \cap more)
      BY <1>1, FS_Union
    <2>3. Cardinality(before \cap more) = 0
      BY <1>4, FS_EmptySet
    <2>4. PICK x, y : x = Cardinality(before) /\ y = Cardinality(more)
      OBVIOUS
    <2>5. x + y - 0 = x + y
      BY <2>1, <2>4
    <2> QED
      BY <2>2, <2>3, <2>4, <2>5
  <1>7. Cardinality(before \cup more) <= Cardinality(all)
    BY <1>1, <1>5, FS_Subset
  <1> QED
    BY <1>6, <1>7 DEF IdleOf, before, more, all

LEMMA DayEndIsFree ==
  ASSUME NEW t \in Nat
  PROVE  EndOfDay(t) \in Int /\ ~ InShift(EndOfDay(t))
  <1> DEFINE n == TicksPerDay
             d == t \div n
             e == (d + 1) * n - 1
             q == e \div n
             r == e % n
  <1>1. n \in Nat /\ 0 < n /\ ShiftEnd \in Nat /\ ShiftEnd < n
    BY ClockAssumption
  <1>2. d \in Int
    BY <1>1
  <1>3. e \in Int /\ e = n * d + (n - 1)
    BY <1>1, <1>2
  <1> HIDE DEF d, e, n
  <1>4. q \in Int /\ r \in 0 .. n - 1 /\ e = n * q + r
    BY <1>1, <1>3
  <1> HIDE DEF q, r
  <1>5. ~ (d < q)
    <2>1. SUFFICES ASSUME d < q PROVE FALSE
      OBVIOUS
    <2>2. PICK k \in Nat : q = d + 1 + k
      <3>1. q - d - 1 \in Nat
        BY <1>2, <1>4, <2>1
      <3> QED
        BY <1>2, <1>4, <3>1
    <2>3. n * q = n * d + n + n * k /\ n * k >= 0
      BY <1>1, <1>2, <2>2
    <2> QED
      BY <1>1, <1>2, <1>3, <1>4, <2>3
  <1>6. ~ (q < d)
    <2>1. SUFFICES ASSUME q < d PROVE FALSE
      OBVIOUS
    <2>2. PICK k \in Nat : d = q + 1 + k
      <3>1. d - q - 1 \in Nat
        BY <1>2, <1>4, <2>1
      <3> QED
        BY <1>2, <1>4, <3>1
    <2>3. n * d = n * q + n + n * k /\ n * k >= 0
      BY <1>1, <1>4, <2>2
    <2> QED
      BY <1>1, <1>3, <1>4, <2>3
  <1>7. d = q
    BY <1>2, <1>4, <1>5, <1>6
  <1>8. r = n - 1
    BY <1>1, <1>2, <1>3, <1>4, <1>7
  <1>9. e = EndOfDay(t) /\ r = EndOfDay(t) % TicksPerDay
    BY DEF EndOfDay, DayOf, d, e, n, r
  <1> QED
    BY <1>1, <1>3, <1>8, <1>9 DEF InShift, n

\* The clock is past the day of an open session by its first tick at most; the idle charged
\* fits what has passed of the session.
DayInv == \A i \in Ids : IsOpen(i) => now <= EndOfDay(session[i].in) + 1
SpentInv ==
  \A i \in Ids : Used(i) =>
    session[i].idle <= IdleOf({<<session[i].in, IF IsOpen(i) THEN session[i].beat
                                                ELSE session[i].out>>})

\* Closing a session at the end of its day, where it is seen alive a tick later, takes nothing
\* off the shift it covers.
LEMMA ClosingFits ==
  ASSUME SpanInv, ServerInv, DayInv, SpentInv, NEW i \in Ids, IsOpen(i)
  PROVE  session[i].idle <= IdleOf({<<session[i].in, CloseAt(i)>>})
  <1>1. PICK a, b, e, idle : /\ a = session[i].in /\ b = session[i].beat
                            /\ e = EndOfDay(session[i].in) /\ idle = session[i].idle
    OBVIOUS
  <1>2. a \in Nat /\ b \in Int /\ now \in Int
    BY <1>1, UsedIsRow DEF SpanInv, TypeOK, Time, IsOpen
  <1>3. e \in Int /\ ~ InShift(e)
    BY <1>1, <1>2, DayEndIsFree
  <1>4. b <= now /\ now <= e + 1
    BY <1>1 DEF ServerInv, OwnInv, DayInv, IsOpen
  <1>5. idle <= IdleOf({<<a, b>>})
    BY <1>1 DEF SpentInv, IsOpen
  <1>6. CASE b < e
    BY <1>1, <1>5, <1>6 DEF CloseAt
  <1>7. CASE ~ (b < e)
    <2>1. CloseAt(i) = e
      BY <1>1, <1>7 DEF CloseAt
    <2>2. ShiftTicks({<<a, b>>}) = ShiftTicks({<<a, e>>})
      <3>1. ASSUME NEW t \in Time, InShift(t) PROVE t < b <=> t < e
        <4>1. t # e
          BY <1>3, <3>1
        <4> QED
          BY <1>2, <1>3, <1>4, <1>7, <4>1 DEF Time
      <3> QED
        BY <3>1 DEF ShiftTicks
    <2> QED
      BY <1>1, <1>5, <2>1, <2>2 DEF IdleOf
  <1> QED
    BY <1>6, <1>7

LEMMA ClosingCloses ==
  ASSUME SpanInv, NEW i \in Ids, IsOpen(i)
  PROVE  CloseAt(i) # Open
  <1>1. session[i].in \in Nat /\ session[i].beat \in Nat
    BY UsedIsRow DEF SpanInv, IsOpen, Time
  <1>2. EndOfDay(session[i].in) \in Int /\ session[i].in <= EndOfDay(session[i].in)
    BY <1>1, DayEnds
  <1> QED
    BY <1>1, <1>2 DEF CloseAt, Open

LEMMA SpentStep ==
  ASSUME "lateNight" \notin Adverse, SpanInv, ServerInv, DayInv, SpentInv, Effects
  PROVE  DayInv' /\ SpentInv'
  <1>0. now \in Nat
    BY DEF SpanInv, TypeOK, Time
  <1>1. ASSUME UNCHANGED <<now, session>> PROVE DayInv' /\ SpentInv'
    <2>1. \A i \in Ids : (Used(i)' <=> Used(i)) /\ (IsOpen(i)' <=> IsOpen(i))
      BY <1>1 DEF Used, IsOpen
    <2> QED
      BY <1>1, <2>1 DEF DayInv, SpentInv
  <1>2. CASE DayPasses
    <2>1. now' = now + 1 /\ session' = session /\ \A i \in Ids : ~ Stale(i)
      BY <1>2 DEF DayPasses, Tick
    <2>2. \A i \in Ids : (Used(i)' <=> Used(i)) /\ (IsOpen(i)' <=> IsOpen(i))
      BY <2>1 DEF Used, IsOpen
    <2>3. ASSUME NEW i \in Ids, IsOpen(i) PROVE now + 1 <= EndOfDay(session[i].in) + 1
      <3>1. EndOfDay(session[i].in) = EndOfDay(now)
        BY <2>1, <2>3 DEF Stale, EndOfDay
      <3>2. EndOfDay(now) \in Int /\ now <= EndOfDay(now)
        BY <1>0, DayEnds
      <3> QED
        BY <1>0, <3>1, <3>2
    <2> QED
      BY <2>1, <2>2, <2>3 DEF DayInv, SpentInv
  <1>3. ASSUME NEW i \in Ids, Opened(i) PROVE DayInv' /\ SpentInv'
    <2>1. Unused \notin SessionRow
      BY DEF Unused, SessionRow
    <2>2. /\ Used(i)' /\ IsOpen(i)'
          /\ \A j \in Ids \ {i} : (Used(j)' <=> Used(j)) /\ ~ IsOpen(j)' /\ ~ IsOpen(j)
      BY <1>3, <2>1 DEF Opened, Others, Used, IsOpen
    <2>3. EndOfDay(now) \in Int /\ now <= EndOfDay(now)
      BY <1>0, DayEnds
    <2>4. DayInv'
      BY <1>0, <1>3, <2>2, <2>3 DEF Opened, DayInv
    <2>5. SpentInv'
      <3>1. 0 <= IdleOf({<<now, now>>})
        BY IdleIsNat
      <3> QED
        BY <1>3, <2>2, <3>1 DEF Opened, Others, SpentInv
    <2> QED
      BY <2>4, <2>5
  <1>4. ASSUME NEW i \in Ids, IsOpen(i), NEW out, NEW beat, NEW idle, Edited(i, out, beat, idle),
               now' = now,
               idle <= IdleOf({<<session[i].in, IF out = Open THEN beat ELSE out>>})
        PROVE  DayInv' /\ SpentInv'
    <2>1. Unused \notin SessionRow
      BY DEF Unused, SessionRow
    <2>2. /\ Used(i)' /\ (IsOpen(i)' <=> out = Open)
          /\ \A j \in Ids \ {i} : (Used(j)' <=> Used(j)) /\ (IsOpen(j)' <=> IsOpen(j))
      BY <1>4, <2>1 DEF Edited, Others, Used, IsOpen
    <2> QED
      BY <1>4, <2>2 DEF Edited, Others, DayInv, SpentInv
  <1>5. ASSUME NEW c \in Calls, NEW i \in Ids, IsOpen(i), Beaten(c, i) \/ Ended(c, i)
        PROVE  /\ session[i].idle + IdleOf(call[c].spans) <= IdleOf({<<session[i].in, call[c].t>>})
               /\ call[c].t # Open
    <2>1. /\ session[i].beat <= call[c].t
          /\ \A s \in call[c].spans : Within(s, session[i].beat, call[c].t)
      BY <1>5 DEF Beaten, Ended, ServerInv, WriteInv
    <2>2. call[c].t \in Time
      BY <1>5, CallShapes DEF SpanInv, Beaten, Ended, ById
    <2>3. /\ session[i].in \in Int /\ session[i].beat \in Int /\ call[c].t \in Int
          /\ session[i].in <= session[i].beat /\ session[i].idle \in Int
      BY <1>5, <2>2, UsedIsRow DEF SpanInv, SpanIsForward, IsOpen, Time
    <2>4. IdleOf({<<session[i].in, session[i].beat>>}) + IdleOf(call[c].spans)
            <= IdleOf({<<session[i].in, call[c].t>>})
      BY <2>1, <2>3, IdleAdds
    <2>5. session[i].idle <= IdleOf({<<session[i].in, session[i].beat>>})
      BY <1>5 DEF SpentInv, IsOpen
    <2>6. /\ IdleOf({<<session[i].in, session[i].beat>>}) \in Nat /\ IdleOf(call[c].spans) \in Nat
          /\ IdleOf({<<session[i].in, call[c].t>>}) \in Nat
      BY IdleIsNat
    <2> QED
      BY <2>2, <2>3, <2>4, <2>5, <2>6 DEF Time, Open
  <1>6. ASSUME NEW c \in Calls, NEW i \in Ids, IsOpen(i), Beaten(c, i) PROVE DayInv' /\ SpentInv'
    BY <1>4, <1>5, <1>6 DEF Beaten
  <1>7. ASSUME NEW c \in Calls, NEW i \in Ids, IsOpen(i), Ended(c, i) PROVE DayInv' /\ SpentInv'
    BY <1>4, <1>5, <1>7 DEF Ended
  <1>8. ASSUME NEW c \in Calls, NEW i \in Ids, IsOpen(i), Swept(c, i) PROVE DayInv' /\ SpentInv'
    <2>1. session[i].idle <= IdleOf({<<session[i].in, CloseAt(i)>>})
      BY <1>8, ClosingFits
    <2>2. CloseAt(i) # Open
      BY <1>8, ClosingCloses
    <2> QED
      BY <1>4, <1>8, <2>1, <2>2 DEF Swept
  <1> QED
    BY <1>1, <1>2, <1>3, <1>6, <1>7, <1>8 DEF Effects, vars, Loaded

\* While the employee's calls take turns at the server and the nightly job has run before the
\* next shift: whatever heartbeats are retried or
\* replayed, from however many clients, and whatever stops or restarts on the way, a closed
\* session is charged no moment of the shift twice and none outside its own span.
THEOREM IdleFitsItsSession ==
  ASSUME "lateNight" \notin Adverse, "overlap" \notin Adverse
  PROVE  AgentSpec => []IdleFitsSession
  <1>1. AgentInit => DayInv /\ SpentInv
    BY AgentStarts DEF Init, DayInv, SpentInv, IsOpen, Used
  <1>2. AgentInv /\ ServerInv /\ DayInv /\ SpentInv /\ [AgentNext]_agentVars => DayInv' /\ SpentInv'
    BY AgentExchanges, ExchangesHaveEffects, SpentStep DEF AgentInv
  <1>3. SpentInv => IdleFitsSession
    BY DEF SpentInv, IdleFitsSession, IsOpen
  <1> QED
    BY <1>1, <1>2, <1>3, AgentInvHolds, ServerInvHolds, PTL DEF AgentSpec

-----------------------------------------------------------------------------
\* Work is never charged

\* Nothing adverse happens; a request fails within the tick; the agent is stopped and told to
\* flush less often than it takes ticks to be idle; and what waits in the file is replayed.
Steady == Adverse = {} /\ MaxHang = 0 /\ MaxActs < IdleTicks /\ LastTick <= ReplayMax

\* The moments of work after the last beat of a session that no heartbeat will bring: each was
\* lost to a flush in whose way it came, or to a stop.
Aboard == sending # Quiet /\ sending.active
Missed(i) ==
  {t \in worked : /\ session[i].beat < t /\ t \notin queue
                  /\ t = now => ~ Stale(i) /\ ~ Aboard}
Credit == IF sending # Quiet /\ ~ polled THEN 1 ELSE 0
LossInv ==
  /\ acts <= MaxActs /\ Credit <= acts
  /\ \A i \in Ids : IsOpen(i) => Cardinality(Missed(i)) + Credit <= acts

\* The agent only thinks its employee is out when yesterday's session is all there is.
KnownInv == knownOut => \A i \in Ids : IsOpen(i) => Stale(i)
Fresh == \A i \in Ids : IsOpen(i) => session[i].beat = now
FlightInv ==
  sending # Quiet => /\ sending.since = now /\ sending.batch = queue
                     /\ sending.phase \in {"written", "refused"} => Fresh

WatchInv == LossInv /\ KnownInv /\ FlightInv

LEMMA AgentFacts ==
  ASSUME AgentInv
  PROVE  /\ now \in Nat /\ now <= LastTick /\ acts \in Nat
         /\ queue \subseteq 0 .. now /\ worked \subseteq 0 .. now
  BY ClockAssumption DEF AgentInv, AgentTyped, SpanInv, TypeOK, Time

LEMMA MissedIsFinite ==
  ASSUME AgentInv, NEW i
  PROVE  IsFiniteSet(Missed(i)) /\ Cardinality(Missed(i)) \in Nat
  <1>1. now \in Int /\ worked \subseteq 0 .. now
    BY AgentFacts
  <1>2. IsFiniteSet(worked)
    <2>1. IsFiniteSet(0 .. now)
      BY <1>1, FS_Interval
    <2> QED
      BY <1>1, <2>1, FS_Subset
  <1>3. IsFiniteSet(Missed(i))
    BY <1>2, FS_Subset DEF Missed
  <1> QED
    BY <1>3, FS_CardinalityType

\* Less is missed, or one moment more against one act or the credit of a flush.
LEMMA LossSteps ==
  ASSUME AgentInv, AgentInv', LossInv, acts' <= MaxActs, Credit' <= acts',
         \A i \in Ids : IsOpen(i)' =>
           \/ Missed(i)' = {}
           \/ /\ IsOpen(i) /\ Missed(i)' \subseteq Missed(i)
              /\ Credit' + acts <= acts' + Credit
           \/ /\ IsOpen(i) /\ \E t : Missed(i)' \subseteq Missed(i) \cup {t}
              /\ Credit' + 1 + acts <= acts' + Credit
  PROVE  LossInv'
  <1>1. PICK n, m, k, l : n = acts /\ m = acts' /\ k = Credit /\ l = Credit'
    OBVIOUS
  <1>3. n \in Nat /\ m \in Nat /\ k \in Nat /\ l \in Nat
    BY <1>1 DEF AgentInv, AgentTyped, Credit
  <1>2. ASSUME NEW i \in Ids, IsOpen(i)'
        PROVE  Cardinality(Missed(i)') + Credit' <= acts'
    <2>1. PICK a, b, x, y : a = Missed(i) /\ b = Missed(i)'
                            /\ x = Cardinality(a) /\ y = Cardinality(b)
      OBVIOUS
    <2>2. IsFiniteSet(a) /\ x \in Nat
      BY <2>1, MissedIsFinite
    <2>3. IsOpen(i) => x + k <= n
      BY <1>1, <2>1 DEF LossInv
    <2>4. CASE b = {}
      BY <1>1, <1>3, <2>1, <2>4, FS_EmptySet
    <2>5. CASE b # {} /\ IsOpen(i) /\ b \subseteq a /\ l + n <= m + k
      <3>1. y <= x /\ y \in Nat
        BY <2>1, <2>2, <2>5, FS_Subset, FS_CardinalityType
      <3>2. y + l <= m
        BY <1>3, <2>2, <2>3, <2>5, <3>1
      <3> QED
        BY <1>1, <2>1, <3>2
    <2>6. CASE /\ b # {} /\ IsOpen(i) /\ \E t : b \subseteq a \cup {t}
               /\ l + 1 + n <= m + k
      <3>1. PICK t : b \subseteq a \cup {t}
        BY <2>6
      <3>2. PICK z : z = Cardinality(a \cup {t})
        OBVIOUS
      <3>3. IsFiniteSet(a \cup {t}) /\ z = IF t \in a THEN x ELSE x + 1
        BY <2>1, <2>2, <3>2, FS_AddElement
      <3>4. y <= z /\ y \in Nat
        BY <2>1, <3>1, <3>2, <3>3, FS_Subset, FS_CardinalityType
      <3>5. y + l <= m
        BY <1>3, <2>2, <2>3, <2>6, <3>3, <3>4
      <3> QED
        BY <1>1, <2>1, <3>5
    <2> QED
      BY <1>1, <1>2, <2>1, <2>4, <2>5, <2>6
  <1> QED
    BY <1>2 DEF LossInv

\* A step that leaves the rows, the moments and the timers alone.
LEMMA WatchAside ==
  ASSUME AgentInv, AgentInv', LossInv, UNCHANGED <<now, session, worked, queue, polled, acts>>,
         sending' # Quiet <=> sending # Quiet, Aboard' <=> Aboard
  PROVE  LossInv' /\ (KnownInv /\ UNCHANGED knownOut => KnownInv') /\ (Fresh => Fresh')
  <1>1. \A i \in Ids : (IsOpen(i)' <=> IsOpen(i)) /\ (Stale(i)' <=> Stale(i))
    BY DEF IsOpen, Used, Stale
  <1>2. Credit' = Credit
    BY DEF Credit
  <1>3. \A i \in Ids : Missed(i)' \subseteq Missed(i)
    BY <1>1 DEF Missed
  <1>4. LossInv'
    BY <1>1, <1>2, <1>3, LossSteps DEF LossInv, AgentInv, AgentTyped, Credit
  <1> QED
    BY <1>1, <1>4 DEF KnownInv, Fresh

\* After a write every session still open has just been heard of.
LEMMA WatchWrite ==
  ASSUME AgentInv, AgentInv', LossInv, UNCHANGED <<now, polled, acts>>, Fresh',
         sending' # Quiet <=> sending # Quiet
  PROVE  LossInv'
  <1>1. Credit' = Credit
    BY DEF Credit
  <1>2. now' \in Nat /\ worked' \subseteq 0 .. now'
    <2>1. now' \in Nat
      BY DEF AgentInv, SpanInv, TypeOK, Time
    <2> QED
      BY <2>1 DEF AgentInv, AgentTyped
  <1>3. ASSUME NEW i \in Ids, IsOpen(i)' PROVE Missed(i)' = {}
    <2>1. session'[i].beat = now'
      BY <1>3 DEF Fresh
    <2>2. ASSUME NEW t \in Missed(i)' PROVE FALSE
      <3>1. t \in worked' /\ session'[i].beat < t
        BY <2>2 DEF Missed
      <3> QED
        BY <1>2, <2>1, <3>1
    <2> QED
      BY <2>2
  <1> QED
    BY <1>1, <1>3, LossSteps DEF LossInv

LEMMA EditFresh ==
  ASSUME SpanInv, ServerInv, now' = now, NEW i \in Ids, IsOpen(i), NEW out, NEW beat, NEW idle,
         beat <= now, Edited(i, out, beat, idle), out = Open => beat = now
  PROVE  Fresh' /\ \A j \in Ids : IsOpen(j)' => j = i /\ out = Open
  <1>1. /\ \A j \in Ids \ {i} : IsOpen(j)' <=> IsOpen(j)
        /\ IsOpen(i)' <=> out = Open
    BY EditKeeps
  <1>2. \A j \in Ids \ {i} : ~ IsOpen(j)
    <2>1. ASSUME NEW j \in Ids \ {i}, IsOpen(j) PROVE FALSE
      BY <2>1 DEF ServerInv, OwnInv, OneOpenSession, IsOpen
    <2> QED
      BY <2>1
  <1>3. session'[i].beat = beat
    BY DEF Edited
  <1> QED
    BY <1>1, <1>2, <1>3 DEF Fresh

LEMMA NoneFound ==
  ASSUME ServerInv, FindOpen(Me) = {NoSession}
  PROVE  \A i \in Ids : ~ IsOpen(i)
  <1>1. SUFFICES ASSUME NEW i \in Ids, IsOpen(i) PROVE FALSE
    OBVIOUS
  <1>2. session[i].user = Me
    BY <1>1 DEF ServerInv, OwnInv, IsOpen
  <1>3. NoSession \in FindOpen(Me) /\ NoSession \notin Ids
    BY NamesAssumption
  <1> QED
    BY <1>1, <1>2, <1>3 DEF FindOpen

LEMMA PhaseFacts ==
  ASSUME AgentInv, sending # Quiet, NEW p, Phase(p), p # "quiet"
  PROVE  /\ sending' # Quiet /\ (Aboard' <=> Aboard) /\ sending'.since = sending.since
         /\ sending'.batch = sending.batch /\ sending'.phase = p
         /\ UNCHANGED <<up, polled, queue, knownOut, marker, acts, worked>>
  <1>1. sending \in Flight
    BY DEF AgentInv, AgentTyped
  <1>2. sending' = [sending EXCEPT !.phase = p]
    BY DEF Phase
  <1>3. /\ sending'.phase = p /\ sending'.since = sending.since /\ sending'.batch = sending.batch
        /\ sending'.active = sending.active
    BY <1>1, <1>2 DEF Flight
  <1>4. sending' # Quiet
    BY <1>3 DEF Quiet
  <1> QED
    BY <1>3, <1>4 DEF Phase, Aboard
\* What each step of the agent does to the watch.
LEMMA TrackerWatch ==
  ASSUME AgentInv, AgentInv', ServerInv, WatchInv, NEW active \in BOOLEAN, TrackerTick(active)
  PROVE  WatchInv'
  <1>1. /\ UNCHANGED <<now, session, queue, knownOut, acts>> /\ ~ polled /\ polled' = TRUE
        /\ up /\ sending \in {Quiet} \cup Flight
    BY DEF TrackerTick, vars, AgentInv, AgentTyped
  <1>2. \A i \in Ids : (IsOpen(i)' <=> IsOpen(i)) /\ (Stale(i)' <=> Stale(i))
    BY <1>1 DEF IsOpen, Used, Stale
  <1>3. KnownInv' /\ (Fresh => Fresh')
    BY <1>1, <1>2 DEF WatchInv, KnownInv, Fresh
  <1>4. Credit' = 0
    BY <1>1 DEF Credit
  <1>5. worked' = worked \/ (active /\ worked' = worked \cup {now})
    BY DEF TrackerTick
  <1>6. acts \in Nat /\ acts' = acts /\ acts <= MaxActs /\ Credit \in Nat
    BY <1>1, AgentFacts DEF WatchInv, LossInv, Credit
  <1>7. CASE HasNews(active) /\ sending = Quiet
    <2>1. sending' = [phase |-> "out", batch |-> queue, active |-> active, since |-> now]
      BY <1>7 DEF TrackerTick, Send
    <2>2. /\ sending' # Quiet /\ sending'.since = now /\ sending'.batch = queue
          /\ sending'.phase = "out" /\ (Aboard' <=> active)
      BY <2>1 DEF Quiet, Aboard
    <2>3. FlightInv'
      BY <1>1, <2>2 DEF FlightInv
    <2>4. ~ Aboard /\ Credit = 0
      BY <1>7 DEF Aboard, Credit
    <2>5. \A i \in Ids : Missed(i)' \subseteq Missed(i)
      BY <1>1, <1>2, <1>5, <2>2, <2>4 DEF Missed
    <2>6. LossInv'
      BY <1>2, <1>4, <1>6, <2>4, <2>5, LossSteps DEF WatchInv
    <2> QED
      BY <1>3, <2>3, <2>6 DEF WatchInv
  <1>8. CASE HasNews(active) /\ sending # Quiet
    <2>1. sending' = sending
      BY <1>8 DEF TrackerTick, Send
    <2>2. FlightInv'
      BY <1>1, <1>3, <2>1 DEF WatchInv, FlightInv
    <2>3. Credit = 1
      BY <1>1, <1>8 DEF Credit
    <2>4. \A i \in Ids : Missed(i)' \subseteq Missed(i) \cup {now}
      BY <1>1, <1>2, <1>5, <2>1 DEF Missed, Aboard
    <2>5. LossInv'
      BY <1>2, <1>4, <1>6, <2>3, <2>4, LossSteps DEF WatchInv
    <2> QED
      BY <1>3, <2>2, <2>5 DEF WatchInv
  <1>9. CASE ~ HasNews(active)
    <2>1. sending' = sending
      BY <1>9 DEF TrackerTick
    <2>2. FlightInv'
      BY <1>1, <1>3, <2>1 DEF WatchInv, FlightInv
    <2>3. active => knownOut
      BY <1>9 DEF HasNews
    <2>4. ASSUME NEW i \in Ids, IsOpen(i) PROVE Missed(i)' \subseteq Missed(i)
      <3>1. active => Stale(i)
        BY <2>3, <2>4 DEF WatchInv, KnownInv
      <3> QED
        BY <1>1, <1>2, <1>5, <2>1, <2>4, <3>1 DEF Missed, Aboard
    <2>5. LossInv'
      BY <1>2, <1>4, <1>6, <2>4, LossSteps DEF WatchInv
    <2> QED
      BY <1>3, <2>2, <2>5 DEF WatchInv
  <1> QED
    BY <1>1, <1>7, <1>8, <1>9

LEMMA FlushWatch ==
  ASSUME AgentInv, AgentInv', WatchInv, Flush
  PROVE  WatchInv'
  <1>1. /\ UNCHANGED <<now, session, polled, queue, knownOut, worked>> /\ acts' = acts + 1
        /\ acts < MaxActs /\ sending = Quiet
        /\ sending' = [phase |-> "out", batch |-> queue, active |-> FALSE, since |-> now]
    BY DEF Flush, Send, vars
  <1>2. \A i \in Ids : (IsOpen(i)' <=> IsOpen(i)) /\ (Stale(i)' <=> Stale(i))
    BY <1>1 DEF IsOpen, Used, Stale
  <1>3. /\ sending'.since = now /\ sending'.batch = queue /\ sending'.phase = "out"
        /\ ~ Aboard' /\ ~ Aboard
    BY <1>1 DEF Aboard
  <1>4. KnownInv' /\ FlightInv'
    BY <1>1, <1>2, <1>3 DEF WatchInv, KnownInv, FlightInv
  <1>5. Credit = 0 /\ Credit' \in {0, 1}
    BY <1>1 DEF Credit
  <1>6. \A i \in Ids : Missed(i)' \subseteq Missed(i)
    BY <1>1, <1>2, <1>3 DEF Missed
  <1>7. acts \in Nat /\ MaxActs \in Nat
    BY AgentFacts, AgentAssumption
  <1>8. acts' <= MaxActs /\ Credit' <= acts' /\ Credit' + acts <= acts' + Credit
    <2>1. Credit = 0 /\ (Credit' = 0 \/ Credit' = 1)
      BY <1>5
    <2>2. acts' = acts + 1 /\ acts < MaxActs /\ acts \in Nat /\ MaxActs \in Nat
      BY <1>1, <1>7
    <2> QED
      BY <2>1, <2>2
  <1>9. LossInv'
    BY <1>2, <1>6, <1>8, LossSteps DEF WatchInv
  <1> QED
    BY <1>4, <1>9 DEF WatchInv

LEMMA AnsweredWatch ==
  ASSUME AgentInv, AgentInv', WatchInv, Answered
  PROVE  WatchInv'
  <1>1. /\ UNCHANGED <<now, session, polled, knownOut, acts, worked>>
        /\ sending.phase \in {"written", "refused"} /\ sending' = Quiet
        /\ queue' = queue \ sending.batch
    BY DEF Answered, Delivered, vars
  <1>2. \A i \in Ids : (IsOpen(i)' <=> IsOpen(i)) /\ (Stale(i)' <=> Stale(i))
    BY <1>1 DEF IsOpen, Used, Stale
  <1>3. sending # Quiet
    BY <1>1 DEF Quiet
  <1>4. Fresh
    BY <1>1, <1>3 DEF WatchInv, FlightInv
  <1>5. KnownInv' /\ FlightInv'
    BY <1>1, <1>2 DEF WatchInv, KnownInv, FlightInv
  <1>6. ASSUME NEW i \in Ids, IsOpen(i)' PROVE Missed(i)' = {}
    <2>1. session[i].beat = now /\ now \in Nat /\ worked \subseteq 0 .. now
      BY <1>2, <1>4, <1>6, AgentFacts DEF Fresh
    <2>2. ASSUME NEW t \in Missed(i)' PROVE FALSE
      <3>1. t \in worked /\ session[i].beat < t
        BY <1>1, <2>2 DEF Missed
      <3>2. t \in 0 .. now
        BY <2>1, <3>1
      <3> QED
        BY <2>1, <3>1, <3>2
    <2> QED
      BY <2>2
  <1>7. Credit' = 0 /\ acts \in Nat
    BY <1>1, AgentFacts DEF Credit
  <1>8. LossInv'
    BY <1>1, <1>6, <1>7, LossSteps DEF WatchInv, LossInv
  <1> QED
    BY <1>5, <1>8 DEF WatchInv

LEMMA FailedWatch ==
  ASSUME AgentInv, AgentInv', WatchInv, Failed
  PROVE  WatchInv'
  <1>1. /\ UNCHANGED <<now, session, polled, knownOut, acts, worked>>
        /\ sending # Quiet /\ sending' = Quiet
        /\ queue' = queue \cup IF sending.active THEN {sending.since} ELSE {}
    BY DEF Failed, Saved, vars
  <1>2. \A i \in Ids : (IsOpen(i)' <=> IsOpen(i)) /\ (Stale(i)' <=> Stale(i))
    BY <1>1 DEF IsOpen, Used, Stale
  <1>3. KnownInv' /\ FlightInv'
    BY <1>1, <1>2 DEF WatchInv, KnownInv, FlightInv
  <1>4. Aboard => now \in queue'
    BY <1>1 DEF Aboard, WatchInv, FlightInv
  <1>5. \A i \in Ids : Missed(i)' \subseteq Missed(i)
    BY <1>1, <1>2, <1>4 DEF Missed
  <1>6. Credit' = 0 /\ acts \in Nat /\ Credit \in Nat
    BY <1>1, AgentFacts DEF Credit
  <1>7. LossInv'
    BY <1>1, <1>2, <1>5, <1>6, LossSteps DEF WatchInv, LossInv
  <1> QED
    BY <1>3, <1>7 DEF WatchInv

LEMMA StopWatch ==
  ASSUME AgentInv, AgentInv', WatchInv, NEW shutdown \in BOOLEAN, Stop(shutdown)
  PROVE  WatchInv'
  <1>1. /\ UNCHANGED <<now, session, polled, queue, worked>>
        /\ acts < MaxActs /\ acts' = acts + 1 /\ sending' = Quiet /\ knownOut' = FALSE
    BY DEF Stop, vars
  <1>2. \A i \in Ids : (IsOpen(i)' <=> IsOpen(i)) /\ (Stale(i)' <=> Stale(i))
    BY <1>1 DEF IsOpen, Used, Stale
  <1>3. KnownInv' /\ FlightInv'
    BY <1>1 DEF KnownInv, FlightInv
  <1>4. \A i \in Ids : Missed(i)' \subseteq Missed(i) \cup {now}
    BY <1>1, <1>2 DEF Missed
  <1>5. Credit' = 0 /\ acts \in Nat /\ Credit \in Nat /\ MaxActs \in Nat
    BY <1>1, AgentFacts, AgentAssumption DEF Credit
  <1>6. LossInv'
    BY <1>1, <1>2, <1>4, <1>5, LossSteps DEF WatchInv
  <1> QED
    BY <1>3, <1>6 DEF WatchInv

LEMMA PollWatch ==
  ASSUME AgentInv, AgentInv', ServerInv, WatchInv, StatusPoll
  PROVE  WatchInv'
  <1>1. /\ UNCHANGED <<now, session, polled, queue, sending, acts, worked>>
        /\ knownOut' = ~ CheckedInToday
    BY DEF StatusPoll, vars
  <1>2. LossInv' /\ (Fresh => Fresh')
    BY <1>1, WatchAside DEF WatchInv, Aboard
  <1>3. FlightInv'
    BY <1>1, <1>2 DEF WatchInv, FlightInv
  <1>4. \A i \in Ids : (IsOpen(i)' <=> IsOpen(i)) /\ (Stale(i)' <=> Stale(i))
    BY <1>1 DEF IsOpen, Used, Stale
  <1>5. KnownInv'
    BY <1>1, <1>4 DEF KnownInv, CheckedInToday, ServerInv, OwnInv, IsOpen
  <1> QED
    BY <1>2, <1>3, <1>5 DEF WatchInv

LEMMA TickWatch ==
  ASSUME Steady, AgentInv, AgentInv', WatchInv, AgentTick
  PROVE  WatchInv'
  <1>1. /\ now' = now + 1 /\ UNCHANGED <<session, queue, sending, knownOut, acts, worked>>
        /\ sending # Quiet => now - sending.since < MaxHang
        /\ \A i \in Ids : ~ Stale(i)
    BY DEF AgentTick, Tick, Steady
  <1>2. now \in Nat /\ acts \in Nat /\ worked \subseteq 0 .. now
    BY AgentFacts
  <1>3. sending = Quiet
    BY <1>1, <1>2 DEF WatchInv, FlightInv, Steady
  <1>4. \A i \in Ids : IsOpen(i)' <=> IsOpen(i)
    BY <1>1 DEF IsOpen, Used
  <1>5. KnownInv' /\ FlightInv'
    BY <1>1, <1>3, <1>4 DEF WatchInv, KnownInv, FlightInv
  <1>6. ~ Aboard /\ Credit = 0 /\ Credit' = 0
    BY <1>1, <1>3 DEF Aboard, Credit
  <1>7. \A i \in Ids : Missed(i)' \subseteq Missed(i)
    BY <1>1, <1>2, <1>6 DEF Missed
  <1>8. LossInv'
    BY <1>1, <1>2, <1>4, <1>6, <1>7, LossSteps DEF WatchInv, LossInv
  <1> QED
    BY <1>5, <1>8 DEF WatchInv
\* The steps that only load a call, or lose one.
LEMMA CallWatch ==
  ASSUME AgentInv, AgentInv', WatchInv, UNCHANGED <<now, session>>,
         UNCHANGED <<polled, queue, sending, knownOut, acts, worked>>
  PROVE  WatchInv'
  <1>1. LossInv' /\ KnownInv' /\ (Fresh => Fresh')
    BY WatchAside DEF WatchInv, Aboard
  <1> QED
    BY <1>1 DEF WatchInv, FlightInv

LEMMA DeliverWatch ==
  ASSUME AgentInv, AgentInv', ServerInv, WatchInv, NEW c \in StaffCalls, Deliver(c)
  PROVE  WatchInv'
  <1>1. UNCHANGED <<now, session>> /\ sending.phase = "out"
    BY DEF Deliver, HeartbeatLoad, Loads, vars
  <1>2. sending # Quiet
    BY <1>1 DEF Quiet
  <1>3. PICK p \in {"served", "refused"} : Phase(p) /\ (p = "refused" => Fresh)
    BY NoneFound DEF Deliver, Fresh
  <1>4. /\ sending' # Quiet /\ (Aboard' <=> Aboard) /\ sending'.since = sending.since
        /\ sending'.batch = sending.batch /\ sending'.phase = p
        /\ UNCHANGED <<up, polled, queue, knownOut, marker, acts, worked>>
    BY <1>2, <1>3, PhaseFacts
  <1>5. LossInv' /\ KnownInv' /\ (Fresh => Fresh')
    BY <1>1, <1>2, <1>4, WatchAside DEF WatchInv
  <1>6. FlightInv'
    BY <1>1, <1>2, <1>3, <1>4, <1>5 DEF WatchInv, FlightInv
  <1> QED
    BY <1>5, <1>6 DEF WatchInv

LEMMA ServedWatch ==
  ASSUME AgentInv, AgentInv', ServerInv, WatchInv, NEW c \in StaffCalls, Served(c)
  PROVE  WatchInv'
  <1>1. PICK i \in Ids : IsOpen(i) /\ Beaten(c, i)
    BY HeartbeatEffect DEF Served, AgentInv, SpanInv
  <1>2. PICK t, idle : t = call[c].t /\ Edited(i, Open, t, idle) /\ now' = now
    BY <1>1 DEF Beaten
  <1>3. t = now /\ t <= now
    BY <1>1, <1>2, AgentFacts DEF Beaten, ServerInv, WriteInv, Calls
  <1>4. Fresh' /\ \A j \in Ids : IsOpen(j)' => j = i
    BY <1>1, <1>2, <1>3, EditFresh DEF AgentInv
  <1>5. /\ sending' # Quiet <=> sending # Quiet
        /\ sending # Quiet => sending'.since = sending.since /\ sending'.batch = sending.batch
        /\ UNCHANGED <<polled, queue, knownOut, acts, worked>>
    <2>1. CASE sending.phase = "served"
      <3>1. sending # Quiet /\ Phase("written")
        BY <2>1 DEF Quiet, Served
      <3> QED
        BY <3>1, PhaseFacts
    <2>2. CASE sending.phase # "served"
      BY <2>2 DEF Served, agent
    <2> QED
      BY <2>1, <2>2
  <1>6. LossInv'
    BY <1>2, <1>4, <1>5, WatchWrite DEF WatchInv
  <1>7. FlightInv'
    BY <1>2, <1>4, <1>5 DEF WatchInv, FlightInv
  <1>8. KnownInv'
    <2>1. ASSUME knownOut, IsOpen(i)' PROVE Stale(i)'
      <3>1. Stale(i)
        BY <1>1, <2>1 DEF WatchInv, KnownInv
      <3> QED
        BY <1>2, <2>1, <3>1 DEF Stale, Edited
    <2> QED
      BY <1>4, <1>5, <2>1 DEF KnownInv
  <1> QED
    BY <1>6, <1>7, <1>8 DEF WatchInv

\* A write after which no session is open any more.
LEMMA ClosedWatch ==
  ASSUME AgentInv, AgentInv', ServerInv, WatchInv, NEW i \in Ids, IsOpen(i),
         NEW out, out # Open, NEW idle, Edited(i, out, session[i].beat, idle),
         UNCHANGED <<now, polled, queue, sending, acts, worked>>
  PROVE  WatchInv'
  <1>1. PICK beat : beat = session[i].beat /\ Edited(i, out, beat, idle)
    OBVIOUS
  <1>2. beat <= now
    BY <1>1 DEF ServerInv, OwnInv, IsOpen
  <1>3. Fresh' /\ \A j \in Ids : ~ IsOpen(j)'
    BY <1>1, <1>2, EditFresh DEF AgentInv
  <1>4. LossInv'
    BY <1>3, WatchWrite DEF WatchInv
  <1> QED
    BY <1>3, <1>4 DEF WatchInv, FlightInv, KnownInv

LEMMA CheckedInWatch ==
  ASSUME Steady, AgentInv, AgentInv', ServerInv, WatchInv, NEW c \in StaffCalls, CheckedIn(c)
  PROVE  WatchInv'
  <1>1. UNCHANGED <<polled, queue, sending, acts, worked>> /\ ~ knownOut'
    BY DEF CheckedIn, Steady
  <1>2. CASE UNCHANGED <<now, session, gaps>> /\ Over
    <2>1. LossInv' /\ (Fresh => Fresh')
      BY <1>1, <1>2, WatchAside DEF WatchInv, Aboard
    <2> QED
      BY <1>1, <1>2, <2>1 DEF WatchInv, FlightInv, KnownInv
  <1>3. ASSUME NEW i \in Ids, Opened(i) PROVE WatchInv'
    <2>1. \A j \in Ids \ {i} : ~ IsOpen(j)'
      BY <1>3, OpenedKeeps DEF AgentInv
    <2>2. now' = now /\ session'[i].beat = now
      BY <1>3 DEF Opened
    <2>3. Fresh'
      BY <2>1, <2>2 DEF Fresh
    <2>4. LossInv'
      BY <1>1, <2>2, <2>3, WatchWrite DEF WatchInv
    <2> QED
      BY <1>1, <2>2, <2>3, <2>4 DEF WatchInv, FlightInv, KnownInv
  <1> QED
    BY <1>2, <1>3, InsertEffect DEF CheckedIn, AgentInv, SpanInv

LEMMA CheckedOutWatch ==
  ASSUME AgentInv, AgentInv', ServerInv, WatchInv, NEW c \in StaffCalls, CheckedOut(c)
  PROVE  WatchInv'
  <1>1. PICK i \in Ids : IsOpen(i) /\ Ended(c, i)
    BY CheckOutEffect DEF CheckedOut, AgentInv, SpanInv
  <1>2. call[c].t # Open
    BY <1>1, CallShapes DEF Ended, Calls, AgentInv, SpanInv, ById, Time, Open
  <1> QED
    BY <1>1, <1>2, ClosedWatch DEF Ended, CheckedOut

LEMMA NightWatch ==
  ASSUME AgentInv, AgentInv', ServerInv, WatchInv, Nightly
  PROVE  WatchInv'
  <1>1. PICK c \in NightlyCalls : (ServerIdle /\ NightlyRead(c)) \/ NightlyWrite(c)
    BY DEF Nightly
  <1>2. UNCHANGED <<polled, queue, sending, knownOut, acts, worked>>
    BY DEF Nightly, agent
  <1>3. CASE NightlyRead(c)
    BY <1>2, <1>3, CallWatch DEF NightlyRead
  <1>4. CASE NightlyWrite(c)
    <2>1. PICK i \in Ids : IsOpen(i) /\ Swept(c, i)
      BY <1>4, NightEffect DEF AgentInv, SpanInv
    <2>2. CloseAt(i) # Open
      BY <2>1, ClosingCloses DEF AgentInv
    <2> QED
      BY <1>2, <2>1, <2>2, ClosedWatch DEF Swept
  <1> QED
    BY <1>1, <1>3, <1>4

LEMMA WatchStep ==
  ASSUME Steady, AgentInv, AgentInv', ServerInv, WatchInv, [AgentNext]_agentVars
  PROVE  WatchInv'
  <1>1. ASSUME NEW c \in StaffCalls, CheckInPress(c) \/ CheckOutPress(c) \/ WebHeartbeat(c)
        PROVE  WatchInv'
    <2>1. UNCHANGED <<now, session>> /\ UNCHANGED <<polled, queue, sending, knownOut, acts, worked>>
      BY <1>1 DEF CheckInPress, CheckOutPress, WebHeartbeat, CheckInLoad, CheckOutLoad,
                  HeartbeatLoad, Loads, agent
    <2> QED
      BY <2>1, CallWatch
  <1>2. ASSUME NEW c \in StaffCalls, Launch(c) PROVE WatchInv'
    <2>1. UNCHANGED <<now, session>> /\ UNCHANGED <<polled, queue, sending, knownOut, acts, worked>>
      BY <1>2 DEF Launch, CheckOutLoad, Loads, vars
    <2> QED
      BY <2>1, CallWatch
  <1>3. CASE ServerRestart \/ UNCHANGED agentVars
    <2>1. UNCHANGED <<now, session>> /\ UNCHANGED <<polled, queue, sending, knownOut, acts, worked>>
      BY <1>3 DEF ServerRestart, Restart, agentVars, agent, vars
    <2> QED
      BY <2>1, CallWatch
  <1> QED
    BY <1>1, <1>2, <1>3, TrackerWatch, FlushWatch, AnsweredWatch, FailedWatch, PollWatch, StopWatch,
       DeliverWatch, ServedWatch, CheckedInWatch, CheckedOutWatch, NightWatch, TickWatch
    DEF AgentNext
\* A stretch with a moment at which nobody worked.
Gap(s) == s[2] <= now /\ \E t \in s[1] + 1 .. s[2] - 1 : t \notin worked
GapInv ==
  /\ \A i \in Ids, s \in Spans : gaps[i][s] > 0 => Gap(s)
  /\ \A c \in Calls : call[c].at \in {"beat", "checkOut"} =>
       \A s \in call[c].spans : s \in Spans /\ Gap(s)

\* An idle stretch is longer than all that was missed, and what was not missed is known to the
\* server when it measures the stretch.
LEMMA StretchHasGap ==
  ASSUME Steady, AgentInv, ServerInv, WatchInv, NEW i \in Ids, IsOpen(i), NEW moments,
         \A m \in moments : m \in Int /\ session[i].beat < m /\ m < now,
         \A t \in queue : session[i].beat < t /\ t < now => t \in moments,
         NEW s \in IdleSpans(session[i].beat, moments, now)
  PROVE  s \in Spans /\ Gap(s)
  <1>1. PICK a, b, d : a = s[1] /\ b = s[2] /\ d = session[i].beat
    OBVIOUS
  <1>2. d \in Time /\ now \in Time /\ d <= now
    BY <1>1, UsedIsRow DEF AgentInv, SpanInv, TypeOK, ServerInv, OwnInv, IsOpen
  <1>3. /\ Within(s, d, now) /\ b - a > IdleTicks
        /\ \A m \in moments : m <= a \/ b <= m
    BY <1>1, <1>2, SpanFacts
  <1>4. s \in Spans /\ a \in Nat /\ b \in Nat /\ d <= a /\ b <= now /\ d \in Int /\ now \in Nat
    BY <1>1, <1>2, <1>3 DEF Within, Spans, Time
  <1>5. ASSUME \A t \in a + 1 .. b - 1 : t \in worked PROVE FALSE
    <2>1. ASSUME NEW t \in a + 1 .. b - 1 PROVE t \in Missed(i)
      <3>1. t \in worked /\ d < t /\ t < now /\ t \in Int
        BY <1>4, <1>5
      <3>2. t \notin moments
        BY <1>3, <1>4
      <3>3. t \notin queue
        BY <1>1, <3>1, <3>2
      <3> QED
        BY <1>1, <1>4, <3>1, <3>3 DEF Missed
    <2>2. PICK x, y : x = Cardinality(a + 1 .. b - 1) /\ y = Cardinality(Missed(i))
      OBVIOUS
    <2>3. IsFiniteSet(Missed(i)) /\ y \in Nat
      BY <2>2, MissedIsFinite
    <2>4. x <= y
      BY <2>1, <2>2, <2>3, FS_Subset
    <2>5. IdleTicks \in Nat /\ MaxActs \in Nat /\ acts \in Nat
      BY ClockAssumption, AgentAssumption, AgentFacts
    <2>6. x = b - a - 1
      <3>1. a + 1 \in Int /\ b - 1 \in Int /\ (b - a = 1 \/ a + 1 <= b - 1)
        BY <1>3, <1>4, <2>5
      <3>2. x = IF a + 1 > b - 1 THEN 0 ELSE (b - 1) - (a + 1) + 1
        BY <1>4, <2>2, FS_Interval
      <3> QED
        BY <1>4, <3>1, <3>2
    <2>7. y <= acts
      <3>1. Credit \in {0, 1} /\ y + Credit <= acts
        BY <2>2 DEF WatchInv, LossInv, Credit
      <3> QED
        BY <2>3, <2>5, <3>1
    <2>8. acts <= MaxActs /\ MaxActs < IdleTicks
      BY DEF WatchInv, LossInv, Steady
    <2> QED
      BY <1>3, <1>4, <2>3, <2>4, <2>5, <2>6, <2>7, <2>8
  <1> QED
    BY <1>1, <1>4, <1>5 DEF Gap

\* What a step makes a call carry are stretches with a gap.
NewSpans ==
  \A c \in Calls : call'[c].at \in {"beat", "checkOut"} =>
    \/ call'[c] = call[c]
    \/ \A s \in call'[c].spans : s \in Spans /\ Gap(s)

LEMMA LoadedSpans ==
  ASSUME NEW c \in Calls, NEW x, Loaded(c, x),
         x.at \in {"beat", "checkOut"} => \A s \in x.spans : s \in Spans /\ Gap(s)
  PROVE  NewSpans
  <1>1. Idle.at = "idle"
    BY DEF Idle
  <1> QED
    BY <1>1 DEF Loaded, NewSpans

LEMMA BeatSpans ==
  ASSUME Steady, AgentInv, ServerInv, WatchInv, ServerIdle, NEW c \in StaffCalls,
         NEW fromDesktop \in BOOLEAN, NEW offlineAt \in SUBSET (0 .. now),
         (fromDesktop /\ offlineAt = queue) \/ queue = {},
         HeartbeatLoad(c, Me, offlineAt, fromDesktop)
  PROVE  NewSpans
  <1>1. PICK i \in Ids :
           /\ IsOpen(i)
           /\ Loaded(c, [at |-> "beat", id |-> i, t |-> now,
                         spans |-> IdleSpans(session[i].beat, Replayed(i, offlineAt, fromDesktop), now)])
    BY BeatLoadEffect DEF AgentInv, SpanInv
  <1> DEFINE moments == Replayed(i, offlineAt, fromDesktop)
  <1>2. \A m \in moments : m \in Int /\ session[i].beat < m /\ m < now
    BY ReplayedFacts
  <1>3. ASSUME NEW t \in queue, session[i].beat < t, t < now PROVE t \in moments
    <2>1. session[i].source = "DESKTOP"
      BY <1>1 DEF ServerInv, OwnInv, IsOpen
    <2>2. t \in 0 .. now /\ now \in Nat /\ now <= LastTick /\ LastTick <= ReplayMax
      BY <1>3, AgentFacts DEF Steady
    <2>3. ReplayMax \in Nat /\ LastTick \in Nat
      BY ClockAssumption
    <2>4. now - ReplayMax <= t
      BY <2>2, <2>3
    <2> QED
      BY <1>3, <2>1, <2>4 DEF Replayed
  <1> HIDE DEF moments
  <1>4. \A s \in IdleSpans(session[i].beat, moments, now) : s \in Spans /\ Gap(s)
    BY <1>1, <1>2, <1>3, StretchHasGap
  <1> DEFINE x == [at |-> "beat", id |-> i, t |-> now, spans |-> IdleSpans(session[i].beat, moments, now)]
  <1>5. Loaded(c, x) /\ x.spans = IdleSpans(session[i].beat, moments, now)
    BY <1>1 DEF moments
  <1> HIDE DEF x
  <1> QED
    BY <1>4, <1>5, LoadedSpans DEF Calls

LEMMA OutSpans ==
  ASSUME Steady, AgentInv, ServerInv, WatchInv, ServerIdle, NEW c \in StaffCalls,
         NEW reconcile \in BOOLEAN, reconcile \/ queue = {}, CheckOutLoad(c, Me, reconcile)
  PROVE  NewSpans
  <1>1. PICK i \in Ids :
          /\ IsOpen(i)
          /\ Loaded(c, [at |-> "checkOut", id |-> i,
                        t |-> IF reconcile THEN session[i].beat ELSE now,
                        spans |-> IF reconcile THEN {} ELSE IdleSpans(session[i].beat, {}, now)])
    BY OutLoadEffect DEF AgentInv, SpanInv
  <1> DEFINE spans == IF reconcile THEN {} ELSE IdleSpans(session[i].beat, {}, now)
             x == [at |-> "checkOut", id |-> i,
                   t |-> IF reconcile THEN session[i].beat ELSE now, spans |-> spans]
  <1>2. ~ reconcile => \A s \in IdleSpans(session[i].beat, {}, now) : s \in Spans /\ Gap(s)
    BY <1>1, StretchHasGap
  <1>3. \A s \in spans : s \in Spans /\ Gap(s)
    BY <1>2
  <1>4. Loaded(c, x)
    BY <1>1
  <1> HIDE DEF spans
  <1>5. x.spans = spans
    OBVIOUS
  <1> HIDE DEF x
  <1> QED
    BY <1>3, <1>4, <1>5, LoadedSpans DEF Calls

LEMMA AgentSpans ==
  ASSUME Steady, AgentInv, ServerInv, WatchInv, [AgentNext]_agentVars
  PROVE  NewSpans
  <1>1. queue \in SUBSET (0 .. now) /\ TypeOK
    BY AgentFacts DEF AgentInv, SpanInv
  <1>2. CASE UNCHANGED call
    BY <1>2 DEF NewSpans
  <1>3. ASSUME NEW c \in StaffCalls, Deliver(c) PROVE NewSpans
    <2>1. CASE UNCHANGED vars
      BY <1>2, <2>1 DEF vars
    <2>2. CASE HeartbeatLoad(c, Me, sending.batch, TRUE)
      <3>1. sending.batch = queue
        BY <1>3 DEF Deliver, WatchInv, FlightInv, Quiet
      <3> QED
        BY <1>1, <1>3, <2>2, <3>1, BeatSpans DEF Deliver
    <2> QED
      BY <1>3, <2>1, <2>2 DEF Deliver
  <1>4. ASSUME NEW c \in StaffCalls, Served(c) \/ CheckedIn(c) \/ CheckedOut(c) PROVE NewSpans
    <2>1. Over
      BY <1>1, <1>4, HeartbeatEffect, InsertEffect, CheckOutEffect
      DEF Served, CheckedIn, CheckedOut, Beaten, Ended, Opened
    <2> QED
      BY <2>1 DEF Over, NewSpans, Idle
  <1>5. ASSUME NEW c \in StaffCalls, CheckInPress(c) PROVE NewSpans
    <2>1. \E x : Loaded(c, x) /\ x.at = "checkIn"
      BY <1>1, <1>5, PressEffect DEF CheckInPress
    <2> QED
      BY <2>1, LoadedSpans DEF Calls
  <1>6. ASSUME NEW c \in StaffCalls, CheckOutPress(c) PROVE NewSpans
    BY <1>6, OutSpans DEF CheckOutPress, ServerTakes, Steady
  <1>7. ASSUME NEW c \in StaffCalls, Launch(c) PROVE NewSpans
    BY <1>2, <1>7, OutSpans DEF Launch, vars
  <1>8. ASSUME NEW c \in StaffCalls, WebHeartbeat(c) PROVE NewSpans
    BY <1>8, BeatSpans DEF WebHeartbeat, Steady
  <1>9. CASE Nightly
    <2>1. PICK c \in NightlyCalls : (ServerIdle /\ NightlyRead(c)) \/ NightlyWrite(c)
      BY <1>9 DEF Nightly
    <2>2. CASE NightlyRead(c)
      <3>1. \E x : Become(c, x) /\ x.at = "night"
        BY <2>2 DEF NightlyRead
      <3> QED
        BY <1>1, <3>1 DEF TypeOK, Become, NewSpans, Calls
    <2>3. CASE NightlyWrite(c)
      <3>1. PICK i \in Ids : Swept(c, i)
        BY <1>1, <2>3, NightEffect
      <3> QED
        BY <3>1 DEF Swept, Idle, NewSpans
    <2> QED
      BY <2>1, <2>2, <2>3
  <1>10. CASE ServerRestart
    BY <1>10 DEF ServerRestart, Restart, Idle, NewSpans
  <1>11. ASSUME NEW b \in BOOLEAN, TrackerTick(b) \/ Stop(b) PROVE NewSpans
    BY <1>2, <1>11 DEF TrackerTick, Stop, vars
  <1>12. CASE Flush \/ Answered \/ Failed \/ StatusPoll \/ AgentTick \/ UNCHANGED agentVars
    BY <1>2, <1>12 DEF Flush, Answered, Failed, StatusPoll, AgentTick, Tick, agentVars, vars
  <1> QED
    BY <1>3, <1>4, <1>5, <1>6, <1>7, <1>8, <1>9, <1>10, <1>11, <1>12 DEF AgentNext
LEMMA WorkGrows ==
  ASSUME AgentInv, [AgentNext]_agentVars
  PROVE  worked' \subseteq worked \cup {now} /\ now' \in Int /\ now <= now'
  <1>1. now \in Nat
    BY AgentFacts
  <1>2. now' \in Int /\ now <= now'
    <2>1. now' = now \/ now' = now + 1
      <3>1. Exchanges
        BY AgentExchanges DEF AgentInv
      <3> QED
        BY <3>1 DEF Exchanges, Exchange, DayPasses, Tick, Restart, CheckInLoad, HeartbeatLoad,
                    CheckOutLoad, Loads, CheckInWrite, HeartbeatWrite, CheckOutWrite, Writes,
                    NightlyRead, NightlyWrite, vars
    <2> QED
      BY <1>1, <2>1
  <1>3. ASSUME NEW active \in BOOLEAN, TrackerTick(active) PROVE worked' \subseteq worked \cup {now}
    BY <1>3 DEF TrackerTick
  <1>4. ASSUME NEW c \in StaffCalls,
               Deliver(c) \/ Served(c) \/ CheckInPress(c) \/ CheckedIn(c) \/ CheckOutPress(c)
                 \/ CheckedOut(c) \/ Launch(c) \/ WebHeartbeat(c)
        PROVE  worked' = worked
    BY <1>4 DEF Deliver, Served, CheckInPress, CheckedIn, CheckOutPress, CheckedOut, Launch,
                WebHeartbeat, Phase, agent
  <1>5. ASSUME NEW shutdown \in BOOLEAN, Stop(shutdown) PROVE worked' = worked
    BY <1>5 DEF Stop
  <1>6. CASE Flush \/ Answered \/ Failed \/ StatusPoll \/ Nightly \/ ServerRestart \/ AgentTick
               \/ UNCHANGED agentVars
    BY <1>2, <1>6 DEF Flush, Answered, Failed, StatusPoll, Nightly, ServerRestart, AgentTick,
                      agentVars, agent
  <1> QED
    BY <1>2, <1>3, <1>4, <1>5, <1>6 DEF AgentNext

LEMMA GapLasts ==
  ASSUME AgentInv, [AgentNext]_agentVars, NEW s \in Spans, Gap(s)
  PROVE  Gap(s)'
  <1>1. PICK t \in s[1] + 1 .. s[2] - 1 : t \notin worked
    BY DEF Gap
  <1>2. s[1] \in Int /\ s[2] \in Int /\ s[2] <= now /\ now \in Nat
    BY AgentFacts DEF Spans, Time, Gap
  <1>3. worked' \subseteq worked \cup {now} /\ now' \in Int /\ now <= now'
    BY WorkGrows
  <1>4. t \notin worked' /\ s[2] <= now'
    BY <1>1, <1>2, <1>3
  <1> QED
    BY <1>1, <1>4 DEF Gap

LEMMA GapStep ==
  ASSUME Steady, AgentInv, ServerInv, WatchInv, GapInv, [AgentNext]_agentVars
  PROVE  GapInv'
  <1>1. SpanInv /\ TypeOK /\ Effects /\ NewSpans
    BY AgentExchanges, ExchangesHaveEffects, AgentSpans DEF AgentInv, SpanInv, Steady
  <1>2. ASSUME NEW i \in Ids, NEW s \in Spans, gaps'[i][s] > 0 PROVE Gap(s)
    <2>1. CASE gaps'[i] = gaps[i]
      BY <1>2, <2>1 DEF GapInv
    <2>2. ASSUME NEW c \in Calls, NEW j \in Ids, Beaten(c, j) \/ Ended(c, j) PROVE Gap(s)
      <3>1. call[c].at \in {"beat", "checkOut"} /\ Charged(j, call[c].spans)
        BY <2>2 DEF Beaten, Ended
      <3>2. CASE i = j /\ s \in call[c].spans
        BY <3>1, <3>2 DEF GapInv
      <3>3. CASE i = j /\ s \notin call[c].spans
        <4>1. gaps'[i][s] = gaps[i][s] + 0
          BY <3>1, <3>3 DEF Charged
        <4>2. gaps[i][s] \in Nat
          BY <1>1 DEF TypeOK
        <4> QED
          BY <1>2, <4>1, <4>2 DEF GapInv
      <3>4. CASE i # j
        BY <2>1, <3>1, <3>4 DEF Charged
      <3> QED
        BY <3>2, <3>3, <3>4
    <2>3. CASE UNCHANGED gaps
      BY <2>1, <2>3
    <2> QED
      BY <1>1, <2>2, <2>3 DEF Effects, vars, DayPasses, Tick, Loaded, Opened, Swept
  <1>3. ASSUME NEW i \in Ids, NEW s \in Spans, gaps'[i][s] > 0 PROVE Gap(s)'
    BY <1>2, <1>3, GapLasts
  <1>4. ASSUME NEW c \in Calls, call'[c].at \in {"beat", "checkOut"}, NEW s \in call'[c].spans
        PROVE  s \in Spans /\ Gap(s)'
    <2>1. s \in Spans /\ Gap(s)
      BY <1>1, <1>4 DEF NewSpans, GapInv
    <2> QED
      BY <2>1, GapLasts
  <1> QED
    BY <1>3, <1>4 DEF GapInv

\* While nothing adverse happens, requests fail within the tick, the agent is stopped and told to
\* flush less often than it takes ticks to be idle, and what waits in the file is still replayed:
\* whatever heartbeats and answers are lost, and whenever the agent or the server restarts, no
\* stretch of uninterrupted work is ever charged as idle.
THEOREM WorkIsNeverIdle ==
  ASSUME Adverse = {}, MaxHang = 0, MaxActs < IdleTicks, LastTick <= ReplayMax
  PROVE  AgentSpec => []WorkIsNotIdle
  <1>1. Steady
    BY DEF Steady
  <1>2. AgentInit => WatchInv /\ GapInv
    <2> SUFFICES ASSUME AgentInit PROVE WatchInv /\ GapInv
      OBVIOUS
    <2>1. /\ Init /\ sending = Quiet /\ ~ knownOut /\ acts = 0
      BY DEF AgentInit
    <2>2. /\ \A i \in Ids : ~ IsOpen(i) /\ \A s \in Spans : ~ (gaps[i][s] > 0)
          /\ \A c \in Calls : call[c].at = "idle"
      BY <2>1 DEF Init, IsOpen, Used, Idle
    <2>3. Credit = 0 /\ 0 <= MaxActs
      BY <2>1, AgentAssumption DEF Credit
    <2> QED
      BY <2>1, <2>2, <2>3 DEF WatchInv, LossInv, KnownInv, FlightInv, GapInv
  <1>3. AgentInv /\ AgentInv' /\ ServerInv /\ WatchInv /\ GapInv /\ [AgentNext]_agentVars
          => WatchInv' /\ GapInv'
    BY <1>1, WatchStep, GapStep
  <1>4. GapInv => WorkIsNotIdle
    BY DEF GapInv, Gap, WorkIsNotIdle
  <1>5. AgentSpec => []ServerInv
    BY <1>1, ServerInvHolds DEF Steady
  <1> QED
    BY <1>2, <1>3, <1>4, <1>5, AgentInvHolds, PTL DEF AgentSpec
=============================================================================
