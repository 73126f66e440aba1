----------------------------- MODULE Attendance -----------------------------
(***************************************************************************)
(* Attendance sessions on the server                                       *)
(* (apps/api/src/attendance/attendance.service.ts, and autoCloseStale of   *)
(* attendance-compute.service.ts).                                         *)
(*                                                                         *)
(* check-in, heartbeat and check-out each look for the open session and    *)
(* later write by id; the nightly job reads every open session and closes  *)
(* the stale ones one by one.  call[c] is what activation c carries in     *)
(* between.                                                                *)
(***************************************************************************)
EXTENDS AttendanceRules

CONSTANTS
  Ids,          \* row ids of sessions (bound on their number)
  NoSession,    \* what findOpenSession returns when there is none
  Users,
  Sources,      \* AttendanceSource: the clients in use
  Keys, NoKey,  \* idempotency keys a client may send, and none
  StaffCalls,   \* bound: concurrent calls of employees
  NightlyCalls, \* the nightly job and the recompute on demand
  IdleTicks,    \* idleMinutes
  ReplayMax     \* OFFLINE_REPLAY_MAX_MS

ASSUME ClockAssumption ==
  /\ {TicksPerDay, ShiftStart, ShiftEnd, IdleTicks, ReplayMax, LastTick} \subseteq Nat
  /\ 0 < TicksPerDay /\ ShiftEnd < TicksPerDay
ASSUME NamesAssumption ==
  /\ Sources \subseteq {"WEB", "DESKTOP"}
  /\ NoSession \notin Ids /\ NoKey \notin Keys /\ StaffCalls \cap NightlyCalls = {}

VARIABLES
  now,
  session,  \* [Ids -> row of AttendanceSession, or Unused]
  gaps,     \* [Ids -> [Spans -> Nat]]: rows of AttendanceIdleGap, how many of each stretch
  call

vars == <<now, session, gaps, call>>
database == <<session, gaps>>

-----------------------------------------------------------------------------
Calls == StaffCalls \cup NightlyCalls

SessionRow ==
  [user : Users, in : Time, out : Time \cup {Open}, beat : Time, idle : Nat,
   source : Sources, key : Keys \cup {NoKey}]
Unused == [user |-> "none"]
Used(i) == session[i] # Unused
IsOpen(i) == Used(i) /\ session[i].out = Open

Idle == [at |-> "idle"]
CheckIn == [at : {"checkIn"}, user : Users, t : Time, source : Sources, key : Keys \cup {NoKey}]
ById == [at : {"beat", "checkOut"}, id : Ids, t : Time, spans : SUBSET Spans]
Night == [at : {"night"}, close : UNION {[S -> Time] : S \in SUBSET Ids}]
CallState == {Idle} \cup CheckIn \cup ById \cup Night

-----------------------------------------------------------------------------
(* The idle rules of the service.                                           *)
\* idleGaps: the silences between successive activity points, idleGap on each.
IdleSpansAnyLength(since, moments, t) ==
  LET points == {since, t} \cup moments
  IN {s \in Spans : /\ {s[1], s[2]} \subseteq points
                    /\ \A p \in points : p <= s[1] \/ s[2] <= p
                    /\ ShiftTicks({s}) # {}}
IdleSpans(since, moments, t) ==
  {s \in IdleSpansAnyLength(since, moments, t) : s[2] - s[1] > IdleTicks}

\* The self-reported moments a heartbeat accepts.
ReplayedFromAnyTime(i, offlineAt, fromDesktop) ==
  {d \in offlineAt : /\ fromDesktop /\ session[i].source = "DESKTOP"
                     /\ now - ReplayMax <= d /\ d < now}
Replayed(i, offlineAt, fromDesktop) ==
  {d \in offlineAt : /\ fromDesktop /\ session[i].source = "DESKTOP"
                     /\ session[i].beat < d /\ now - ReplayMax <= d /\ d < now}

\* findOpenSession: the latest check-in.
FindLatest(u) ==
  LET own == {i \in Ids : Used(i) /\ session[i].user = u}
  IN IF own = {} THEN {NoSession}
     ELSE {i \in own : \A j \in own : session[j].in <= session[i].in}
FindOpen(u) ==
  LET open == {i \in Ids : IsOpen(i) /\ session[i].user = u}
  IN IF open = {} THEN {NoSession}
     ELSE {i \in open : \A j \in open : session[j].in <= session[i].in}

KeyTaken(key) == key # NoKey /\ \E i \in Ids : Used(i) /\ session[i].key = key

-----------------------------------------------------------------------------
Init ==
  /\ now = 0
  /\ session = [i \in Ids |-> Unused]
  /\ gaps = [i \in Ids |-> [s \in Spans |-> 0]]
  /\ call = [c \in Calls |-> Idle]

Become(c, next) == call' = [call EXCEPT ![c] = next]
Loads(c) == c \in StaffCalls /\ call[c] = Idle /\ UNCHANGED <<now, session, gaps>>
Writes(c, kind) == c \in StaffCalls /\ call[c].at = kind /\ Become(c, Idle) /\ UNCHANGED now

\* checkIn: a key already used returns its session and changes nothing.
MayCheckIn(u) == FindOpen(u) = {NoSession}
CheckInLoad(c, u, key, source) ==
  /\ Loads(c)
  /\ ~ KeyTaken(key)
  /\ MayCheckIn(u)
  /\ Become(c, [at |-> "checkIn", user |-> u, t |-> now, source |-> source, key |-> key])

\* The insert; the unique index refuses a key taken meanwhile.
InsertAnyKey(c) ==
  \E i \in Ids :
    /\ ~ Used(i)
    /\ session' = [session EXCEPT ![i] =
         [user |-> call[c].user, in |-> call[c].t, out |-> Open, beat |-> call[c].t, idle |-> 0,
          source |-> call[c].source, key |-> call[c].key]]
Insert(c) == IF KeyTaken(call[c].key) THEN UNCHANGED session ELSE InsertAnyKey(c)
CheckInWrite(c) == Writes(c, "checkIn") /\ Insert(c) /\ UNCHANGED gaps

\* heartbeat: an open session is found, and the silences since its last beat measured.
HeartbeatLoad(c, u, offlineAt, fromDesktop) ==
  /\ Loads(c)
  /\ \E i \in FindOpen(u) \ {NoSession} :
       Become(c, [at |-> "beat", id |-> i, t |-> now,
                  spans |-> IdleSpans(session[i].beat, Replayed(i, offlineAt, fromDesktop), now)])

\* The transactions of heartbeat and checkOut: the session and the idle stretches.
Charge(i, spans, row) ==
  /\ session' = [session EXCEPT ![i] = [row EXCEPT !.idle = row.idle + IdleOf(spans)]]
  /\ gaps' = [gaps EXCEPT ![i] = [s \in Spans |-> gaps[i][s] + (IF s \in spans THEN 1 ELSE 0)]]

HeartbeatWrite(c) ==
  /\ Writes(c, "beat")
  /\ LET i == call[c].id
     IN Charge(i, call[c].spans, [session[i] EXCEPT !.beat = call[c].t])

\* checkOut; reconcile closes at the last beat and charges nothing.
CheckOutLoad(c, u, reconcile) ==
  /\ Loads(c)
  /\ \E i \in FindOpen(u) \ {NoSession} :
       Become(c, [at |-> "checkOut", id |-> i,
                  t |-> IF reconcile THEN session[i].beat ELSE now,
                  spans |-> IF reconcile THEN {} ELSE IdleSpans(session[i].beat, {}, now)])

CheckOutWrite(c) ==
  /\ Writes(c, "checkOut")
  /\ LET i == call[c].id
     IN Charge(i, call[c].spans, [session[i] EXCEPT !.out = call[c].t])

-----------------------------------------------------------------------------
\* autoCloseStale.
StaleByBeat(i) == IsOpen(i) /\ DayOf(session[i].beat) # DayOf(now)
Stale(i) == IsOpen(i) /\ DayOf(session[i].in) # DayOf(now)

CloseAtDayStart(i) == DayOf(session[i].in) * TicksPerDay
CloseAt(i) ==
  IF session[i].beat < EndOfDay(session[i].in) THEN session[i].beat ELSE EndOfDay(session[i].in)

NightlyRead(c) ==
  /\ c \in NightlyCalls /\ call[c] = Idle
  /\ LET stale == {i \in Ids : Stale(i)}
     IN stale # {} /\ Become(c, [at |-> "night", close |-> [i \in stale |-> CloseAt(i)]])
  /\ UNCHANGED <<now, session, gaps>>

NightlyWrite(c) ==
  /\ c \in NightlyCalls /\ call[c].at = "night"
  /\ \E i \in DOMAIN call[c].close :
       /\ session' = [session EXCEPT ![i] = [session[i] EXCEPT !.out = call[c].close[i]]]
       /\ LET rest == DOMAIN call[c].close \ {i}
          IN Become(c, IF rest = {} THEN Idle
                       ELSE [at |-> "night", close |-> [j \in rest |-> call[c].close[j]]])
  /\ UNCHANGED <<now, gaps>>

\* The API process restarts: what its calls were about to write is lost.
Restart ==
  /\ call # [c \in Calls |-> Idle]
  /\ call' = [c \in Calls |-> Idle]
  /\ UNCHANGED <<now, session, gaps>>

Tick ==
  /\ now < LastTick /\ now' = now + 1
  /\ UNCHANGED <<session, gaps, call>>

-----------------------------------------------------------------------------
StaffStep(c) ==
  \/ \E u \in Users :
       \/ \E key \in Keys \cup {NoKey}, source \in Sources : CheckInLoad(c, u, key, source)
       \/ \E offlineAt \in SUBSET (0 .. now), fromDesktop \in BOOLEAN :
            HeartbeatLoad(c, u, offlineAt, fromDesktop)
       \/ \E reconcile \in BOOLEAN : CheckOutLoad(c, u, reconcile)
  \/ CheckInWrite(c) \/ HeartbeatWrite(c) \/ CheckOutWrite(c)
NightlyStep(c) == NightlyRead(c) \/ NightlyWrite(c)

Next == Tick \/ Restart \/ \E c \in Calls : StaffStep(c) \/ NightlyStep(c)

Spec == Init /\ [][Next]_vars
=============================================================================
