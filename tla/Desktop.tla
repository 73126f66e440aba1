------------------------------- MODULE Desktop -------------------------------
(***************************************************************************)
(* The desktop agent of one signed-in employee, and the server it talks to *)
(* (apps/desktop/src/main: idle-tracker, offline-queue, status-poller,     *)
(* shutdown-handler, ipc-handlers, index).                                 *)
(*                                                                         *)
(* Every tick the tracker looks for keyboard or mouse activity and sends a *)
(* heartbeat; a moment it cannot deliver waits in a file and goes with the *)
(* next one.  Any request may be lost on the way, and so may its answer.   *)
(* The server runs one call at a time, but for an adverse check-out.       *)
(***************************************************************************)
EXTENDS Attendance

CONSTANTS
  Me,         \* the employee
  Adverse,    \* what the environment may do: a subset of Adversities
  MaxHang,    \* ticks a request stays unanswered before it fails
  MaxActs     \* bound on the times the agent is stopped or told to flush

Adversities == {
  "overlap",  \* a check-out reaches the server while another call is at it
  "flap",     \* the network comes back between the flush and the check-out it precedes
  "poll",     \* the network drops between a check-in and the status poll it asks for
  "web",      \* a browser tab reaches the server while the agent cannot
  "lateNight" \* the nightly job does not run before the next shift
}

ASSUME AgentAssumption ==
  /\ Me \in Users /\ "DESKTOP" \in Sources /\ Adverse \subseteq Adversities
  /\ MaxHang \in Nat /\ MaxActs \in Nat

VARIABLES
  up,        \* the agent is running
  polled,    \* the tracker's timer has fired in this tick
  queue,     \* OfflineQueue.at
  sending,   \* IdleTracker.sending: the heartbeat in flight, or Quiet
  knownOut,  \* StatusPoller.knownCheckedOut()
  marker,    \* the shutdown marker is on disk
  acts,
  worked     \* history: ticks of a session at which the tracker saw activity

agent == <<up, polled, queue, sending, knownOut, marker, acts, worked>>
agentVars == <<vars, agent>>

Quiet == [phase |-> "quiet"]
\* On the way; read by the server; written; refused with a 4xx.
Phases == {"out", "served", "written", "refused"}

ServerIdle == \A c \in Calls : call[c] = Idle
ServerTakes == ServerIdle \/ "overlap" \in Adverse

-----------------------------------------------------------------------------
AgentInit ==
  /\ Init
  /\ up = TRUE /\ polled = FALSE /\ queue = {} /\ sending = Quiet
  /\ knownOut = FALSE /\ marker = FALSE /\ acts = 0 /\ worked = {}

\* IdleTracker.send; while one is in flight the new moment goes nowhere.
Send(active) ==
  sending' = IF sending # Quiet THEN sending
             ELSE [phase |-> "out", batch |-> queue, active |-> active, since |-> now]

\* IdleTracker.tick.
HasNews(active) == ~ knownOut /\ (active \/ queue # {})
TrackerTick(active) ==
  /\ up /\ ~ polled
  /\ polled' = TRUE
  /\ worked' = IF active /\ FindOpen(Me) # {NoSession} THEN worked \cup {now} ELSE worked
  /\ IF HasNews(active) THEN Send(active) ELSE UNCHANGED sending
  /\ UNCHANGED <<vars, up, queue, knownOut, marker, acts>>

\* IdleTracker.flush, which a manual check-out calls first.
Flush ==
  /\ up /\ queue # {} /\ sending = Quiet
  /\ acts < MaxActs /\ acts' = acts + 1
  /\ Send(FALSE)
  /\ UNCHANGED <<vars, up, polled, queue, knownOut, marker, worked>>

-----------------------------------------------------------------------------
(* A heartbeat on its way, at the server, and back.                        *)

Phase(next) ==
  /\ sending' = [sending EXCEPT !.phase = next]
  /\ UNCHANGED <<up, polled, queue, knownOut, marker, acts, worked>>

Deliver(c) ==
  /\ sending.phase = "out" /\ ServerIdle
  /\ \/ HeartbeatLoad(c, Me, sending.batch, TRUE) /\ Phase("served")
     \/ FindOpen(Me) = {NoSession} /\ Phase("refused") /\ UNCHANGED vars

Served(c) ==
  /\ HeartbeatWrite(c)
  /\ IF sending.phase = "served" THEN Phase("written") ELSE UNCHANGED agent

\* queue.remove(batch) / queue.add(activeAt).
Delivered(batch) == queue \ batch
SavedOnlyFirst(moment) == IF queue = {} THEN moment ELSE queue
Saved(moment) == queue \cup moment

Answered ==
  /\ sending.phase \in {"written", "refused"}
  /\ sending' = Quiet
  /\ queue' = Delivered(sending.batch)
  /\ UNCHANGED <<vars, up, polled, knownOut, marker, acts, worked>>

\* No answer, or a 5xx.
Failed ==
  /\ sending # Quiet
  /\ sending.phase = "served" => ServerIdle
  /\ sending' = Quiet
  /\ queue' = Saved(IF sending.active THEN {sending.since} ELSE {})
  /\ UNCHANGED <<vars, up, polled, knownOut, marker, acts, worked>>

-----------------------------------------------------------------------------
\* today(): is there an open session of today's?
CheckedInToday == \E i \in Ids : IsOpen(i) /\ session[i].user = Me /\ ~ Stale(i)

\* StatusPoller.tick; a poll that fails changes nothing.
StatusPoll ==
  /\ up
  /\ knownOut' = ~ CheckedInToday
  /\ UNCHANGED <<vars, up, polled, queue, sending, marker, acts, worked>>

\* The check-in button; each press sends a fresh key.
CheckInPress(c) ==
  /\ up /\ ServerIdle
  /\ CheckInLoad(c, Me, NoKey, "DESKTOP")
  /\ UNCHANGED agent

CheckedIn(c) ==
  /\ CheckInWrite(c)
  /\ knownOut' \in {FALSE} \cup (IF "poll" \in Adverse THEN {knownOut} ELSE {})
  /\ UNCHANGED <<up, polled, queue, sending, marker, acts, worked>>

\* The check-out button.  With nothing saved the flush returns at once, beside a heartbeat
\* in flight; otherwise it waits for the delivery, and where that failed, so does the check-out.
CheckOutPress(c) ==
  /\ up /\ ServerTakes
  /\ queue = {} \/ (sending = Quiet /\ "flap" \in Adverse)
  /\ CheckOutLoad(c, Me, FALSE)
  /\ UNCHANGED agent

\* noteManualCheckout, unless the answer is lost or the agent gone.
CheckedOut(c) ==
  /\ CheckOutWrite(c)
  /\ knownOut' \in {knownOut, up}
  /\ UNCHANGED <<up, polled, queue, sending, marker, acts, worked>>

\* Quit, killed, or (with the marker) shut down by the operating system.
Stop(shutdown) ==
  /\ up /\ acts < MaxActs
  /\ up' = FALSE /\ acts' = acts + 1
  /\ sending' = Quiet /\ knownOut' = FALSE
  /\ marker' = (marker \/ shutdown)
  /\ UNCHANGED <<vars, polled, queue, worked>>

\* Launch; with a marker the agent first closes the session at its last beat.
Launch(c) ==
  /\ ~ up /\ ServerIdle
  /\ up' = TRUE /\ marker' = FALSE
  /\ \/ marker /\ CheckOutLoad(c, Me, TRUE)
     \/ UNCHANGED vars
  /\ UNCHANGED <<polled, queue, sending, knownOut, acts, worked>>

-----------------------------------------------------------------------------
\* A browser tab of the same employee, behind the same network unless adverse.
WebHeartbeat(c) ==
  /\ ServerIdle
  /\ (queue = {} /\ sending = Quiet) \/ "web" \in Adverse
  /\ HeartbeatLoad(c, Me, {}, FALSE)
  /\ UNCHANGED agent

\* The nightly job, and a restart of the server.
Nightly ==
  /\ \E c \in NightlyCalls : (ServerIdle /\ NightlyRead(c)) \/ NightlyWrite(c)
  /\ UNCHANGED agent
ServerRestart == Restart /\ UNCHANGED agent

AgentTick ==
  /\ Tick
  /\ ServerIdle
  /\ up => polled
  /\ sending # Quiet => now - sending.since < MaxHang
  /\ (\E i \in Ids : Stale(i)) => "lateNight" \in Adverse
  /\ polled' = FALSE
  /\ UNCHANGED <<up, queue, sending, knownOut, marker, acts, worked>>

AgentNext ==
  \/ \E active \in BOOLEAN : TrackerTick(active)
  \/ Flush \/ Answered \/ Failed \/ StatusPoll
  \/ \E c \in StaffCalls :
       \/ Deliver(c) \/ Served(c)
       \/ CheckInPress(c) \/ CheckedIn(c)
       \/ CheckOutPress(c) \/ CheckedOut(c)
       \/ Launch(c) \/ WebHeartbeat(c)
  \/ \E shutdown \in BOOLEAN : Stop(shutdown)
  \/ Nightly \/ ServerRestart \/ AgentTick

AgentSpec == AgentInit /\ [][AgentNext]_agentVars
=============================================================================
