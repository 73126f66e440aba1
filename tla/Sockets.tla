------------------------------- MODULE Sockets -------------------------------
(***************************************************************************)
(* The live channel of Sessions' devices: the gateway that lets a socket   *)
(* in and looks again, every sweep, whether it may stay                    *)
(* (apps/api/src/attendance/presence.gateway.ts), and the client that      *)
(* comes back when it is turned away: the agent's chat watcher             *)
(* (apps/desktop/src/main/chat-watcher.ts) or a page of the staff app      *)
(* (apps/internal/src/lib/socket.ts).                                      *)
(*                                                                         *)
(* Each device keeps one socket, whose ends are taken together: what       *)
(* travels over it, the typing hints and the backing off are left out.     *)
(* The sweep's timer is on time and its reads, like Sessions', take less   *)
(* than a tick and do not fail.                                            *)
(***************************************************************************)
EXTENDS Sessions

CONSTANT SweepTicks   \* REVOCATION_SWEEP_MS

\* [Devices -> the socket]: who it was let in as, what a check under way has read, when the last
\* one ended, and the timer to renew the session and connect again.
VARIABLE feed

feedVars == <<vars, feed>>

ASSUME SocketsAssumption == SweepTicks \in Nat

-----------------------------------------------------------------------------
Off(kind) == [kind |-> kind, on |-> FALSE, at |-> "closed", who |-> NoRow, entry |-> NoRow,
              checked |-> 0, timer |-> "none"]
FeedInit == feed \in [Devices -> {Off("agent"), Off("page")}]

Feed(d, next) == feed' = [feed EXCEPT ![d] = next]
Connecting(f) == [f EXCEPT !.on = TRUE, !.at = "connecting", !.who = NoRow, !.entry = NoRow]

\* "io server disconnect": socket.io does not come back by itself, so a timer is set.
Armed(timer) == IF timer = "none" THEN "armed" ELSE timer
NotArmed(timer) == timer
Rearmed(timer) == Armed(timer)
TurnedAway(f) == [Connecting(f) EXCEPT !.at = "away", !.timer = Rearmed(f.timer)]

\* Signed in, the client connects; signed out, it closes the socket and clears the timer.  When
\* the renewal of the timer ends the agent connects whatever came of it, the page if it worked.
Closed(f) == [Off(f.kind) EXCEPT !.timer = IF f.timer = "refreshing" THEN "refreshing" ELSE "none"]
Signed(f, d) ==
  IF device[d].cookie # None /\ device'[d].cookie = None THEN Closed(f)
  ELSE IF ~ f.on /\ device'[d].access \notin {NoRow, device[d].access} THEN Connecting(f)
  ELSE f
Renewed(f, d) ==
  LET g == [f EXCEPT !.timer = "none"]
  IN IF ~ f.on THEN g
     ELSE IF f.kind = "agent" \/ device'[d].losses = 0 THEN Connecting(g)
     ELSE [f EXCEPT !.timer = Rearmed("none")]
Follow(d) ==
  LET f == Signed(feed[d], d)
  IN IF f.timer = "refreshing" /\ device'[d].waits = None THEN Renewed(f, d) ELSE f
Following == feed' = [d \in Devices |-> Follow(d)]

-----------------------------------------------------------------------------
\* handleConnection: the token's signature and age, then rejectionReason.
Verdict(f, entry) ==
  IF Rejected(entry, f.who.iat) THEN TurnedAway(f)
  ELSE [f EXCEPT !.at = "open", !.entry = NoRow, !.checked = now]
Handshake(d) ==
  LET f == [feed[d] EXCEPT !.who = device[d].access]
      u == f.who.user
  IN /\ feed[d].at = "connecting"
     /\ IF ~ Usable(d) THEN Feed(d, TurnedAway(f))
        ELSE IF Fresh(u) THEN Feed(d, Verdict(f, cache[u]))
        ELSE Feed(d, [f EXCEPT !.at = "checking", !.entry =
                        [status |-> user[u].status, revokedAt |-> user[u].revokedAt]])
     /\ UNCHANGED vars

\* sweepRevoked, for one socket.
SweepStatus(f, entry) ==
  IF entry.status # "ACTIVE" THEN TurnedAway(f)
  ELSE [f EXCEPT !.at = "open", !.entry = NoRow, !.checked = now]
SweepVerdict(f, entry) == Verdict(f, entry)
Sweep(d) ==
  LET f == feed[d]
      u == f.who.user
  IN /\ f.at = "open" /\ f.checked < now
     /\ IF Fresh(u) THEN Feed(d, SweepVerdict(f, cache[u]))
        ELSE Feed(d, [f EXCEPT !.at = "rechecking", !.entry =
                        [status |-> user[u].status, revokedAt |-> user[u].revokedAt]])
     /\ UNCHANGED vars

\* Either goes on when the row has been read, and leaves it in the cache.
Checked(d) ==
  LET f == feed[d]
  IN /\ f.at \in {"checking", "rechecking"}
     /\ cache' = [cache EXCEPT ![f.who.user] = Entry(f.entry)]
     /\ Feed(d, IF f.at = "checking" THEN Verdict(f, f.entry) ELSE SweepVerdict(f, f.entry))
     /\ UNCHANGED <<now, rows, device, call, lag>>

-----------------------------------------------------------------------------
\* scheduleReconnect, recover: the timer joins a renewal under way or starts one.
TimerFires(c, d) ==
  /\ feed[d].timer = "armed"
  /\ Feed(d, [feed[d] EXCEPT !.timer = "refreshing"])
  /\ IF device[d].waits # None THEN UNCHANGED vars ELSE Renew(c, d)

\* The network drops a socket; socket.io comes back by itself.
Dropped(f) == IF f.at \in {"checking", "open", "rechecking"} THEN Connecting(f) ELSE f
Drop(d) ==
  /\ Dropped(feed[d]) # feed[d]
  /\ Feed(d, Dropped(feed[d]))
  /\ UNCHANGED vars

\* The sweep is on time.
Timely ==
  \A d \in Devices :
    /\ feed[d].at \notin {"checking", "rechecking"}
    /\ feed[d].at = "open" => now - feed[d].checked < SweepTicks

FeedNext ==
  \/ Tick /\ Timely /\ UNCHANGED feed
  \/ Restart /\ feed' = [d \in Devices |-> Dropped(Follow(d))]
  \/ \E d \in Devices : \/ RequestHit(d) /\ UNCHANGED feed
                        \/ GiveUp(d) /\ Following
                        \/ Relaunch(d) /\ Feed(d, Off(feed[d].kind))
                        \/ Handshake(d) \/ Sweep(d) \/ Checked(d) \/ Drop(d)
                        \/ \E c \in Calls : TimerFires(c, d)
  \/ \E c \in Calls : (DeviceStep(c) \/ StaffStep(c)) /\ Following

FeedSpec == Init /\ FeedInit /\ [][FeedNext]_feedVars
=============================================================================
