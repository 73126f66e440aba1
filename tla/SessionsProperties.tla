------------------------- MODULE SessionsProperties -------------------------
(***************************************************************************)
(* What makes accounts, their sessions and their live channels correct.    *)
(***************************************************************************)
EXTENDS Sockets

\* A session over: its tokens are revoked and no refresh is rotating one.  revokeAllForUser leaves
\* each session of the account so, but for one a refresh has read and rotates on.
Over(family) ==
  /\ token[family] # NoRow
  /\ \A t \in Tokens : Live(t) => token[t].family # family
  /\ \A c \in Calls : call[c].at \in {"insert", "replace"} => call[c].family # family
GainsNothing(d) == device'[d].access \in {NoRow, device[d].access}
IsOf(d, family) == device[d].cookie # None /\ token[device[d].cookie].family = family
StaysOver(family) ==
  Over(family) => Over(family)' /\ \A d \in Devices : IsOf(d, family)' => GainsNothing(d)

\* However reads, fills, revocations, renewals, the grace of refresh and restarts interleave, an
\* access token is of no use a cache lifetime or more after its account left or, if it was issued
\* before, after its sessions were revoked ("bounded by TTL_MS"); and a session that is over stays
\* over: no retry, late answer or late write gives it a live token again, or its device another
\* access token.  A refresh under way is not over: it survives revokeAllForUser (README).
ServedInTime == lag < CacheTicks
RevocationTakesHold == []ServedInTime /\ [][\A f \in Tokens : StaysOver(f)]_vars

\* A device that retries within the grace period after losing one answer is never taken for a
\* reuse: only a second loss in a row, a late retry, or a revocation by others ends its session.
SessionSurvivesLoss == \A c \in Calls : call[c].at = "reuse" => call[c].excused

\* "A link never brings back a deactivated account."
LeaversStayOut ==
  [][\A u \in Users :
       Exists(u) /\ user[u].status = "DEACTIVATED" => user'[u].status = "DEACTIVATED"]_vars

\* "Manager cannot be self / create a cycle": in no group of people does everyone report to one
\* of the group.
ManagersFormTree == \A S \in (SUBSET Users) \ {{}} : \E u \in S : manager[u] \notin S

\* "A socket that skipped it was a way to keep a live feed after being cut off": whoever left, or
\* was revoked after the access token of the socket was issued, keeps it open for less than a
\* sweep and a cache lifetime, whatever the handshakes and sweeps under way had read.
SocketsAreCutOff ==
  \A d \in Devices :
    LET f == feed[d]
    IN f.at \in {"open", "rechecking"} => Behind(f.who.user, f.who.iat) < CacheTicks + SweepTicks

\* "Without this, live updates silently stopped for good": a client that is signed in and was
\* turned away has a way back, a timer or a renewal that will connect it.
WayBack ==
  \A d \in Devices : feed[d].on /\ feed[d].at = "away" => feed[d].timer # "none"
=============================================================================
