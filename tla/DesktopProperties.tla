-------------------------- MODULE DesktopProperties --------------------------
(***************************************************************************)
(* What the agent and the server promise the employee together, besides    *)
(* the OneOpenSession of AttendanceProperties.                             *)
(***************************************************************************)
EXTENDS Desktop, AttendanceProperties

\* Working through an outage is never charged as idle, whatever requests and answers are
\* lost, and across a restart of the agent or the server: in every stretch charged there is
\* a moment at which the tracker saw no activity (idle-tracker.ts: "the server replays
\* them, so working through an outage isn't counted as idle").
WorkIsNotIdle ==
  \A i \in Ids, s \in Spans :
    gaps[i][s] > 0 => \E t \in s[1] + 1 .. s[2] - 1 : t \notin worked

\* While the employee's calls take turns at the server, a retried or replayed heartbeat
\* charges no moment of a session twice, and none outside it.
IdleFitsSession ==
  \A i \in Ids : Used(i) /\ session[i].out # Open =>
    session[i].idle <= IdleOf({<<session[i].in, session[i].out>>})
=============================================================================
