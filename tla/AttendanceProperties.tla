------------------------ MODULE AttendanceProperties ------------------------
(***************************************************************************)
(* What makes the attendance sessions correct.                             *)
(***************************************************************************)
EXTENDS Attendance, FiniteSetsExt

KeysAreUnique ==
  \A i, j \in Ids :
    Used(i) /\ Used(j) /\ i # j /\ session[i].key = session[j].key => session[i].key = NoKey

\* Rows keep the shape of the schema, its unique index on the retry key included.
TypeOK ==
  /\ now \in Time
  /\ session \in [Ids -> SessionRow \cup {Unused}]
  /\ gaps \in [Ids -> [Spans -> Nat]]
  /\ call \in [Calls -> CallState]
  /\ KeysAreUnique

\* No race of heartbeats, check-outs, reconciliations and the nightly close ends a session
\* before it began (computeDayMarks drops such a session: the day is lost).
SpanIsForward ==
  \A i \in Ids : Used(i) => /\ session[i].in <= session[i].beat
                            /\ session[i].out # Open => session[i].in <= session[i].out

\* A user has at most one open session, which holds while calls come one at a time
\* ("You are already checked in").
OneOpenSession ==
  \A i, j \in Ids : IsOpen(i) /\ IsOpen(j) /\ session[i].user = session[j].user => i = j

\* Writes go by id and ask nothing, so a heartbeat, a check-out or a nightly close that read a
\* session while it was open still lands on it after another has closed it.  Once those under
\* way have ended, or died with the process, a closed session is final: nothing that starts
\* later, from any client, moves its end or charges it another stretch.
UnderWay(c, i) ==
  \/ call[c].at \in {"beat", "checkOut"} /\ call[c].id = i
  \/ call[c].at = "night" /\ i \in DOMAIN call[c].close
Final(i) == Used(i) /\ ~ IsOpen(i) /\ \A c \in Calls : ~ UnderWay(c, i)
ClosedIsFinal ==
  [][\A i \in Ids : Final(i) => /\ session'[i] = session[i] /\ gaps'[i] = gaps[i]
                                /\ Final(i)']_vars
=============================================================================
