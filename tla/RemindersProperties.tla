------------------------- MODULE RemindersProperties -------------------------
(***************************************************************************)
(* What the sweeps of Reminders should guarantee.                          *)
(***************************************************************************)
EXTENDS Reminders

\* "Two once-only notifications per task; an hourly sweep must never turn into an hourly nag":
\* nobody hears of a deadline a second time, but for a sweep that failed or died after telling.
NoticesAreOnce ==
  \A n \in Notices : n.kind \in OnceOnly => told[n] <= 1 + faults

Heard(kind, t) == \E u \in Users : told[Notice(kind, t, u)] > 0
PastDue(t) == Open(t) /\ due[t] # NoHour /\ due[t] < hour

\* However sweeps fail, die and race the handlers: of an open task that stays past its deadline,
\* of a client who still hears nothing, and of an assignee who still has not accepted, someone
\* comes to be told, whoever has left.
DeadlinesAreChased ==
  \A t \in Tasks : <>[]PastDue(t) => <>Heard("missed", t)
DelaysAreChased ==
  \A t \in Tasks :
    /\ <>[]Unseen(t, hour) => <>Heard("client", t)
    /\ <>[]Unaccepted(t, hour) =>
         <>(assignee[t] # NoOne /\ told[Notice("accept", t, assignee[t])] > 0)
=============================================================================
