------------------------- MODULE WorkdaysProperties -------------------------
(***************************************************************************)
(* What makes the days, their corrections and the payroll correct.         *)
(***************************************************************************)
EXTENDS Workdays

Quiet == \A c \in Calls : ~ Busy(c)

\* An approved request takes effect at most once, whoever approves it and however often it is
\* clicked, and one that was not approved has none (decide claims before it applies).
EffectsHappenOnce ==
  \A r \in Requests :
    /\ effects[r] <= 1
    /\ effects[r] > 0 => request[r].status = "APPROVED"

\* The same outage is never credited twice: under every race of credits, what a session is
\* charged as idle is what its remaining stretches add up to (removeIdleInWindow).
IdleIsStretches ==
  \A i \in Users \X Days :
    session[i] # NoRow => session[i].idle = Charged({g \in stretches : g.id = i})

\* Time two sessions share counts once: worked and overtime add up to the instants covered
\* by some closed session, on whichever side of the shift end (mergeOverlapping).
TimeCountsOnce ==
  \A u \in Users, d \in Days :
    LET own == SessionsOf(u, d)
        covered == {t \in Time : \E s \in own : s.in <= t /\ t < s.out}
        regular == {t \in covered : t < d * TicksPerDay + ShiftEnd}
        m == MarksNow(u, d, holidays)
    IN m.worked = Cardinality(regular) /\ m.overtime = Cardinality(covered \ regular)

\* The marks of a past day are what its sessions, leave and holidays make them, while handlers
\* come one at a time, none dies and no night is missed.
MarksAreCurrent ==
  orderly /\ Quiet =>
    \A u \in Users, d \in Days :
      day[<<u, d>>] # NoRow /\ day[<<u, d>>].computed > d =>
        \A f \in {"worked", "overtime", "idle", "late", "status"} :
          day[<<u, d>>][f] = MarksNow(u, d, holidays)[f]

\* Every LateCount late days of a month cost one deduction: the nightly rule, which looks at
\* the newest day only, and the recomputation, which looks at them all, agree.
DeductionsMatchLates ==
  orderly /\ Quiet =>
    \A u \in Users, m \in Months :
      LET past == {d \in RowsOf(u, m) : day[<<u, d>>].computed > d}
      IN Cardinality({d \in past : day[<<u, d>>].deducted})
         = Cardinality({d \in past : day[<<u, d>>].late}) \div LateCount

\* "Once Finance locks and exports a month, the figures that fed it must not move": while the
\* lock an export was made under stands, the figures are those of the export, provided (clean)
\* nothing was under way and the late deductions were in order when the month was locked, and no
\* holiday has borne on it since.  What comes after may race and die.
ExportsStand ==
  \A e \in exports :
    payroll[e.m].locked /\ payroll[e.m].locks = e.locks /\ payroll[e.m].clean
      => e.rows = Figures(e.m)
=============================================================================
