------------------------------ MODULE MCLeave ------------------------------
(***************************************************************************)
(* A small instance of Leave: one employee files every request, a lead and  *)
(* an HR user may decide them.                                              *)
(***************************************************************************)
EXTENDS LeaveProperties, TLC

CONSTANTS emp, lead, hr

MCTeamLead == [u \in Users |-> IF u = emp /\ lead \in Users THEN lead ELSE NoOne]
MCReportsTo == MCTeamLead
MCOwner == [r \in Requests |-> emp]
MCHRStaff == {hr}

\* Request ids are interchangeable: they all belong to emp.
MCSymmetry == Permutations(Requests)

\* Of the run LeaveEscalation: a holiday comes where nothing failed, no month is locked and no
\* accrual runs, and keeps these away.  None of what it holds back is under fairness.
Accruing == \E p \in JobCalls : call[p].at \in {"accrue", "credit", "creditWrite"}
HolidayIsAlone == holidayAdds > 0 => failures = 0 /\ lockedMonths = {} /\ ~ Accruing
MCFairSpec == Init /\ [][Next /\ HolidayIsAlone']_vars /\ Fairness
=============================================================================
