SPECIFICATION MCSpec
CONSTANTS
  emp = emp
  lead = lead
  hr = hr
  a1 = a1
  j1 = j1
  NoOne = NoOne
  NoRequest = NoRequest
  Users = {emp, hr}
  Internal = {emp}
  AskedTypes = {"ACCRUING"}
  Requests = {r1, r2}
  HRStaff <- MCHRStaff
  Admins = {}
  TeamLead <- MCTeamLead
  ReportsTo <- MCReportsTo
  Owner <- MCOwner
  NumDays = 3
  DaysPerMonth = 2
  MonthsPerYear = 2
  PerMonth = 2
  Cap = 3
  EmployeeCalls = {e1}
  ApproverCalls = {a1, a2}
  AdminCalls = {h1}
  FinanceCalls = {}
  JobCalls = {j1, j2}
  Jobs = {"accrual"}
  MaxHolidayAdds = 2
  MaxFailures = 1
SYMMETRY MCSymmetry
INVARIANTS UsedIsBackedByLedger AccruedWithinLedger BookedIsCharged OneApproverStaysWithin
PROPERTIES FirstDecisionStands ImplementsDecision
CHECK_DEADLOCK FALSE
