SPECIFICATION MCFairSpec
CONSTANTS
  emp = emp
  lead = lead
  hr = hr
  NoOne = NoOne
  NoRequest = NoRequest
  Users = {emp, lead, hr}
  Internal = {emp}
  AskedTypes = {"ACCRUING", "UNPAID"}
  Requests = {r1}
  HRStaff <- MCHRStaff
  Admins = {}
  TeamLead <- MCTeamLead
  ReportsTo <- MCReportsTo
  Owner <- MCOwner
  NumDays = 2
  DaysPerMonth = 2
  MonthsPerYear = 1
  PerMonth = 2
  Cap = 2
  EmployeeCalls = {e1}
  ApproverCalls = {a1}
  AdminCalls = {h1}
  FinanceCalls = {f1}
  JobCalls = {j1}
  Jobs = {"accrual", "escalation"}
  MaxHolidayAdds = 1
  MaxFailures = 1
PROPERTIES OverdueIsEscalated ApprovalIsCharged
CHECK_DEADLOCK FALSE
