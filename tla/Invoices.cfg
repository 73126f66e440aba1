SPECIFICATION MCSpec
CONSTANTS
  a = a
  b = b
  s1 = s1
  NoInvoice = NoInvoice
  Ids = {a, b}
  Years = {2026}
  Totals = {1, 2}
  Amounts = {1, 2}
  LastDay = 2
  StaffCalls = {s1, s2}
  SweepCalls = {sweep}
  MaxPayments = 3
INVARIANTS GaplessNumbers SerialMoney
PROPERTIES SerialFrozen OverdueIsFlagged
CHECK_DEADLOCK FALSE
