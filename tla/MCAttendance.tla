---------------------------- MODULE MCAttendance ----------------------------
(***************************************************************************)
(* Small instances of Attendance.                                          *)
(***************************************************************************)
EXTENDS AttendanceProperties, TLC

CONSTANTS a, b

MCSymmetry == Permutations(Ids) \cup Permutations(StaffCalls)
=============================================================================
