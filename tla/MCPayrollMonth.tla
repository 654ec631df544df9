--------------------------- MODULE MCPayrollMonth ---------------------------
(* Two employees, one request at a time beside the clock, or two that meet.  *)
EXTENDS PayrollMonth, TLC

MonthSymmetry == Permutations(Rows) \cup Permutations(Employees)
=============================================================================
