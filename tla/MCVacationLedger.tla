-------------------------- MODULE MCVacationLedger --------------------------
(* The requests of one employee, for long, middle and short vacations. *)
EXTENDS VacationLedger, TLC

Parts == {[days |-> 20, sold |-> 10], [days |-> 14, sold |-> 0], [days |-> 5, sold |-> 5]}

VacationSymmetry == Permutations(Vacations) \cup Permutations(Spans) \cup Permutations(Requests)
=============================================================================
