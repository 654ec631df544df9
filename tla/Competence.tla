----------------------------- MODULE Competence -----------------------------
(***************************************************************************)
(* What a month of payroll promises to the people of a company: while it   *)
(* is open the point is locked and unlocked as it is worked on; once the   *)
(* accountant has published it the locks stay as they are until HR returns *)
(* it, and what was released is only paid.  Whoever unlocks one employee   *)
(* on purpose is on record.                                                *)
(***************************************************************************)
CONSTANT Employees

VARIABLES month, locked, amended

competenceVars == <<month, locked, amended>>

CompetenceInit == month = "open" /\ locked = {} /\ amended = {}

Work ==
    /\ month = "open"
    /\ locked' \in SUBSET Employees
    /\ amended' \in {amended, {}}
    /\ UNCHANGED month

Advance(from, to) == month = from /\ month' = to /\ UNCHANGED <<locked, amended>>

Amend(p) ==
    /\ amended' = amended \cup p
    /\ locked' \in SUBSET Employees
    /\ (locked' \ locked) \cup (locked \ locked') \subseteq p
    /\ UNCHANGED month

CompetenceNext ==
    \/ Work
    \/ Advance("open", "withHR") \/ Advance("withHR", "open")
    \/ Advance("withHR", "released") \/ Advance("released", "paid")
    \/ \E p \in SUBSET Employees : Amend(p)

CompetenceSpec == CompetenceInit /\ [][CompetenceNext]_competenceVars
=============================================================================
