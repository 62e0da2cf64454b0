------------------------------ MODULE Verdicts ------------------------------
(***************************************************************************)
(* From tallies to a verdict: the pure part of src/trace_tests/report.py.  *)
(* `tallies' maps every attempted level to its failures and unverified     *)
(* findings.                                                               *)
(***************************************************************************)
EXTENDS Integers

NoLevelPassed == -1  \* highest_level is None: the record fails Level 0

(* LevelOutcome, as both build and _build_from_execution make them. *)
LevelOutcomes(tallies) ==
    [l \in DOMAIN tallies |->
       [passed     |-> tallies[l].failures = 0,
        failures   |-> tallies[l].failures,
        unverified |-> tallies[l].unverified]]

HighestLevel(outcomes) ==
    LET passed == {l \in DOMAIN outcomes : outcomes[l].passed} IN
    IF passed = {} THEN NoLevelPassed
    ELSE CHOOSE l \in passed : \A m \in passed : m <= l
=============================================================================
