--------------------------- MODULE MutationHarness --------------------------
(***************************************************************************)
(* measurement/scripts/mutate_modules.py: it rewrites one failure site of  *)
(* the conformance modules at a time so that it cannot fail, runs the test *)
(* suite, counts the tests that notice, and writes the file back.          *)
(*                                                                         *)
(* The checkout outlives the process.  The process may be interrupted,     *)
(* which its finally clause answers, or die without running that (killed,  *)
(* or interrupted just before the try), also half-way through a write; it  *)
(* may then be started again on what it left.  A suite may end without     *)
(* having run its tests: a module no longer imports, a collection error.   *)
(***************************************************************************)
EXTENDS Integers, FiniteSets

CONSTANTS Sites,     \* the places that construct a FAIL finding
          Place,     \* where fail_sites lists them, by file and line
          FileOf,    \* the module file of each site
          CodeOf,    \* the check code of each site
          Tests,     \* the tests of the suite
          MayDie,    \* whether a suite may end without running for other reasons
          MaxRuns,   \* bound: how often the script is started
          MaxDeaths  \* bound: how often it dies

ASSUME MutationHarnessAssumption ==
    /\ Place \in [Sites -> Nat]
    /\ \A s, t \in Sites : Place[s] = Place[t] => s = t
    /\ IsFiniteSet(Tests)
    /\ MayDie \in BOOLEAN
    /\ MaxRuns \in Nat /\ MaxDeaths \in Nat

Files == {FileOf[s] : s \in Sites}

VARIABLES guards,  \* the sites each test notices the loss of
          red,     \* the tests that fail anyway
          inert,   \* the sites rewritten on disk
          file,    \* each file on disk: "whole", "cut off" by a half-done write, or "empty"
          brittle, \* whether the suite breaks at collection when a module lost its names
          pc,      \* where the script is, or how it ended
          todo,    \* the sites still to be measured, with the current one
          margins, \* the margins measured so far, by site
          green,   \* whether the baseline ran and every test passed (not in the code)
          found,   \* the rewritten sites this run started with (not in the code)
          runs, deaths

vars == <<guards, red, inert, file, brittle, pc, todo, margins, green, found, runs, deaths>>

Ended == {"not started", "refused", "interrupted", "dead", "unverified found", "all verified"}

Init ==
    /\ guards \in [Tests -> SUBSET Sites]
    /\ red \in SUBSET Tests
    /\ inert = {}
    /\ file = [f \in Files |-> "whole"]
    /\ brittle \in BOOLEAN
    /\ pc = "not started"
    /\ todo = {}
    /\ margins = [s \in {} |-> 0]
    /\ green = FALSE
    /\ found = {}
    /\ runs = 0
    /\ deaths = 0

(* fail_sites and the import probe.  A file that was cut off does not      *)
(* parse, an empty one has no sites; the probe finds out whether the suite *)
(* imports this tree or another one.                                       *)
Start ==
    /\ pc \in Ended
    /\ runs < MaxRuns
    /\ runs' = runs + 1
    /\ found' = inert
    /\ margins' = [s \in {} |-> 0]
    /\ green' = FALSE
    /\ todo' = {s \in Sites : s \notin inert /\ file[FileOf[s]] = "whole"}
    /\ \/ pc' = "baseline" /\ todo' # {} /\ \A f \in Files : file[f] # "cut off"
       \/ pc' = "refused"
    /\ UNCHANGED <<guards, red, inert, file, brittle, deaths>>

(* The current site. *)
Site == CHOOSE s \in todo : \A t \in todo : Place[s] <= Place[t]

Lost == {s \in Sites : s \in inert \/ file[FileOf[s]] = "empty"}

Failing == {t \in Tests : t \in red \/ guards[t] \cap Lost # {}}

(* run_suite: whether the tests ran, and what it returns. *)
SuiteResults ==
    LET broken == brittle /\ \E f \in Files : file[f] = "empty"
    IN  (IF broken THEN {} ELSE {[ran |-> TRUE, count |-> Cardinality(Failing)]})
        \cup (IF broken \/ MayDie THEN {[ran |-> FALSE, count |-> 0]} ELSE {})

(* Mutant: the baseline is run and looked at by nobody. *)
BaselineIgnored ==
    /\ pc = "baseline"
    /\ \E result \in SuiteResults :
         /\ green' = (result.ran /\ result.count = 0)
         /\ pc' = "next"
    /\ UNCHANGED <<guards, red, inert, file, brittle, todo, margins, found, runs, deaths>>

Baseline ==
    /\ pc = "baseline"
    /\ \E result \in SuiteResults :
         /\ green' = (result.ran /\ result.count = 0)
         /\ pc' = IF result.count # 0 THEN "refused" ELSE "next"
    /\ UNCHANGED <<guards, red, inert, file, brittle, todo, margins, found, runs, deaths>>

(* Mutant: the rewrite does not apply, and nobody notices. *)
RewriteNothing ==
    /\ pc = "next" /\ todo # {}
    /\ pc' = "suite"
    /\ UNCHANGED <<guards, red, inert, file, brittle, todo, margins, green, found, runs, deaths>>

Rewrite ==
    /\ pc = "next" /\ todo # {}
    /\ inert' = inert \cup {Site}
    /\ pc' = "suite"
    /\ UNCHANGED <<guards, red, file, brittle, todo, margins, green, found, runs, deaths>>

(* What the suite returns is `noticed' until the file is restored. *)
Measure ==
    /\ pc = "suite"
    /\ \E result \in SuiteResults :
         margins' = [s \in DOMAIN margins \cup {Site} |->
                       IF s = Site THEN result.count ELSE margins[s]]
    /\ pc' = "restore"
    /\ UNCHANGED <<guards, red, inert, file, brittle, todo, green, found, runs, deaths>>

(* The write-back, which the script verifies by reading the file again.    *)
Restore ==
    /\ pc = "restore"
    /\ inert' = inert \ {Site}
    /\ todo' = todo \ {Site}
    /\ pc' = "next"
    /\ UNCHANGED <<guards, red, file, brittle, margins, green, found, runs, deaths>>

(* Mutant: an interrupt ends the script where it is. *)
InterruptNoFinally ==
    /\ pc = "suite"
    /\ pc' = "interrupted"
    /\ UNCHANGED <<guards, red, inert, file, brittle, todo, margins, green, found, runs, deaths>>

(* The suite is interrupted; when it runs on a rewritten site, the finally *)
(* clause restores the file.                                               *)
Interrupt ==
    /\ \/ pc = "baseline" /\ UNCHANGED inert
       \/ pc = "suite" /\ inert' = inert \ {Site}
    /\ pc' = "interrupted"
    /\ UNCHANGED <<guards, red, file, brittle, todo, margins, green, found, runs, deaths>>

(* Mutant: only a check none of whose sites was noticed by two tests. *)
UnverifiedUnlessTwice(measured) ==
    {c \in {CodeOf[s] : s \in DOMAIN measured} :
       \A s \in DOMAIN measured : CodeOf[s] = c => measured[s] <= 1}

(* The checks none of whose measured sites was noticed. *)
UnverifiedCodes(measured) ==
    {c \in {CodeOf[s] : s \in DOMAIN measured} :
       \A s \in DOMAIN measured : CodeOf[s] = c => measured[s] = 0}

Report ==
    /\ pc = "next" /\ todo = {}
    /\ pc' = IF UnverifiedCodes(margins) # {} THEN "unverified found" ELSE "all verified"
    /\ UNCHANGED <<guards, red, inert, file, brittle, todo, margins, green, found, runs, deaths>>

(* The process dies.  A file it was about to write, or to write back, may  *)
(* be left half-written.                                                   *)
Die ==
    /\ pc \notin Ended
    /\ deaths < MaxDeaths
    /\ deaths' = deaths + 1
    /\ pc' = "dead"
    /\ \/ UNCHANGED file
       \/ /\ pc = "restore" \/ (pc = "next" /\ todo # {})
          /\ \E left \in {"cut off", "empty"} : file' = [file EXCEPT ![FileOf[Site]] = left]
    /\ UNCHANGED <<guards, red, inert, brittle, todo, margins, green, found, runs>>

Next == Start \/ Baseline \/ Rewrite \/ Measure \/ Restore \/ Interrupt \/ Report \/ Die

Spec == Init /\ [][Next]_vars

-----------------------------------------------------------------------------
TypeOK ==
    /\ inert \subseteq Sites /\ todo \subseteq Sites
    /\ file \in [Files -> {"whole", "cut off", "empty"}]
    /\ pc \in Ended \cup {"baseline", "next", "suite", "restore"}
    /\ pc \in {"suite", "restore"} => todo # {} /\ Site \in inert
    /\ DOMAIN margins \subseteq Sites
    /\ \A s \in DOMAIN margins : margins[s] \in 0..Cardinality(Tests)
    /\ runs \in 0..MaxRuns /\ deaths \in 0..MaxDeaths

Guarding(s) == {t \in Tests : s \in guards[t]}

(* No margin is larger than the number of tests that notice the loss of    *)
(* that site and of nothing else, also when an earlier run died and left   *)
(* another site rewritten or a file empty: the measurement never fails     *)
(* upward.                                                                 *)
NeverOverstates == \A s \in DOMAIN margins : margins[s] <= Cardinality(Guarding(s))

(* However a run ends, short of dying, the modules are as it found them.   *)
LeavesNoTrace == pc \in Ended /\ pc # "dead" => inert = found

(* The sites this run cannot see: rewritten, or in a damaged file, since a *)
(* run that died.                                                          *)
Unseen == found \cup {s \in Sites : file[FileOf[s]] # "whole"}

(* A run that reports every check verified is right about each check it    *)
(* saw a site of: one has a site whose loss a test notices.  What an       *)
(* earlier run left behind can hide a check from the report, all its sites *)
(* together, but never turns its verdict around.  On an intact checkout    *)
(* nothing is hidden, and a run that reports a check unverified is right   *)
(* too.                                                                    *)
VerdictIsRight ==
    /\ pc = "all verified" =>
         \A c \in {CodeOf[s] : s \in Sites} :
           \/ \E s \in Sites : CodeOf[s] = c /\ Guarding(s) # {}
           \/ {s \in Sites : CodeOf[s] = c} \subseteq Unseen
    /\ pc = "unverified found" /\ Unseen = {} =>
         \E c \in {CodeOf[s] : s \in Sites} :
           \A s \in Sites : CodeOf[s] = c => Guarding(s) = {}

(* The script's own precondition: sites are measured only against a        *)
(* baseline that ran and was green.                                        *)
MeasuredFromGreen == pc \in {"suite", "restore"} => green
=============================================================================
