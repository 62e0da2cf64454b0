------------------------ MODULE MutationHarnessProofs -----------------------
(***************************************************************************)
(* What the mutation harness leaves on disk and what its numbers are       *)
(* worth, for every list of sites, every suite and every bound, with any   *)
(* number of runs and deaths in a row.                                     *)
(***************************************************************************)
EXTENDS MutationHarness, FiniteSetTheorems, LeastNumbers, TLAPS

InRun == pc \in {"baseline", "next", "suite", "restore"}

Measuring == pc \in {"next", "suite", "restore"}

(* What is rewritten: what the run found, and the current site while it is *)
(* being measured.                                                         *)
Tree ==
    /\ TypeOK
    /\ guards \in [Tests -> SUBSET Sites] /\ found \subseteq Sites
    /\ InRun => todo \cap found = {} /\ Sites \ Unseen = todo \cup DOMAIN margins
    /\ InRun => inert = found \cup (IF pc \in {"suite", "restore"} THEN {Site} ELSE {})
    /\ pc = "restore" => Site \in DOMAIN margins
    /\ pc \in Ended /\ pc # "dead" => inert = found

(* A suite that no longer imports, which returns 0 before and after a site *)
(* is rewritten.                                                           *)
Broken == brittle /\ \E f \in Files : file[f] = "empty"

(* What the script's checkout had lost before it rewrote anything.         *)
LostBefore == found \cup {s \in Sites : file[FileOf[s]] = "empty"}

(* A margin is the number of tests that notice the site, or 0 when the     *)
(* suite did not import; the baseline left no test that fails for another  *)
(* reason.                                                                 *)
Exact ==
    /\ Measuring => \/ Broken
                    \/ \A t \in Tests : t \notin red /\ guards[t] \cap LostBefore = {}
    /\ \A s \in DOMAIN margins : margins[s] \in {0, Cardinality(Guarding(s))}
    /\ pc # "dead" /\ ~ Broken => \A s \in DOMAIN margins : margins[s] = Cardinality(Guarding(s))

(* A verdict is read from the margins of all sites the run saw.            *)
Verdict ==
    pc \in {"all verified", "unverified found"} =>
      /\ DOMAIN margins = Sites \ Unseen
      /\ pc = "all verified" <=> UnverifiedCodes(margins) = {}

IInv == Tree /\ Exact /\ Verdict

-----------------------------------------------------------------------------
(* The first of the sites that are left is one of them. *)
LEMMA LeastSite ==
    ASSUME todo \subseteq Sites, todo # {}
    PROVE  Site \in todo
<1>1. \A s \in Sites : Place[s] \in Nat
  BY MutationHarnessAssumption
<1>2. \E s \in todo : \A t \in todo : Place[s] <= Place[t]
  <2> DEFINE Places == {Place[s] : s \in todo}
  <2>1. Places \subseteq Nat /\ Places # {}
    BY <1>1
  <2>2. \E m \in Places : \A n \in Places : m <= n
    BY <2>1, LeastElement
  <2> QED BY <2>2
<1> QED BY <1>2 DEF Site

-----------------------------------------------------------------------------
LEMMA Bounds == MaxRuns \in Nat /\ MaxDeaths \in Nat
BY MutationHarnessAssumption

LEMMA OneMore ==
    ASSUME NEW n \in Nat, NEW k \in 0..n, k < n
    PROVE  k + 1 \in 0..n
OBVIOUS

LEMMA TreeInit == Init => Tree
<1> SUFFICES ASSUME Init PROVE Tree
  OBVIOUS
<1>1. TypeOK
  <2>1. inert \subseteq Sites /\ todo \subseteq Sites /\ DOMAIN margins = {}
    BY DEF Init
  <2>2. file \in [Files -> {"whole", "cut off", "empty"}]
    BY DEF Init
  <2>3. runs \in 0..MaxRuns /\ deaths \in 0..MaxDeaths
    <3>1. runs = 0 /\ deaths = 0
      BY DEF Init
    <3> QED BY <3>1, Bounds
  <2> QED BY <2>1, <2>2, <2>3 DEF Init, TypeOK, Ended
<1> QED BY <1>1 DEF Init, Tree, InRun, Ended

LEMMA CountOfTests ==
    ASSUME NEW result \in SuiteResults
    PROVE  result.count \in 0..Cardinality(Tests)
<1>1. Failing \subseteq Tests
  BY DEF Failing
<1>2. /\ IsFiniteSet(Tests)
      /\ Cardinality(Tests) \in Nat /\ Cardinality(Failing) \in Nat
      /\ Cardinality(Failing) <= Cardinality(Tests)
  BY <1>1, MutationHarnessAssumption, FS_Subset, FS_CardinalityType
<1>3. result.count = Cardinality(Failing) \/ result.count = 0
  BY DEF SuiteResults
<1> QED BY <1>2, <1>3

LEMMA TreeNext ==
    ASSUME Tree, [Next]_vars
    PROVE  Tree'
<1> USE DEF Ended, InRun
<1> USE DEF Tree
<1>1. CASE Start
  <2>1. inert' \subseteq Sites /\ todo' \subseteq Sites /\ DOMAIN margins' = {}
    BY <1>1 DEF Start, TypeOK
  <2>2. runs' \in 0..MaxRuns /\ deaths' \in 0..MaxDeaths
    <3>1. /\ runs \in 0..MaxRuns /\ runs < MaxRuns /\ runs' = runs + 1
          /\ deaths \in 0..MaxDeaths /\ deaths' = deaths
      <4>1. TypeOK
        OBVIOUS
      <4> QED BY <4>1, <1>1 DEF Start, TypeOK
    <3> HIDE DEF Tree, Ended, InRun
    <3>2. runs + 1 \in 0..MaxRuns
      BY <3>1, Bounds, OneMore
    <3> QED BY <3>1, <3>2
  <2>3. pc' \in {"baseline", "refused"} /\ UNCHANGED <<file, guards, inert>> /\ found' = inert
    BY <1>1 DEF Start
  <2>4. TypeOK'
    BY <2>1, <2>2, <2>3 DEF TypeOK
  <2>5. todo' \cap found' = {} /\ Sites \ Unseen' = todo'
    BY <1>1, <2>3 DEF Start, Unseen
  <2> QED BY <2>1, <2>3, <2>4, <2>5 DEF TypeOK
<1>2. CASE Baseline
  <2>1. /\ pc = "baseline" /\ pc' \in {"refused", "next"}
        /\ UNCHANGED <<guards, inert, file, todo, margins, found, runs, deaths>>
    BY <1>2 DEF Baseline
  <2>2. TypeOK'
    BY <2>1 DEF TypeOK
  <2> QED BY <2>1, <2>2 DEF Unseen
<1>3. CASE Rewrite
  <2>1. /\ pc = "next" /\ pc' = "suite" /\ inert' = inert \cup {Site}
        /\ UNCHANGED <<guards, file, todo, margins, found, runs, deaths>>
    BY <1>3 DEF Rewrite
  <2>2. Site \in todo /\ Site' = Site
    BY <1>3, LeastSite DEF Rewrite, TypeOK, Site
  <2>3. TypeOK'
    BY <2>1, <2>2 DEF TypeOK
  <2> QED BY <2>1, <2>2, <2>3 DEF Unseen
<1>4. CASE Measure
  <2>1. /\ pc = "suite" /\ pc' = "restore"
        /\ UNCHANGED <<guards, inert, file, todo, found, runs, deaths>>
    BY <1>4 DEF Measure
  <2>2. Site \in todo /\ Site' = Site
    BY <2>1, LeastSite DEF TypeOK, Site
  <2>3. PICK result \in SuiteResults :
          margins' = [s \in DOMAIN margins \cup {Site} |->
                        IF s = Site THEN result.count ELSE margins[s]]
    BY <1>4 DEF Measure
  <2>4. /\ DOMAIN margins' = DOMAIN margins \cup {Site}
        /\ \A s \in DOMAIN margins' : margins'[s] \in 0..Cardinality(Tests)
    BY <2>3, CountOfTests DEF TypeOK
  <2>5. TypeOK'
    BY <2>1, <2>2, <2>4 DEF TypeOK
  <2> QED BY <2>1, <2>2, <2>4, <2>5 DEF Unseen
<1>5. CASE Restore
  <2>1. /\ pc = "restore" /\ pc' = "next"
        /\ inert' = inert \ {Site} /\ todo' = todo \ {Site}
        /\ UNCHANGED <<guards, file, margins, found, runs, deaths>>
    BY <1>5 DEF Restore
  <2>2. Site \in todo /\ Site \in DOMAIN margins /\ Site \notin found
    BY <2>1, LeastSite DEF TypeOK
  <2>3. TypeOK'
    BY <2>1 DEF TypeOK
  <2> QED BY <2>1, <2>2, <2>3 DEF Unseen
<1>6. CASE Interrupt
  <2>1. /\ pc \in {"baseline", "suite"} /\ pc' = "interrupted"
        /\ UNCHANGED <<guards, file, todo, margins, found, runs, deaths>>
        /\ inert' = IF pc = "suite" THEN inert \ {Site} ELSE inert
    BY <1>6 DEF Interrupt
  <2>2. pc = "suite" => Site \in todo /\ Site \notin found
    BY LeastSite DEF TypeOK
  <2>3. TypeOK'
    BY <2>1 DEF TypeOK
  <2>4. inert' = found'
    <3>1. CASE pc = "suite"
      <4>1. inert = found \cup {Site} /\ inert' = inert \ {Site} /\ found' = found
        BY <2>1, <3>1
      <4> QED BY <4>1, <2>2, <3>1
    <3>2. CASE pc = "baseline"
      BY <2>1, <3>2
    <3> QED BY <3>1, <3>2, <2>1
  <2> QED BY <2>1, <2>3, <2>4
<1>7. CASE Report
  <2>1. /\ pc = "next" /\ pc' \in {"unverified found", "all verified"}
        /\ UNCHANGED <<guards, inert, file, todo, margins, found, runs, deaths>>
    BY <1>7 DEF Report
  <2>2. TypeOK'
    BY <2>1 DEF TypeOK
  <2> QED BY <2>1, <2>2
<1>8. CASE Die
  <2>1. /\ pc' = "dead"
        /\ UNCHANGED <<guards, inert, todo, margins, found, runs>>
    BY <1>8 DEF Die
  <2>2. file' \in [Files -> {"whole", "cut off", "empty"}]
    BY <1>8 DEF Die, TypeOK
  <2>3. deaths' \in 0..MaxDeaths
    <3>1. deaths \in 0..MaxDeaths /\ deaths < MaxDeaths /\ deaths' = deaths + 1
      BY <1>8 DEF Die, TypeOK
    <3> HIDE DEF Tree, Ended, InRun
    <3>2. deaths + 1 \in 0..MaxDeaths
      BY <3>1, Bounds, OneMore
    <3> QED BY <3>1, <3>2
  <2>4. TypeOK'
    BY <2>1, <2>2, <2>3 DEF TypeOK
  <2> QED BY <2>1, <2>4
<1>9. CASE UNCHANGED vars
  <2>1. Site' = Site /\ Unseen' = Unseen
    BY <1>9 DEF vars, Site, Unseen
  <2>2. TypeOK'
    <3>1. TypeOK
      OBVIOUS
    <3> QED BY <1>9, <2>1, <3>1 DEF vars, TypeOK
  <2> QED BY <1>9, <2>1, <2>2 DEF vars
<1> QED BY <1>1, <1>2, <1>3, <1>4, <1>5, <1>6, <1>7, <1>8, <1>9 DEF Next

-----------------------------------------------------------------------------
LEMMA GuardingIsFinite ==
    ASSUME NEW s \in Sites
    PROVE  /\ IsFiniteSet(Guarding(s)) /\ Cardinality(Guarding(s)) \in Nat
           /\ Cardinality(Guarding(s)) = 0 <=> Guarding(s) = {}
<1>1. Guarding(s) \subseteq Tests
  BY DEF Guarding
<1>2. IsFiniteSet(Guarding(s))
  BY <1>1, MutationHarnessAssumption, FS_Subset
<1> QED BY <1>2, FS_CardinalityType, FS_EmptySet

(* What the suite returns for the current site. *)
LEMMA SuiteCountsGuards ==
    ASSUME IInv, ~ MayDie, pc = "suite", NEW result \in SuiteResults
    PROVE  /\ result.count \in {0, Cardinality(Guarding(Site))}
           /\ ~ Broken => result.count = Cardinality(Guarding(Site))
<1>1. CASE Broken
  BY <1>1 DEF Broken, SuiteResults
<1>2. CASE ~ Broken
  <2>1. Lost = LostBefore \cup {Site}
    <3>1. inert = found \cup {Site} /\ found \subseteq Sites /\ Site \in Sites
      <4>1. todo \subseteq Sites /\ todo # {}
        BY DEF IInv, Tree, TypeOK
      <4> QED BY <4>1, LeastSite DEF IInv, Tree, InRun
    <3> QED BY <3>1 DEF Lost, LostBefore
  <2>2. \A t \in Tests : t \notin red /\ guards[t] \cap LostBefore = {}
    BY <1>2 DEF IInv, Exact, Measuring
  <2>3. Failing = Guarding(Site)
    BY <2>1, <2>2 DEF Failing, Guarding
  <2>4. result.count = Cardinality(Failing)
    BY <1>2 DEF Broken, SuiteResults
  <2> QED BY <2>3, <2>4
<1> QED BY <1>1, <1>2

(* A baseline that passed, of a suite that ran, has no failing test. *)
LEMMA GreenBaseline ==
    ASSUME IInv, ~ MayDie, pc = "baseline", ~ Broken,
           NEW result \in SuiteResults, result.count = 0
    PROVE  \A t \in Tests : t \notin red /\ guards[t] \cap LostBefore = {}
<1>1. Failing \subseteq Tests /\ result.count = Cardinality(Failing)
  BY DEF Broken, SuiteResults, Failing
<1>2. Failing = {}
  BY <1>1, MutationHarnessAssumption, FS_Subset, FS_EmptySet
<1>3. inert = found /\ found \subseteq Sites
  BY DEF IInv, Tree, InRun
<1>4. LostBefore = Lost
  BY <1>3 DEF LostBefore, Lost
<1> QED BY <1>2, <1>4 DEF Failing

LEMMA ExactInit == Init => Exact /\ Verdict
<1> SUFFICES ASSUME Init PROVE Exact /\ Verdict
  OBVIOUS
<1>1. pc = "not started" /\ DOMAIN margins = {}
  BY DEF Init
<1> QED BY <1>1 DEF Exact, Verdict, Measuring

LEMMA ExactNext ==
    ASSUME IInv, ~ MayDie, [Next]_vars
    PROVE  Exact'
<1>1. CASE Start
  <2>1. pc' \in {"baseline", "refused"} /\ DOMAIN margins' = {}
    BY <1>1 DEF Start
  <2> QED BY <2>1 DEF Exact, Measuring
<1>2. CASE Baseline
  <2>1. PICK result \in SuiteResults : pc' = IF result.count # 0 THEN "refused" ELSE "next"
    BY <1>2 DEF Baseline
  <2>2. pc = "baseline" /\ UNCHANGED <<guards, red, file, brittle, margins, found>>
    BY <1>2 DEF Baseline
  <2>3. /\ Broken' = Broken /\ LostBefore' = LostBefore
        /\ \A s : Guarding(s)' = Guarding(s)
    BY <2>2 DEF Broken, LostBefore, Guarding
  <2>4. pc' = "next" => \/ Broken
                         \/ \A t \in Tests : t \notin red /\ guards[t] \cap LostBefore = {}
    BY <2>1, <2>2, GreenBaseline
  <2> QED BY <2>1, <2>2, <2>3, <2>4 DEF IInv, Exact, Measuring
<1>3. CASE Measure
  <2>1. PICK result \in SuiteResults :
          margins' = [s \in DOMAIN margins \cup {Site} |->
                        IF s = Site THEN result.count ELSE margins[s]]
    BY <1>3 DEF Measure
  <2>2. /\ pc = "suite" /\ pc' = "restore"
        /\ UNCHANGED <<guards, red, file, brittle, found>>
    BY <1>3 DEF Measure
  <2>3. /\ Broken' = Broken /\ LostBefore' = LostBefore
        /\ \A s : Guarding(s)' = Guarding(s)
    BY <2>2 DEF Broken, LostBefore, Guarding
  <2>4. /\ result.count \in {0, Cardinality(Guarding(Site))}
        /\ ~ Broken => result.count = Cardinality(Guarding(Site))
    BY <2>2, SuiteCountsGuards
  <2> QED BY <2>1, <2>2, <2>3, <2>4 DEF IInv, Exact, Measuring
<1>4. CASE Die
  <2>1. pc' = "dead" /\ UNCHANGED <<guards, margins>>
    BY <1>4 DEF Die
  <2>2. \A s : Guarding(s)' = Guarding(s)
    BY <2>1 DEF Guarding
  <2> QED BY <2>1, <2>2 DEF IInv, Exact, Measuring
<1>5. CASE Rewrite \/ Restore \/ Interrupt \/ Report \/ UNCHANGED vars
  <2>1. UNCHANGED <<guards, red, file, brittle, margins, found>>
    BY <1>5 DEF Rewrite, Restore, Interrupt, Report, vars
  <2>2. Measuring' => Measuring
    BY <1>5 DEF Rewrite, Restore, Interrupt, Report, vars, Measuring
  <2>3. pc' # "dead" => pc # "dead"
    BY <1>5 DEF Rewrite, Restore, Interrupt, Report, vars
  <2>4. /\ Broken' = Broken /\ LostBefore' = LostBefore
        /\ \A s : Guarding(s)' = Guarding(s)
    BY <2>1 DEF Broken, LostBefore, Guarding
  <2> QED BY <2>1, <2>2, <2>3, <2>4 DEF IInv, Exact
<1> QED BY <1>1, <1>2, <1>3, <1>4, <1>5 DEF Next

LEMMA VerdictNext ==
    ASSUME IInv, [Next]_vars
    PROVE  Verdict'
<1>1. CASE Report
  <2>1. /\ pc = "next" /\ todo = {} /\ UNCHANGED <<file, margins, found>>
        /\ pc' = IF UnverifiedCodes(margins) # {} THEN "unverified found" ELSE "all verified"
    BY <1>1 DEF Report
  <2>2. Unseen' = Unseen /\ UnverifiedCodes(margins)' = UnverifiedCodes(margins)
    BY <2>1 DEF Unseen, UnverifiedCodes
  <2>3. DOMAIN margins = Sites \ Unseen
    BY <2>1 DEF IInv, Tree, InRun
  <2> QED BY <2>1, <2>2, <2>3 DEF Verdict
<1>2. CASE UNCHANGED vars
  <2>1. /\ UNCHANGED <<pc, margins>> /\ Unseen' = Unseen
        /\ UnverifiedCodes(margins)' = UnverifiedCodes(margins)
    BY <1>2 DEF vars, Unseen, UnverifiedCodes
  <2> QED BY <2>1 DEF IInv, Verdict
<1>3. CASE Start \/ Baseline \/ Rewrite \/ Measure \/ Restore \/ Interrupt \/ Die
  <2>1. pc' \notin {"all verified", "unverified found"}
    BY <1>3 DEF Start, Baseline, Rewrite, Measure, Restore, Interrupt, Die
  <2> QED BY <2>1 DEF Verdict
<1> QED BY <1>1, <1>2, <1>3 DEF Next

(* What an invariant of exact margins says about margins and verdicts. *)
LEMMA ExactIsRight ==
    ASSUME IInv
    PROVE  NeverOverstates /\ VerdictIsRight
<1>1. DOMAIN margins \subseteq Sites
  BY DEF IInv, Tree, TypeOK
<1>2. \A s \in DOMAIN margins :
        margins[s] = 0 \/ margins[s] = Cardinality(Guarding(s))
  BY DEF IInv, Exact
<1>3. NeverOverstates
  <2> SUFFICES ASSUME NEW s \in DOMAIN margins
               PROVE  margins[s] <= Cardinality(Guarding(s))
    BY DEF NeverOverstates
  <2>1. Cardinality(Guarding(s)) \in Nat
    BY <1>1, GuardingIsFinite
  <2> QED BY <1>2, <2>1
<1>4. ASSUME pc = "all verified", NEW c \in {CodeOf[s] : s \in Sites}
      PROVE  \/ \E s \in Sites : CodeOf[s] = c /\ Guarding(s) # {}
             \/ {s \in Sites : CodeOf[s] = c} \subseteq Unseen
  <2>1. DOMAIN margins = Sites \ Unseen /\ UnverifiedCodes(margins) = {}
    BY <1>4 DEF IInv, Verdict
  <2>2. CASE \E s \in DOMAIN margins : CodeOf[s] = c
    <3>1. c \in {CodeOf[s] : s \in DOMAIN margins}
      BY <2>2
    <3>2. PICK s \in DOMAIN margins : CodeOf[s] = c /\ margins[s] # 0
      BY <2>1, <3>1 DEF UnverifiedCodes
    <3>3. Cardinality(Guarding(s)) # 0
      BY <1>2, <3>2
    <3>4. Guarding(s) # {}
      BY <1>1, <3>3, GuardingIsFinite
    <3> QED BY <1>1, <3>2, <3>4
  <2>3. CASE ~ \E s \in DOMAIN margins : CodeOf[s] = c
    BY <2>1, <2>3
  <2> QED BY <2>2, <2>3
<1>5. ASSUME pc = "unverified found", Unseen = {}
      PROVE  \E c \in {CodeOf[s] : s \in Sites} :
               \A s \in Sites : CodeOf[s] = c => Guarding(s) = {}
  <2>1. DOMAIN margins = Sites /\ UnverifiedCodes(margins) # {}
    BY <1>5 DEF IInv, Verdict
  <2>2. PICK c \in {CodeOf[s] : s \in Sites} :
          \A s \in Sites : CodeOf[s] = c => margins[s] = 0
    BY <2>1 DEF UnverifiedCodes
  <2>3. ~ Broken
    <3>1. \A f \in Files : file[f] = "whole"
      BY <1>5 DEF Unseen, Files
    <3> QED BY <3>1 DEF Broken
  <2>4. \A s \in Sites : margins[s] = Cardinality(Guarding(s))
    BY <1>5, <2>1, <2>3 DEF IInv, Exact
  <2>5. \A s \in Sites : CodeOf[s] = c => Guarding(s) = {}
    BY <2>2, <2>4, GuardingIsFinite
  <2> QED BY <2>5
<1> QED BY <1>3, <1>4, <1>5 DEF VerdictIsRight

-----------------------------------------------------------------------------
(* The state of the script and of its checkout has the types given, for    *)
(* any suite that may or may not run.                                      *)
THEOREM HarnessTypeCorrect == Spec => []TypeOK
<1>1. Tree => TypeOK
  BY DEF Tree
<1> QED BY TreeInit, TreeNext, <1>1, PTL DEF Spec

(* mutate_modules.py restores: a run that ends in any way but by dying     *)
(* leaves the modules as it found them.                                    *)
THEOREM RestoresTheTree == Spec => []LeavesNoTrace
<1>1. Tree => LeavesNoTrace
  BY DEF Tree, LeavesNoTrace
<1> QED BY TreeInit, TreeNext, <1>1, PTL DEF Spec

(* When every suite runs, except one that cannot be collected since an     *)
(* earlier run emptied a module, no margin exceeds the number of tests     *)
(* that notice the site.                                                   *)
THEOREM MarginsAreEarned ==
    ASSUME ~ MayDie
    PROVE  Spec => []NeverOverstates
<1>1. Init => IInv
  BY TreeInit, ExactInit DEF IInv
<1>2. IInv /\ [Next]_vars => IInv'
  BY TreeNext, ExactNext, VerdictNext DEF IInv
<1>3. IInv => NeverOverstates
  BY ExactIsRight
<1> QED BY <1>1, <1>2, <1>3, PTL DEF Spec

(* Under the same condition a report of "all verified" is right about each *)
(* check the run saw a site of, and one of unverified checks is right on   *)
(* an intact checkout.                                                     *)
THEOREM VerdictsAreRight ==
    ASSUME ~ MayDie
    PROVE  Spec => []VerdictIsRight
<1>1. Init => IInv
  BY TreeInit, ExactInit DEF IInv
<1>2. IInv /\ [Next]_vars => IInv'
  BY TreeNext, ExactNext, VerdictNext DEF IInv
<1>3. IInv => VerdictIsRight
  BY ExactIsRight
<1> QED BY <1>1, <1>2, <1>3, PTL DEF Spec
=============================================================================
