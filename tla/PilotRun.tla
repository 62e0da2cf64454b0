------------------------------ MODULE PilotRun ------------------------------
(***************************************************************************)
(* runner._run_levels with the shipped checkers: one record, one set of    *)
(* caller options, the levels 0..MaxLevel in one execution.  Each checker  *)
(* call reads the clock and the policy resolver anew, so the same field of *)
(* the same record may be judged differently at two levels.                *)
(*                                                                         *)
(* The checkers build every finding they return and change none, so a run  *)
(* is described here by values; Execution describes what the capture does  *)
(* about checkers and callbacks that do otherwise.                         *)
(***************************************************************************)
EXTENDS Obligations, PilotRegistry, Checkers, Verdicts

CONSTANTS Records,     \* the records that may be submitted
          OptionSets,  \* [nonce, receipt, resolver] the caller may pass
          MaxLevel,    \* the levels attempted are 0..MaxLevel
          StartTime,   \* the clock when the run starts
          MaxTime      \* bound: the clock when it ends

(* The tables are the shipped ones. *)
ASSUME PilotRunTables ==
    /\ Codes = PilotCodes /\ Texts = PilotTexts
    /\ Modules = PilotModules
    /\ Keys = PilotKeys /\ Owner = PilotOwner
    /\ Rule = PilotRule /\ Branches = PilotBranches

ASSUME PilotRunAssumption ==
    /\ Records \subseteq Record
    /\ MaxLevel \in 0..2
    /\ {IatMin, MaxAge, Skew, StartTime, MaxTime} \subseteq Int
    /\ StartTime <= MaxTime

VARIABLES record, options,
          now,       \* int(time.time())
          done,      \* the cells that ran, with their facts and findings
          outcome,   \* "running", "completed" or "rejected"
          document   \* the sealed document, once there is one

vars == <<record, options, now, done, outcome, document>>

Levels == 0..MaxLevel

Plan == PilotPlan(MaxLevel)

StartPolicy == ShippedPolicy(PilotThresholds)

Init ==
    /\ record \in Records
    /\ options \in OptionSets
    /\ now = StartTime
    /\ done = [cell \in {} |-> <<>>]
    /\ outcome = "running"
    /\ document = {}

Tick ==
    /\ outcome = "running"
    /\ now < MaxTime
    /\ now' = now + 1
    /\ UNCHANGED <<record, options, done, outcome, document>>

(* Mutant: the contribution is decided as of Level 0 whatever the level.   *)
FactsOfLevelZero(level, observed) ==
    [i \in DOMAIN observed |->
       [branch |-> observed[i].branch,
        earned |-> observed[i].earned,
        counts |-> {CountsAsLevelFailure(StartPolicy, f, 0) : f \in observed[i].earned}]]

(* What _observe records of a checker's calls: with a finding handed over, *)
(* the frozen policy's verdict on it.                                      *)
FactsOf(level, observed) ==
    [i \in DOMAIN observed |->
       [branch |-> observed[i].branch,
        earned |-> observed[i].earned,
        counts |-> {CountsAsLevelFailure(StartPolicy, f, level) : f \in observed[i].earned}]]

(* _observe refuses a finding that is not the module's own obligation, and *)
(* _validate_returned a list in which a finding handed over is not there   *)
(* exactly once, or in which the findings under the pilot code are not     *)
(* those handed over, in that order.  A shipped checker builds one finding *)
(* for a code at most, so its value stands for its identity.               *)
ReturnsWhatItObserved(module, observed, found) ==
    LET earning == {i \in DOMAIN observed : observed[i].earned # {}}
        pilot   == {p \in DOMAIN found : found[p].code \in PilotCode(module)}
    IN  /\ \A i \in earning : \A f \in observed[i].earned :
             f.code \in PilotCode(module) /\ OnlyOne({p \in DOMAIN found : found[p] = f})
        /\ \E match \in InOrder(earning, pilot) :
             \A i \in earning : found[match[i]] \in observed[i].earned

(* Mutant: the modules of the plan are run from the last to the first. *)
RunCheckerBackwards(answer) ==
    LET cell     == Plan[Len(Plan) - Cardinality(DOMAIN done)]
        observed == Observed(cell[2], record, options, answer)
        found    == FindingsOf(cell[2], record, options, cell[1], now, answer)
        result   == [facts |-> FactsOf(cell[1], observed), findings |-> found]
    IN  /\ outcome = "running"
        /\ Cardinality(DOMAIN done) < Len(Plan)
        /\ done' = [c \in DOMAIN done \cup {cell} |-> IF c = cell THEN result ELSE done[c]]
        /\ UNCHANGED <<record, options, now, outcome, document>>

(* Mutant: the resolver's exception is not caught. *)
RunCheckerUncaught(answer) ==
    LET cell     == Plan[Cardinality(DOMAIN done) + 1]
        observed == Observed(cell[2], record, options, answer)
        found    == FindingsOf(cell[2], record, options, cell[1], now, answer)
        result   == [facts |-> FactsOf(cell[1], observed), findings |-> found]
    IN  /\ outcome = "running"
        /\ Cardinality(DOMAIN done) < Len(Plan)
        /\ IF cell[2] = "TR-POL" /\ AsksResolver(record, options) /\ answer = "raises"
             THEN outcome' = "rejected" /\ done' = [c \in {} |-> <<>>]
             ELSE /\ done' = [c \in DOMAIN done \cup {cell} |->
                                IF c = cell THEN result ELSE done[c]]
                  /\ UNCHANGED outcome
        /\ UNCHANGED <<record, options, now, document>>

(* One cell of the plan: the checker observes and returns, and what it     *)
(* returned is held against what it observed.  An exception on the way     *)
(* ends the run and leaves nothing.  A checker that consults no resolver   *)
(* runs the same whatever the answer; "raises" stands for that.            *)
RunChecker(answer) ==
    LET cell     == Plan[Cardinality(DOMAIN done) + 1]
        observed == Observed(cell[2], record, options, answer)
        found    == FindingsOf(cell[2], record, options, cell[1], now, answer)
        result   == [facts |-> FactsOf(cell[1], observed), findings |-> found]
    IN  /\ outcome = "running"
        /\ Cardinality(DOMAIN done) < Len(Plan)
        /\ answer # "raises" => cell[2] = "TR-POL" /\ AsksResolver(record, options)
        /\ \/ /\ ReturnsWhatItObserved(cell[2], observed, found)
              /\ done' = [c \in DOMAIN done \cup {cell} |->
                            IF c = cell THEN result ELSE done[c]]
              /\ UNCHANGED outcome
           \/ /\ ~ReturnsWhatItObserved(cell[2], observed, found)
              /\ done' = [c \in {} |-> <<>>]
              /\ outcome' = "rejected"
        /\ UNCHANGED <<record, options, now, document>>

(* The facts of _end_level for the owners a level does not schedule. *)
AllFacts ==
    [cell \in Levels \X Modules |->
       IF cell \in DOMAIN done THEN done[cell].facts
       ELSE IF cell[2] = "TR-SCA"
       THEN <<[branch |-> "level0_scheduler_nonexecution", earned |-> {}, counts |-> {}]>>
       ELSE <<>>]

AllFindings == [cell \in DOMAIN done |-> done[cell].findings]

(* _complete_execution. *)
Complete ==
    /\ outcome = "running"
    /\ Cardinality(DOMAIN done) = Len(Plan)
    /\ \/ /\ Projectable(Levels, AllFacts, AllFindings, StartPolicy)
          /\ document' = {Document(Levels, AllFacts, AllFindings, StartPolicy)}
          /\ outcome' = "completed"
          /\ UNCHANGED done
       \/ /\ ~Projectable(Levels, AllFacts, AllFindings, StartPolicy)
          /\ outcome' = "rejected"
          /\ done' = [cell \in {} |-> <<>>]
          /\ UNCHANGED document
    /\ UNCHANGED <<record, options, now>>

Next == Tick \/ (\E answer \in Answers : RunChecker(answer)) \/ Complete

Spec == Init /\ [][Next]_vars

(* The run is straight-line code, and its callbacks return.                *)
FairSpec == Spec /\ WF_vars((\E answer \in Answers : RunChecker(answer)) \/ Complete)

-----------------------------------------------------------------------------
TypeOK ==
    /\ record \in Records /\ options \in OptionSets
    /\ now \in StartTime..MaxTime
    /\ \E n \in 0..Len(Plan) : DOMAIN done = {Plan[i] : i \in 1..n}
    /\ \A cell \in DOMAIN done : done[cell].findings \in Seq(Finding)
    /\ outcome \in {"running", "completed", "rejected"}
    /\ outcome = "completed" <=> document # {}

(* The shipped checkers and the shipped registry agree: no record, option, *)
(* clock or resolver answer makes the accounting reject an honest run, and *)
(* the document passes the revalidation that guards emission.              *)
HonestRunsPublish ==
    /\ outcome # "rejected"
    /\ \A d \in document : EmissionAccepts(Levels, d)

Passed(d, level) == d.tallies[level].failures = 0

(* What the rows say and what the level says: an obligation blocked by a   *)
(* prerequisite, or one that counts as a failure, is never in a level that *)
(* passed.                                                                 *)
AccountingNeverContradictsVerdict ==
    \A d \in document : \A l \in Levels, k \in Keys :
      Passed(d, l) =>
        /\ d.rows[<<l, k>>].projection.state # "blocked_by_prerequisite"
        /\ d.rows[<<l, k>>].counts # {TRUE}

SignatureChecked == record.jwk = "Ed25519" /\ record.canonical /\ record.signature = "valid"

(* Was, at some moment of the run, neither ahead of the clock nor stale. *)
Fresh(time) == \E t \in StartTime..now : time <= t + Skew /\ t - time <= MaxAge

(* What docs/levels.md lists for each level, and what else the checkers it *)
(* names there test.  Level 0: the profile, a fresh record about a URI, a  *)
(* supported key without its private part, a signature that is good or     *)
(* honestly absent, a policy and an appraisal of the shapes required.      *)
LevelZeroEvidence ==
    /\ record.eat_profile = "trace-v0.2" /\ record.subject = "uri"
    /\ record.iat >= IatMin /\ Fresh(record.iat)
    /\ record.jwk \in {"Ed25519", "OKP without x", "other curve"}
    /\ record.private = "none"
    /\ SignatureChecked \/ (record.format = "trace" /\ record.signature = "absent")
    /\ record.policy = "object" /\ record.bundle_hash = "digest"
    /\ record.enforcement_mode = "valid"
    /\ record.policy_uri \in {"absolute", "absent", "null"}
    /\ record.appraisal = "object" /\ record.status # "unknown"
    /\ record.verifier = "uri" /\ record.policy_ref \in {"absent", "uri"}
    /\ \/ record.timestamp = NoTime
       \/ record.timestamp # BadTime /\ record.timestamp <= now + Skew

(* Level 1: a good signature, a TEE, the verifier's challenge, provenance  *)
(* and an affirming appraisal.  That the measurement is not all zero, as   *)
(* the page asks too, is LevelOneMeasurementIsNonZero below.               *)
LevelOneEvidence ==
    /\ SignatureChecked
    /\ record.status = "affirming"
    /\ record.runtime = "object" /\ record.platform = "tee"
    /\ record.measurement # "malformed" /\ record.rim_uri \in {"absent", "https"}
    /\ record.nonce # "absent" /\ record.nonce = options.nonce
    /\ record.build_provenance = "object"
    /\ record.slsa_level = "valid" /\ record.digest = "digest"

(* Level 2: a transcript and a proof of inclusion. *)
LevelTwoEvidence ==
    /\ record.tool_transcript = "object" /\ record.hash = "digest"
    /\ record.call_count \in {"absent", "natural"}
    /\ record.transparency = "https" /\ options.receipt = "proves"

LevelEvidence(level) ==
    CASE level = 0 -> LevelZeroEvidence
      [] level = 1 -> LevelOneEvidence
      [] level = 2 -> LevelTwoEvidence

(* A passed level means all of the evidence for it and for the levels      *)
(* below, through every branch, format and order of the checkers; that a   *)
(* bundle that was fetched was not another than the declared one; and at   *)
(* Level 2 that one that could be asked for was fetched.                   *)
PassingMeansEvidence ==
    \A d \in document : \A level \in Levels :
      Passed(d, level) =>
        LET branch == d.rows[<<level, "TR-POL-003">>].branch IN
        /\ \A l \in 0..level : LevelEvidence(l)
        /\ branch # "resolved_mismatch"
        /\ level = 2 /\ AsksResolver(record, options) => branch = "resolved_match"

(* A record that fails a level and passes a higher one does so only by     *)
(* what the two levels read from outside the record: the clock and the     *)
(* resolver.                                                               *)
OnlyTheWorldReordersLevels ==
    \A d \in document : \A l, m \in Levels :
      l < m /\ Passed(d, m) /\ ~Passed(d, l) =>
        \A f \in FindingsAt(d.results, l) :
          LET finding == d.results[<<l, f[1]>>][f[2]] IN
          CountsAsLevelFailure(StartPolicy, finding, l) =>
            finding.code \in {"TR-ENV-002", "TR-APR-004", "TR-POL-003"}

Highest(d) == HighestLevel(LevelOutcomes(d.tallies))

(* report.py: highest_level is None when the record fails Level 0.         *)
NoneWhenLevelZeroFails ==
    \A d \in document : ~Passed(d, 0) => Highest(d) = NoLevelPassed

(* docs/levels.md: an all-zero measurement is invalid at Level 1.          *)
LevelOneMeasurementIsNonZero ==
    \A d \in document : 1 \in Levels /\ Passed(d, 1) => record.measurement # "zero"

(* Each run is a run of the abstract one, with the shipped tables.         *)
Atomic == INSTANCE AtomicRun

RefinesAtomicRun == Atomic!Spec

(* Every run of the shipped checkers ends with a document.                 *)
Publishes == <>(outcome = "completed")
=============================================================================
