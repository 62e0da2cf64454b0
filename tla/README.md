# A TLA+ model of trace-tests

trace-tests checks a TRACE record (a signed JSON claim about one agent run) against three
conformance levels and says which of them it reaches. The suite is small, but a good part of it is
about being sure that what it says is what it found: an *obligation accounting* that follows three
pilot checks from the branch a checker took to a row of the report, distrusts every mutable object
on the way, and publishes one sealed document or nothing; and a measurement script that asks which
of the checks the test suite would miss.

This directory holds TLA+ modules translated from the source, configurations for the TLC model
checker, and proofs for TLAPS. Paths below are relative to the repository (its package is
`src/trace_tests`); `PROJECT.json` maps every definition to the lines it stands for.

    tlc -workers 2 -config ExecutionLevel0.cfg MCExecution.tla
    tlapm ExecutionProofs.tla

1. [The system](#the-system)
2. [What makes each part correct](#what-makes-each-part-correct)
3. [The modules](#the-modules)
4. [The runs](#the-runs)
5. [The proofs](#the-proofs)
6. [Where the code and its documentation differ](#where-the-code-and-its-documentation-differ)
7. [What is not modelled](#what-is-not-modelled)
8. [What is left](#what-is-left)

## The system

| part | code | state it keeps | operations |
|---|---|---|---|
| findings, contribution policy | `result.py`, `modules/unverified.py` | findings (mutable dataclasses); the module-level table `UNVERIFIED_FAILS_FROM_LEVEL` | does this finding fail this level? |
| checkers | `modules/tr_*.py` | none, but they read the clock and call the caller's policy resolver | `check`, which returns a list of findings and, in three of the eight, observes a branch |
| runner | `runner.py` | none beyond one call | `run` (one level), `_run_levels` (levels 0..n under accounting) |
| obligation accounting | `accounting.py` | one `_Capture` per run: current level and module, facts, witnesses, schedule; the context variable `_CAPTURE` | `_execution`, `_begin_level`, `_invoke`, `_observe`, `_end_level`, `_complete_execution`; `_validate_document_relations` at emission |
| inclusion proofs | `inclusion.py`, `tr_anc.py` | none | parse a receipt, climb the audit path, compare the root |
| report | `report.py` | `ReportData`: the sealed document and mutable legacy projections | verdict, highest level, JSON, HTML, badge |
| command line | `cli.py` | the files in the user's workspace | `verify`, which changes nothing; `report`, which writes up to three files and then applies `--fail-under` |
| loader | `loader.py` | none | a file to a record and a format, or a refusal |
| mutation harness | `measurement/scripts/mutate_modules.py` | the checkout it rewrites, which outlives it | list sites, baseline, rewrite, measure, restore, report |
| enum drift | `measurement/scripts/enum_drift.py` | none, which is its difficulty | match each set literal of the checkout with an enum of the schema, report those that differ |
| schemas, fuzz targets, site hooks | `schemas/`, `.clusterfuzzlite/`, `hooks/` | none | |

How they interact. `cli.report` loads a record and calls `_run_levels`. That opens a capture, makes
it the context variable's value, and goes through the levels in order; in each, `_run_core` calls
the checkers of the level through `accounting._invoke`. A checker may call the resolver (the
caller's code) and reports the branch it took by `_observe`, which finds the capture through the
context variable. When a checker returns, its findings are compared with what it observed and copied
as witnesses. At the end `_complete_execution` compares lists, findings and policy with the copies,
projects one row per attempted level and obligation, and seals rows, results and tallies into one
byte string. `report.py` revalidates that document independently before it is emitted.

What is hard in it:

* **Foreign code in the middle of a run.** A resolver runs inside a checker, inside a level, inside
  a capture. It may raise, start another run of either kind, call a checker, hand its context to a
  thread that outlives it, or change findings, lists and the policy table.
* **Three descriptions of one decision.** What a checker observes, what it returns, and the rule
  table the accounting compares both with are written in different files.
* **Reading the world several times.** Every level reads the clock and asks the resolver again; a
  report is one document about several moments.
* **Arithmetic at the edge of a tree.** The inclusion loop halves two positions in step and skips
  levels where the last node has no sibling, on numbers that come from a foreign file.
* **Files that outlive the command.** Up to three renderings of one run are written one after
  another over those of an earlier run; writes fail, processes die, and the exit code is all that a
  build pipeline looks at.
* **A script that rewrites the code it measures** and may die in between.

## What makes each part correct

* *Findings and policy*: a recorded contribution is the verdict of the policy frozen when the run
  began, whatever the live table says now.
* *Accounting*: a document is published only if what was observed, what was returned and what is
  there at the end are the same findings; every attempted level and obligation has one row; a row
  agrees with the results beside it; the published document passes the emission check. A run that
  does not qualify leaves nothing.
* *Runner*: the level table and the order of calls agree; runs may nest and overlap without touching
  each other's captures; every run ends.
* *Checkers*: a passed level means the evidence the documentation lists for it, on every branch; no
  combination of defects makes the accounting refuse an honest run; an obligation that is blocked or
  counts as a failure is not in a level that passed.
* *Report*: levels are in order, and "highest" means what it says; every rendering is of the record
  that was checked and of what was sealed, whatever happened to the mutable lists beside it.
* *Command line*: exit 0 means that every requested file is there, whole and of this run, and that
  the record has the evidence for the level asked for; a refusal, a failure or a death damages at
  most the file in hand; `verify` and `report` say the same of the same record.
* *Loader*: nothing that carries a mark of an envelope is checked by the weaker rules for plain
  records.
* *Inclusion*: a proven claim is in the log, at the stated index; every leaf of every log can be
  proven; only with its own path; the loops end.
* *Mutation harness*: it never credits the tests with more than they notice, puts back what it
  changed, and its verdict follows from what it measured.
* *Enum drift*: agreement and drift are what it says they are, and when the specification moves, the
  next run notices at every copy that can still be recognised.

## The modules

```
Findings ── Obligations ─┬─ Execution ── MCExecution, ExecutionProofs
                         │     └ implements AtomicRun
                         ├─ AtomicRun
                         └─ PilotRegistry, Checkers, Verdicts
                              ├─ PilotRun ── MCPilotRun, PilotRunProofs
                              │     └ implements AtomicRun
                              └─ ReportCommand ── MCReportCommand, ReportCommandProofs
                                    └ runs PilotRun (INSTANCE), and its proofs use PilotRunProofs
SampleRecords: the records MCPilotRun and MCReportCommand start from
Inclusion ── MCInclusion, InclusionProofs
CaptureContext ── MCCaptureContext, CaptureContextProofs
MutationHarness ── MCMutationHarness, MutationHarnessProofs
EnumDrift ── MCEnumDrift, EnumDriftProofs
LeastNumbers: a lemma of InclusionProofs, MutationHarnessProofs and EnumDriftProofs
```

**Findings** (`result.py`, `unverified.py`). A finding is `[code, status, text]`. Of the message,
`text` keeps the prefix some rule compares, and `"other"` for the rest. `ShippedPolicy` and
`CountsAsLevelFailure` are the threshold table and the rule that reads it. `None` or a value is
written as a set of at most one member throughout.

**Obligations** (`accounting.py`, the pure part). A branch rule says what role a branch has and
which findings explain it. `Projectable` is when `_project` does not raise, `Rows` what it returns,
`Tally` and `Document` the rest of the sealed payload, and `EmissionAccepts` the independent check
`_validate_document_relations` makes on a finished document. The latter is written from its own
code, not from the projection, so that the two can be compared.

**Execution** (`_run_levels` and the capture). Findings are objects: a *heap* of values, and ids
that lists, witnesses and facts refer to. Each function is an action: `BeginLevel`, `Invoke`,
`Observe`, `CheckerReturns` (with `_validate_returned` and the witness copy), `CheckerRaises`,
`EndLevel`, and in two steps `_complete_execution`: `CheckPolicy` compares the live policy, which is
never looked at again, and `Complete` is the rest (`_validate_final_results`, the projection, the
seal). Between `Invoke` and the return, arbitrary checker code acts: it builds findings, observes
any branch with any finding, rewrites any finding, shortens or extends any list returned earlier,
and returns any list. The live policy changes at any moment, as another thread could do it, also
between `CheckPolicy` and `Complete`. Findings and lists are changed by the code of checkers and
their callbacks alone: the model has no thread that rewrites a finding while the runner validates
it. A failed check ends the run with the name of the check as `outcome` and drops the capture. The
registry, the schedule, the policy and the values are constants.

**AtomicRun** is what an execution promises: every cell of the plan is one step that yields values
in which facts and findings match; publishing is one step that seals a function of all of them;
giving up leaves nothing. There are no objects, callbacks or policies that change.

**PilotRegistry**, **Checkers**, **PilotRun**. The shipped modules, branches and thresholds; the
case analysis of the eight checkers; a run of them over one record and one set of options. A record
says, per field, which of the cases that the code tells apart it is in; JCS, Ed25519 and regular
expressions are the cases they decide. The clock may tick between any two checkers and the resolver
answers anew on every call (raises, something that is not bytes, the declared bundle, another one).
Shipped checkers never change a finding after returning it, so values suffice here. What a checker
tells the accounting (`Observed`, from its calls of `_observe`) and what it returns (`FindingsOf`)
are written separately. `FactsOf` weighs what was handed over; `ReturnsWhatItObserved` is the guard
of `_observe` with `_validate_returned`, and a call that does not satisfy it ends the run.
`LevelEvidence` says what a level asks: what `docs/levels.md` lists for it and whatever else the
checkers there test (types of fields, presence of objects), but not the non-zero measurement, which
is a counterexample of its own. A nonce has to be given and met; an `iat` has to have been fresh at
some moment of the run. The level tables and the if-chain of `_run_core` (`CoreChain`) are in
**PilotRegistry**; that they agree is evaluated in **MCPilotRun** (`ShippedTablesAgree`).

**Verdicts** (`report.py`): level outcomes and highest level.

**ReportCommand** (`cli.py`, `loader.py`, `report.py`). One workspace of files (`disk`) that
outlives the commands. `Start` is `report` up to `_run_levels`: record, receipt and policy manifest
are loaded in this order, and the first that does not load ends the command. `RunLevels` is a step
of `PilotRun`, whose variables and actions are used by `INSTANCE`. `Build` compares the record that
ran with the one that is reported, validates the sealed document and makes a `ReportData`, with its
levels once as lists and once sealed. `Open` and `Write` are the two halves of one `write_text`, for
each requested rendering (`pending`) in the code's order (`Place`); `Gate` is `--fail-under`; `Die`
may come at any moment before the end. Around it, the clock ticks (`Tick`), the record file is
replaced (`ReplaceRecord`), the policy directory changes (`ChangeBundles`), and, if the caller is a
program and not the command line, it changes the record or the lists it holds (`Meddle`). The loader
is a case analysis of what a file may be to it (`LoadRecord`, `FormatsOf`); what is written on the
disk may be loaded again. `verify` changes nothing, so it is an operator, `VerifyExit`. It is
written from its own code: the public runner's findings by the live policy, not the report's rows by
the frozen one. Two variables are not in the code: `before` is each path as it would be without the
command, `still` says that nothing moved since the command began.

**Inclusion** (`inclusion.py`, `_check_inclusion`). `Start` parses and compares, `Climb` is one
element of the audit path, `Skip` one turn of the inner loop, `Conclude` the test at the end.
SHA-256 is taken to have no collisions: a hash is the tagged tuple of what was hashed. `height` is
not in the code; it counts halvings, for the proofs. A log is given by its levels (`IsLog`), not by
recursion: the hashes of each row, and the number (`place`) of the node of that row which a leaf is
under. The honest receipt of a leaf lists the siblings of these nodes, for the rows in which there
is one (`Joined`); **MCInclusion** compares its roots and audit paths with the recursive definitions
of RFC 9162 (the assumption `LogsAreMerkleTrees`).

**CaptureContext** (`_CAPTURE`, both runners, nesting, threads). Each thread has a stack of calls
and its own context variable; captures are shared. A resolver may start accounted or public runs,
call a checker directly, or start a thread with a copy of its context. `Admit` (the guard of
`_observe`) and `RecordFact` (the append) are two steps, because another thread can act between
them. An exception travels through the stack one frame at a time (`Unwind`), with the `finally` of
every frame. Abstractions: a fact carries at most one finding; an obligation is named by its owner;
threads other than the main one start only with a copied context (a thread with an empty context
reaches no capture but its own runs').

**MutationHarness** (`mutate_modules.py`). What is on disk (`inert`: the sites rewritten; `file`:
whole, cut off or empty) outlives the process. `guards` says which sites each test notices. One step
each: `Start` (site list and import probe), `Baseline`, `Rewrite`, `Measure`, `Restore`, `Interrupt`
(Ctrl-C during the suite, with the `finally`), `Report`, and `Die` (no `finally`, possibly half-way
through a write). `todo` holds the sites still to be measured, and `Site` is the first of them by
`Place`, the order of file and line. After a run has ended in any way the script may be started
again on what is there.

**EnumDrift** (`enum_drift.py`). The two walks as what they yield: `Enums` of the schema, in order,
and `Candidates` among the set literals of the checkout. `Best` is the loop that looks for the enum
a literal shares most with, `Matched` the threshold, `Differs` the comparison, `Measure` one run of
the script. Between runs, `SpecificationMoves` and `LiteralEdited` change one value. `last` is what
the last run said of what; the script itself keeps nothing.

## The runs
`CHECK_DEADLOCK FALSE` everywhere: a run, a function or a script comes to its end, and there is
nothing to do after it. `Settles`, `Publishes` and `Decides` say that the end is reached. State
counts are TLC's.

| run | instance | shows |
|---|---|---|
| `execution_level0` | one level, two obligations of which one has no scheduled owner, 3 finding objects, 2 facts per cell, 2 changes to findings, lists or policy; 216 k states | the capture holds what it should (`TypeOK`, `FactsWeighed`); a published document is emittable and has nothing unearned; every run ends (`Settles`) |
| `execution_level1` | two levels, three cells, 3 objects, 1 change; 1.26 M | the same for what an *earlier* cell returned (`PublishedIsEmittable`); what is sealed fits what the run holds, by the policy it began with, whatever the live one is by then (`PublishedFitsTheRun`); the scheduler never refuses its own run; `Execution` implements `AtomicRun` |
| `pilot_levels` | all shipped checkers, levels 0 to 2, records one field away from conformance, or two that one checker weighs against each other, ticking clock, changing resolver; 278 k | a pass means evidence; accounting and verdict agree; what a checker observes, what it returns and what the branch tables declare agree, also on combinations of defects; only clock and resolver can put levels out of order; honest runs implement `AtomicRun` and publish |
| `inclusion` | logs of 1 to 13 leaves, every leaf, its receipt and that receipt with a wrong index, count or form; for the log of 5 leaves also every index and count around the real ones with every path of up to 3 hashes, of the log or foreign; 597 k | every leaf can be proven; only what is in the log is, at its index, with its own path; both loops end |
| `capture_context` | two threads, six runner or checker calls, one or two levels; 2.0 M | contexts and cells are restored on every way out; runs do not collide; what is published is the run's own; only a direct call in a run's context gets it refused |
| `mutation_harness` | 3 sites in 2 files, 2 checks, 2 tests guarding any sites, 3 starts, 2 deaths; 76 k | margins are never too large; nothing is left behind by a run that did not die; a verdict is right about what the run could see |
| `report` | two `report` commands over a workspace of three paths, five command lines, eight kinds of record file, failing writes, a death at any moment, one change and one tick; 1.03 M | exit 0 delivers; nothing but the file in hand is damaged; the gate means evidence; `verify` agrees with the report |
| `enum_drift` | 41 schemas of two enums (two or three of five values each: equal, nested, overlapping or apart; and one of empty enums), 84 checkouts of two literals, two runs with a change before, between or after; 258 k | agreement is agreement; drift is drift, also with two equal enums; a moved enum is noticed |
| `pilot_highest`, `pilot_measurement`, `mutation_baseline`, `report_reproduce` | | counterexamples, see [below](#where-the-code-and-its-documentation-differ) |

**Why the bounds are enough to be interesting.** In `Execution` the live policy may change between
its comparison and the seal; three objects and two facts are what it takes to observe one finding
and return another, to observe twice, and to return a pilot finding beside an unrelated one; two
changes are needed for one that is undone again; the second level is needed for a change to
something already accepted. The proofs remove these bounds. In `PilotRun`, one deviation per record
with a clock and a resolver that move gives every branch of every checker at every level; a second
one, among the fields of the signature, the policy, the appraisal or the provenance, gives the pairs
in which one cause hides another (no checker reads the fields of two of these groups, but for the
format and the key). Times are scaled: one tick is one second at the edge of the 60 s skew, and
records sit on, before and behind each edge. Logs of up to 13 leaves include 9 (a last node moved up
three levels at once) and 11 (rows of 11, 6, 3, 2 and 1: the last node is moved up, has a sibling,
is moved up again); 5 is the smallest size with a node that is moved up two levels. Leaves are
claims modulo 5, so that the larger logs hold the same claim several times. In `CaptureContext`, six
calls allow a run in a resolver of a run in a resolver with a helper thread in any of them; it was
checked by reachability that late facts, and published runs nested in published runs, do occur. In
`MutationHarness`, a check with two sites beside one with a single site is what tells "measured by
site" from "reported by check"; three starts allow two deaths before a run that finishes. In
`ReportCommand`, the second command finds the files of the first, whole or not; the command lines
give one path to two renderings, or the record's own path to one, so that a second command may load
what the first wrote; the record is as old as `--max-age` allows when the clock ticks, so that one
tick separates the levels, or the report from `verify`. In `EnumDrift`, two enums of two or three of
five values are equal, nested, overlapping or apart (the first is one of each size, since names of
values do not matter); a literal of all five that shares two with an enum is compared because half
is rounded down; two runs and a change are what "noticed by the next run" is about.

**Fairness.** `Execution!FairSpec`: the runner is straight-line code (`RunnerStep`), and checkers
and their callbacks return or raise in the end (`CheckerLeaves`); nothing obliges a checker to do
anything else. `PilotRun!FairSpec`: the same, for checkers that are straight-line code themselves
around a resolver that answers. `Inclusion!FairSpec`: the function goes on. The code gives no
defence against a resolver that never returns, and no property pretends it does.

### What a mutation verdict is worth

When a run dies on a site *nothing guards*, the rewritten site stays in the tree, the suite is
green, and the site no longer appears in the list of FAIL constructions; the script cannot know. The
next run measures the rest. `NeverOverstates` says that what it reports about the sites that remain
is not inflated, and `VerdictIsRight` that a report of "all verified" is right about each check the
run saw a site of: all that an earlier death can do is hide a check from the report, all its sites
together. On an intact checkout nothing is hidden, and a check reported unverified is unguarded. The
bytecode caches the script purges before each suite are not modelled; the model's suite always runs
what is on disk. Nor is the stop of a rewrite that changes nothing (`mutate_modules.py:212-217`): a
listed site is one that the rewrite changes.

## The proofs

Proved by TLAPS for **every** value of the constants: every registry with its rules, schedule,
policy, set of findings and bound in `Execution`; every set of records, options, clock and tolerance
under the shipped tables in `PilotRun`; every set of threads and schedules, every nesting and choice
of checkers that call back in `CaptureContext`; every log, claim and receipt in `Inclusion`; every
set of records, command lines, paths and inputs in `ReportCommand`; every list of sites, suite and
number of deaths in `MutationHarness`; every schema and checkout in `EnumDrift`. Thirty-six
theorems; every invariant, action property and refinement that a passing run checks is stated by
one.

They rest on the named assumptions of the modules, which TLC evaluates on the instances:

* `RegistryAssumption`, `ExecutionAssumption`, `InclusionAssumption`, `ReportCommandAssumption`,
  `MutationHarnessAssumption`, `EnumDriftAssumption`: constants have their types, an obligation has
  an owner and its rules have the fields of a rule, logs are logs, an output option takes at most
  one path, no two sites are at one place.
* `PilotRunTables`, `PilotRunAssumption`, `ReportCommandTables`: the constants of `Obligations` are
  the shipped tables; records have the fields and cases the checkers tell apart; times are integers.
* `ReportCommandInputs`: what can be loaded is one of the records, in the format the loader gives
  it; options and answers have their types.
* `CaptureContextAssumption`: a schedule goes through its levels upwards and lists a cell once, as
  `_run_levels` makes it.

One theorem has a hypothesis instead: `ScheduleHolds` is about plans that agree with the if-chain
(`ScheduleAgrees`). That is a fact about two pieces of code in different files; `MCExecution`
evaluates it for the plan it checks, and `MCPilotRun` for the shipped pair (`ShippedTablesAgree`).

**ExecutionProofs**

1. `TypeCorrect`: `Spec => []TypeOK`. `TypeOK` is inductive as it stands; it includes that lists,
   facts and witnesses only name finding objects that exist, which needs `IdsGrow` (objects are only
   added).
2. `ContributionsAreFrozen`: `Spec => []FactsWeighed`. Only `Record` adds a fact, and it weighs by
   the frozen policy; rewriting an object or the live table does not touch a fact.
3. `PublicationFitsTheRun`: `Spec => PublishedFitsTheRun`, an action property: put what the lists
   and finding objects hold at that moment, and the policy the run began with, in place of what was
   sealed, and the emission check still accepts the rows and tallies. Only `Complete` changes
   `document`, and only past the final comparison, which makes the sealed witnesses equal the heap
   (`SealedIsHeap`). It says nothing of the live policy, which may have changed since `CheckPolicy`.
4. `PublishedEmittable`: `Spec => []PublishedIsEmittable`. The document changes once. At that moment
   rows were made from facts and results from witnesses; the emission check sees only rows and
   results. The bridge is `TypeOK /\ FactsWeighed` and four lemmas: sealing keeps positions and
   tallies (`SealedPositions`, `SealedTally`), a blocker among the witnesses is one among the sealed
   results (`SealedBlocker`), and a fact's earned finding is the single finding under the pilot code
   (`EarnedIsReturned`). `RowEmittable` puts them together for one row, by the role of its branch;
   `PublicationEmittable` for the document. Without `FactsWeighed` the statement is not inductive: a
   contribution weighed by another policy would project to a row that the emission check refuses.
5. `PublishedEarned`: `Spec => []NothingUnearned`, by the same step lemma and, for rows without a
   finding, `NothingEarnedNothingReturned`.
6. `ScheduleHolds`: `ScheduleAgrees => (Spec => []SchedulerNeverDisagrees)`. The invariant has two
   parts. `Progress`: the cells that were started are a prefix of the plan without repetition, and
   exactly these have returned, the last excepted while its checker runs. `LevelsInOrder`: nothing
   is started beyond the current level, and of the levels that ended nothing was left out. The
   prefix alone would not do: `_end_level` compares what was started with what the level *should*
   have started.
7. `Refinement`: `Spec => RefinesAtomicRun`. A cell of `AtomicRun` holds values, so the mapping
   reads ids through the witnesses. Callbacks, observations, rewritten findings and policy changes
   map to stutters; `CheckerReturns` to `RunCell`, which needs `_validate_returned` and `FactsOwned`
   (a finding is observed only by the owner of its code; a cell that is not scheduled holds only
   what `_end_level` wrote); `Complete` to the abstract publication, since projecting and sealing
   see only values; every refusal to `Abandon`.

**PilotRunProofs**

1. `TypeCorrect`. The shipped plan is opened once: `Index` says at which place a cell is, and
   `Places` that each level schedules a prefix of the modules of the highest. From then on no proof
   enumerates cells.
2. `HonestRuns`: `Spec => []HonestRunsPublish`. The invariant is `FromCalls` (each finished cell
   holds what its checker returns for this record, these options, *some* time since the start and
   *some* answer of the resolver) with `Published`. The core is one lemma per pilot checker
   (`AprDeclared`, `PolDeclared`, `ScaDeclared`): on any record, there is a declared branch whose
   rule fits the findings, the blockers included (`Declared`). A second lemma per checker opens its
   calls of `_observe` (`AprObserves`, `PolObserves`, `ScaObserves`): it names one branch, that
   branch has such a rule (`PilotBranchesTaken`), and what it hands over is what the list it returns
   has under its code, so that it is never refused (`AlwaysReturned`). So every fact is recognised
   and projects, whatever defects are combined; completing cannot raise, and the document passes the
   emission check.
3. `AccountingAgrees`: `AccountingNeverContradictsVerdict`, from the same lemmas: a blocked or
   failing row is about a finding that counts in the tally of its level.
4. `PassingIsEvidence`: `PassingMeansEvidence`. A level that passed returned nothing that counts
   (`PassedIffClean`); for each checker, findings that do not count (`Clean`) say what its part of
   `LevelEvidence` asks (`CleanEnv` to `CleanAnc`; the key without a signature is `CleanSigKey`).
   For the levels below, a finding of the higher level is used wherever the checker asks the same of
   the record there.
5. `LevelsReorderOnlyByTheWorld`: if a level passed, then what the same checkers return at a lower
   one counts only under the codes in `World` (`Excused`). This is checked code by code, because the
   unverified thresholds and the extra rules of Level 1 and 2 could each have broken it.
6. `PilotRefinement`: `Spec => RefinesAtomicRun`. A call of a checker is a `RunCell`: what it handed
   over, weighed at its level, conforms to the list it returned. This is shown from the two
   descriptions of each checker (`OwnersReturn`, `NoCalls`), by `AlwaysReturned` and
   `ResultConforms`.

**CaptureContextProofs**

All six theorems follow from one invariant, `Sound /\ Ordered`, shown for each of the sixteen
actions.

* `Sound` is about the stacks: a checker is called by a runner, a runner by the caller's code; the
  context is that of the innermost runner, and what each runner saved is that of the next one
  outwards (`Restores`). `ContextRestored` is this alone. It is inductive because a frame may only
  be put where it `Fits`, and because `Unwind` restores what the frame saved.
* `Ordered` is about what a runner and its capture owe each other. A run that is not on top of its
  stack is `Busy` in the checker above it; on top it is `Idle`. What it has started is a prefix of
  its plan; every cell done has a fact recorded by its own checker. While nobody disturbed it
  (`Quiet`), it has *exactly* the facts that its publication needs (`Exact`), so it cannot be
  refused; whoever disturbed it, nobody ever enters its schedule. No two runs share a capture
  (`Apart`), and `Kept` says what is left of a capture when its run is over.

`Exact` is what the properties alone do not say and the induction needs: "never refused" is about
the end of a run and holds only if every step before it added one fact and no other. `PublishedOwn`
does not need `Quiet`: a helper thread may be let through by `Admit` and append later, but then
there is a second fact, and that run is not published. `CellsHeld` counts: under each checker with a
capture is the one run that has it (`UnderChecker`).

**InclusionProofs**

1. `InclusionTypeCorrect`: `fn <= sn` throughout and the inner loop only at `fn = sn # 0`: from the
   guard of `Start` (`index < count`) and from halving being monotone.
2. `AcceptedIsAnchored`: if the claim is not a leaf of the log then its hash is not a node of the
   tree, and what is hashed from something outside the tree is outside the tree
   (`OutsideStaysOutside`, from collision freedom: a node of the tree determines its children). The
   root is in the tree, so the hash carried up never equals it. `NodesAreClosed` is an induction on
   the height of a node, done with a least counterexample (`LeastElement`, from `WFMin`).
3. `AcceptedIsAtItsIndex`: with the real size, `fn` and `sn` are the position of the current hash
   and of the last node in row `height` (`RowInv`). A hash that is in its row at another place than
   `fn`, or outside the tree, stays so one row up (`OneRowUp`); at the root there is only one place.
4. `AcceptedPathIsHonest`: `Spec => []OnlyTheHonestPath`. `place` is halved from row to row, like
   `fn`; so the climb is above the leaf it started from, and it has used as many elements as there
   are joined rows below it (`OnTheWay`). If the current hash is the node of the log, every element
   so far was the log's (`Consumed`): another element gives another hash, which by 3 never becomes
   right again.
5. `HonestIsAccepted`: `Spec => []HonestIsProven`, by the same invariant: with the log's own receipt
   the current hash *is* the node of the log, an element is there whenever one is needed, and none
   is left over at the root. That a path has as many elements as `JoinedBelow` counts is shown by
   cardinalities, not by induction on the log.

**ReportCommandProofs**

`NothingElseTouched`: `Spec => []OnlyTheFileInHand`, and `ExitZeroDelivers`: `Spec =>
[]DeliveredWhole`. Both follow from one inductive invariant of three parts, which was model-checked
before it was proved:

* `Orders`: what is pending was requested, and everything requested and no longer pending comes
  earlier in the order of writing than everything pending;
* `Sources`: there is at most one document, and the sealed view of a built report tells the story of
  that document (this is what `Meddle` cannot break);
* `Workspace`: before the first file is opened the disk is as it would be without the command; from
  then on every rendering written is still there, unless a later one has the same path or the record
  file was replaced by somebody else (`Delivered`).

`Delivered` is what makes it inductive: that a write leaves earlier files alone depends on paths two
outputs may share, so "still there" has to say by whom a path may be overwritten. For these two the
checkers are not opened: whatever they return, one completed run has one document.

For the other three they are. `PilotRunProofs` is instantiated for the run the command makes (`P`;
its assumptions follow from `ReportCommandTables`), and its invariant holds while the command runs:
`RunLevels` is one of its steps, every other step leaves the run alone but for the clock (`Running`,
`RunningAges`).

* `TypeCorrect`: `Spec => []TypeOK`, which says too that only the file in hand is ever cut off.
* `GateIsEvidence`: `Spec => []GateMeansEvidence`. Along the command: a record with any mark of an
  envelope runs as an envelope (`Marked`, from the loader's case analysis); when the run is over,
  for each passed level of the document the record and the options have `LevelEvidence` (`Judged`,
  from `PassingIsEvidence`), and stay so while clock, files and lists move (`EvidenceStays`); exit 0
  was decided on the sealed levels (`Gated`), whose highest is one that passed (`HighestPassed`),
  not on the lists `Meddle` can change.
* `VerifyAgrees`: `Spec => []SameOptionsReproduce`. While nothing moved, every finished cell holds
  what its checker would find now (`Steady`); so a level of the document passed exactly if nothing
  found now counts (`Repeatable`), which is how `verify` decides.

**MutationHarnessProofs**

1. `HarnessTypeCorrect` and `RestoresTheTree` (`LeavesNoTrace`) from `Tree`: while a run goes on,
   the rewritten sites are those it found and, between `Rewrite` and `Restore`, the current one; the
   sites measured and those to do are the ones it can see.
2. `MarginsAreEarned` (`NeverOverstates`) and `VerdictsAreRight` (`VerdictIsRight`), for suites that
   run (`~ MayDie`), from `Exact`: once the baseline has passed, no test fails because of anything
   but the current site, or the suite does not import at all, and then it did not for the baseline
   either and every margin is 0. Without the clause on the baseline a margin could count tests that
   were red before. With `MayDie` the two statements are false: that is what `mutation_baseline`
   shows.

**EnumDriftProofs**

`ExitZeroIsAgreement` (`AgreementIsReal`) and `MovesAreSeen` (`MovedSpecificationIsSeen`: the copy
has three values or more, or the enum gained one, and no other enum was the same). The core is
`EnoughIsCompared`: a plain literal that shares two values, and half of its own (rounded down), with
*some* enum is compared with *an* enum. `BestExists` finds that enum as the least of those that
share most, by `LeastElement`, the lemma of **LeastNumbers**. What is compared and not reported
equals its match (`ComparedHasMatch`). A copy that agreed has lost at most one value to a moved
enum, so it still shares enough, and equals no enum any more. The invariant adds to
`AgreementIsReal` what the last run recorded (`Recorded`). `ReportedDriftIsReal` (`DriftIsReal`) is
the other direction, for every schema, those with equal enums included: something is reported, and a
literal that is exactly an enum is reported only if it was compared with an earlier enum that
contains its own (`CopyMeetsItsEnum`). It is about the report of drift; the script also ends with 1
when it refuses to compare, which is another `exit` here.

**Only model-checked**: liveness (`Settles`, `Publishes`, `Decides`), because liveness under
fairness and `ENABLED` are beyond the prover used; that the rows of a log and their audit paths are
the Merkle trees of RFC 9162 (`LogsAreMerkleTrees`), which compares with a recursive definition; and
the four counterexamples, which are facts about an instance.

## Where the code and its documentation differ

Four runs end in a counterexample on purpose.

* **`pilot_highest`**. `report.py:103` documents `highest_level` as "``None`` when the record fails
  Level 0". It is the maximum of the passed levels. Levels read the clock and the resolver anew: a
  record 61 s in the future when Level 0 is checked is 60 s in the future at Level 1; the report
  then says Level 1 and Level 0 FAIL. `OnlyTheWorldReordersLevels` (checked) says this is the only
  way: a failed level below a passed one failed by TR-ENV-002, TR-APR-004 or TR-POL-003 alone.
* **`pilot_measurement`**. `docs/levels.md:75` and `:123` say an all-zero measurement is invalid at
  Level 1. TR-RTE-002 tests the shape of the digest, at every level.
* **`mutation_baseline`**. The script says a baseline that is not green aborts. `run_suite` reads
  the number in "N failed" and takes a suite that ended without running tests for one without
  failures; the return code is not consulted.
* **`report_reproduce`**. `README.md:68-69` and `report.py:11-12` say that the HTML report carries
  "the exact command to reproduce the result". `to_html` prints `trace-tests verify` with record,
  level and nonce, and without `--receipt`, `--policy-dir` and `--max-age` (`report.py:506`): a
  record that reached Level 2 with its receipt fails the printed command. With the *same* options
  `verify` does agree with the report (`SameOptionsReproduce`, checked).

Four smaller ones are in the model without a run of their own. `cli.py:278` and `README.md:63` say
that `report` always exits 0; a file that does not load ends it with exit 2, a failed write or a
refused build with exit 1 (`Start`, `Build`, `Open`, `Write`). `loads_strict` (`loader.py:24`)
promises `LoadError` for anything that is not valid; an integer of more than 4300 digits is a plain
`ValueError`, and a traceback (`"crashes"`). `measurement/REPORT.md:177` says that `enum_drift.py`
"exits 1 on any drifted enum": without the conditions of `MovedSpecificationIsSeen` it does not. The
shipped schema has one enum twice (`provenance_depth`, `provenance_depth_verified`); when one of
them moves, its copy still equals the other and is reported ok. A copy of two values that lost one
is not compared at all. The comment at `enum_drift.py:117` speaks of a majority, and `max(2, len //
2)` accepts two of five (`Matched`).

## What is not modelled

* **The registry's locators and hashes** (`accounting.py`): bytes of files against constants, once
  per run, no state.
* **Freezing against private mutation of the accounting itself** (replaced functions, forged capture
  objects, `__class__` tricks): the model has Python's objects as the documented interfaces use
  them.
* **Cryptography and canonicalisation** beyond their verdicts; hashes are symbolic.
* **The layout of the renderings and of the console output, and click's parsing of options**. Of a
  rendering, `ReportCommand` keeps what it says: record, levels, highest level, the printed command.
* **Two `report` commands at once** on the same paths: nothing in the code locks or renames files,
  and no document promises anything about it.
* **Bytes of input files**: a file is one of the cases the loader tells apart.
* **How enum_drift.py reads**: the schema from a file or a URL, literals by Python's `ast`.
* **Schemas**: data that no checker evaluates. **Fuzz targets**: drivers of code modelled here.
  **Site hooks**: page rewriting.

## What is left

Nothing that a run checks waits for a proof that the prover could find. Worth adding:

1. *Termination without fairness*: that `Execution` and `CaptureContext` take boundedly many steps
   between two acts of the caller's code could be stated as a measure that every step of the runner
   decreases, and proved where `Settles` cannot be.
2. *`ScheduleAgrees` for the shipped tables* as a theorem of its own; TLC evaluates it
   (`ShippedTablesAgree`), no proof uses it yet.
3. *A capture as an execution*: that each run of `CaptureContext` in which nobody calls a checker
   directly is a run of `Execution`.

And one disagreement to settle by its authors: `docs/levels.md:13` and `:124` on what Level 0 and
`build_provenance` require.
