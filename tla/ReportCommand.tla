---------------------------- MODULE ReportCommand ---------------------------
(***************************************************************************)
(* The command line (src/trace_tests/cli.py) around one workspace of files *)
(* that outlives it: loader.py, which decides what a record file is; the   *)
(* `report' command, which runs every level (PilotRun), builds and seals a *)
(* ReportData (report.py) and writes up to three files one after another;  *)
(* and `verify', which changes nothing and is therefore an operator, the   *)
(* exit code it would end with.                                            *)
(*                                                                         *)
(* A program may do what the report command does by the same functions     *)
(* (_run_levels, _build_from_execution, the renderers, as the tests do);   *)
(* it still holds the objects it passed and may change them in between.    *)
(* Meanwhile the clock ticks, the record file is replaced, the bundles are *)
(* changed, writes fail and processes die.                                 *)
(***************************************************************************)
EXTENDS Obligations, PilotRegistry, Checkers, Verdicts

CONSTANTS Records, OptionSets, MaxLevel, StartTime, MaxTime,  \* as in PilotRun
          Paths,        \* the paths of the workspace
          RecordPath,   \* the one --record names
          Inputs,       \* what other programs may put there
          ForeignObject, \* the record that has no TRACE field
          Bundles,      \* what the policy directory may answer
          Commands,     \* the command lines
          MaxCommands,  \* bound: commands in a behaviour
          MaxChanges    \* bound: changes to record file, bundles and objects

Kinds == {"html", "json", "badge"}

(* Each output option takes one path, or is not given. *)
ASSUME ReportCommandAssumption ==
    /\ RecordPath \in Paths
    /\ Commands # {}
    /\ \A c \in Commands : \A k \in Kinds :
         c.out[k] \subseteq Paths /\ \A p, q \in c.out[k] : p = q

(* The tables and the bounds are those of the run. *)
ASSUME ReportCommandTables ==
    /\ Codes = PilotCodes /\ Texts = PilotTexts
    /\ Modules = PilotModules
    /\ Keys = PilotKeys /\ Owner = PilotOwner
    /\ Rule = PilotRule /\ Branches = PilotBranches
    /\ Records \subseteq Record
    /\ MaxLevel \in 0..2
    /\ {IatMin, MaxAge, Skew, StartTime, MaxTime} \subseteq Int
    /\ StartTime <= MaxTime

VARIABLES record, options, now, done, outcome, document,  \* of PilotRun
          disk,      \* the contents of every path
          bundle,    \* what the policy directory answers
          command,   \* the command line in progress, or the last one
          phase,     \* "ended", "run", "open" or "write"
          held,      \* the record, as the caller holds it
          built,     \* the ReportData, once there is one
          pending,   \* the renderings still to be written
          exit,      \* the exit code; "killed" for a process that died
          commands,  \* how many commands were started
          changes,   \* how many changes were made
          before,    \* (ghost) each path as it was without the command
          still      \* (ghost) the world is as it was when the command began

runVars   == <<record, options, done, outcome, document>>
worldVars == <<now, disk, bundle, before, still, changes>>
callVars  == <<command, phase, held, built, pending, exit, commands>>
vars      == <<runVars, worldVars, callVars>>

Run == INSTANCE PilotRun

Levels == Run!Levels

-----------------------------------------------------------------------------
(***************************************************************************)
(* loader.py.  An input file is described by what parsing makes of it:     *)
(* `json' is "object", "refused" (not UTF-8, not JSON, duplicate members,  *)
(* nested too deeply, no object), or "too wide" (an integer of more than   *)
(* 4300 digits, for which Python raises a plain ValueError).  `encodable'  *)
(* says whether what an HTML report shows of it has a UTF-8 form.          *)
(***************************************************************************)
Nothing == [holds |-> "nothing"]  \* no file

Part == [holds |-> "part"]  \* a file opened for writing and not written whole

Input(json, cmcp, trace, gateway, claims, encodable) ==
    [holds |-> "input", json |-> json, cmcp |-> cmcp, trace |-> trace,
     gateway |-> gateway, claims |-> claims, encodable |-> encodable]

(* A JSON report is a JSON object without any member parse_record asks     *)
(* for; the other renderings are no JSON.                                  *)
AsInput(file) ==
    CASE file.holds = "input" -> file
      [] file.holds = "json"  -> Input("object", FALSE, "absent", FALSE, ForeignObject, TRUE)
      [] OTHER                -> Input("refused", FALSE, "absent", FALSE, ForeignObject, TRUE)

(* Mutant: an envelope without its version is read as a plain record.      *)
FormatsByVersion(file) ==
    {IF file.cmcp THEN "cmcp-runtime" ELSE "trace"}

(* parse_record: the format of an object, if it is one of the two.         *)
FormatsOf(file) ==
    {f \in {"cmcp-runtime", "trace"} :
       IF f = "cmcp-runtime" THEN file.cmcp /\ file.trace = "object"
       ELSE ~file.cmcp /\ file.trace = "absent" /\ ~file.gateway}

(* The record that is loaded, with its format and the input it came from.  *)
Loaded(file) ==
    {[claims |-> [AsInput(file).claims EXCEPT !.format = f], from |-> AsInput(file)] :
        f \in IF AsInput(file).json = "object" THEN FormatsOf(AsInput(file)) ELSE {}}

LoadRecord(file) ==
    IF AsInput(file).json = "too wide" THEN "crashes"
    ELSE IF Loaded(file) = {} THEN "refused" ELSE "loads"

(* Record, receipt and policy manifest are loaded in this order; the first *)
(* that does not load ends the command.                                    *)
FirstBad(file, c) ==
    LET bad == SelectSeq(<<LoadRecord(file), c.receipt, c.policies>>,
                         LAMBDA form : form \in {"refused", "crashes"})
    IN  IF bad = <<>> THEN "none" ELSE Head(bad)

OptionsOf(c) ==
    [nonce |-> c.nonce, receipt |-> c.receipt, resolver |-> c.policies = "loads"]

(* What can be loaded is a record, whatever other programs write; an       *)
(* object without any TRACE field is one in the plain format.              *)
ASSUME ReportCommandInputs ==
    /\ \A file \in Inputs : /\ file.holds = "input"
                            /\ \A l \in Loaded(file) : l.claims \in Records
    /\ {ForeignObject, [ForeignObject EXCEPT !.format = "trace"]} \subseteq Records
    /\ Bundles \subseteq Answers
    /\ \A c \in Commands : OptionsOf(c) \in OptionSets /\ c.failUnder \subseteq Nat
    /\ {MaxCommands, MaxChanges} \subseteq Nat

-----------------------------------------------------------------------------
(* Mutant: only failed findings make verify fail. *)
ExitOfFailed(level, findings) ==
    IF \E f \in findings : f.status = "fail" THEN 1 ELSE 0

(* What a finding of the public runner means to verify: _print_report.     *)
ExitOfFindings(level, findings) ==
    IF \E f \in findings : CountsAsLevelFailure(Run!StartPolicy, f, level) THEN 1 ELSE 0

(* The exit code of `verify', run now on the record file.                  *)
VerifyExit(level, given) ==
    LET file == disk[RecordPath]
        modules == LevelModules[level + 1]
        Findings(r) ==
          UNION {{found[p] : p \in DOMAIN found} :
                   found \in {FindingsOf(modules[i], r, given, level, now, bundle) :
                                i \in DOMAIN modules}}
    IN  CASE LoadRecord(file) = "refused" -> 2
          [] LoadRecord(file) = "crashes" -> 1
          [] LoadRecord(file) = "loads" ->
               LET r == CHOOSE l \in Loaded(file) : TRUE IN
               ExitOfFindings(level, Findings(r.claims))

-----------------------------------------------------------------------------
(***************************************************************************)
(* report.py.  A ReportData has the levels as plain lists, and the same    *)
(* once more in a sealed snapshot.                                         *)
(***************************************************************************)
Place == [html |-> 1, json |-> 2, badge |-> 3]  \* the order they are written in

SealedReport(r, outcomes) ==
    [record |-> r, levels |-> outcomes, sealed |-> [record |-> r, levels |-> outcomes]]

(* Mutant: the plain lists are rendered. *)
ViewOfLists(report) == [record |-> report.record, levels |-> report.levels]

(* _snapshot_view *)
ViewOf(report) == report.sealed

(* to_json.  The record stands for its digest.                             *)
JsonReport(view) ==
    [holds |-> "json", record |-> view.record, levels |-> view.levels,
     top |-> HighestLevel(view.levels)]

(* badge_svg *)
Badge(view) == [holds |-> "badge", top |-> HighestLevel(view.levels)]

(* The verify command the HTML report prints. *)
PrintedCommand(top) ==
    [level |-> IF top = NoLevelPassed THEN 0 ELSE top, nonce |-> top >= 1]

(* to_html *)
HtmlReport(view) ==
    [holds |-> "html", record |-> view.record, levels |-> view.levels,
     top |-> HighestLevel(view.levels), reproduce |-> PrintedCommand(HighestLevel(view.levels))]

Rendering(kind, view) ==
    CASE kind = "html"  -> HtmlReport(view)
      [] kind = "json"  -> JsonReport(view)
      [] kind = "badge" -> Badge(view)

-----------------------------------------------------------------------------
NotEnded == -1
Killed   == 137

Init ==
    /\ disk \in [Paths -> Inputs \cup {Nothing}]
    /\ \A p \in Paths \ {RecordPath} : disk[p] = Nothing
    /\ bundle \in Bundles
    /\ now = StartTime
    /\ before = disk
    /\ still = TRUE /\ changes = 0
    /\ command = CHOOSE c \in Commands : TRUE
    /\ phase = "idle" /\ exit = NotEnded /\ commands = 0
    /\ held = [claims |-> ForeignObject, from |-> Nothing]
    /\ record = ForeignObject /\ options = OptionsOf(command)
    /\ done = [cell \in {} |-> <<>>]
    /\ outcome = "rejected" /\ document = {}  \* nothing was run yet
    /\ built = {} /\ pending = {}

EndWith(code) == phase' = "ended" /\ exit' = code

(* report, up to the call of _run_levels. *)
Start(c) ==
    LET bad == FirstBad(disk[RecordPath], c) IN
    /\ phase \in {"idle", "ended"}
    /\ commands < MaxCommands
    /\ commands' = commands + 1
    /\ command' = c
    /\ built' = {} /\ pending' = {}
    /\ before' = disk /\ still' = TRUE
    /\ \/ bad = "refused" /\ EndWith(2) /\ UNCHANGED <<held, runVars>>
       \/ bad = "crashes" /\ EndWith(1) /\ UNCHANGED <<held, runVars>>
       \/ /\ bad = "none"
          /\ phase' = "run" /\ exit' = NotEnded
          /\ held' \in Loaded(disk[RecordPath])
          /\ record' = held'.claims
          /\ options' = OptionsOf(c)
          /\ done' = [cell \in {} |-> <<>>]
          /\ outcome' = "running" /\ document' = {}
    /\ UNCHANGED <<now, disk, bundle, changes>>

(* What the resolver does if this checker asks it. *)
AnswerTo(module) ==
    IF module = "TR-POL" /\ AsksResolver(record, options) THEN bundle ELSE "raises"

(* The next checker of _run_levels, or its completion. *)
RunLevels ==
    /\ phase = "run" /\ outcome = "running"
    /\ \/ /\ Cardinality(DOMAIN done) < Len(Run!Plan)
          /\ Run!RunChecker(AnswerTo(Run!Plan[Cardinality(DOMAIN done) + 1][2]))
       \/ Run!Complete
    /\ UNCHANGED <<worldVars, callVars>>

Requested == {kind \in Kinds : command.out[kind] # {}}

(* Mutant: every output is opened before anything is rendered. *)
BuildOpeningAll ==
    /\ phase = "run" /\ outcome = "completed"
    /\ \E d \in document : built' = {SealedReport(held.claims, LevelOutcomes(d.tallies))}
    /\ pending' = Requested
    /\ disk' = [p \in Paths |-> IF \E k \in DOMAIN command.out : p \in command.out[k]
                                THEN Part ELSE disk[p]]
    /\ phase' = "open"
    /\ UNCHANGED <<runVars, now, bundle, before, still, changes,
                   command, held, exit, commands>>

(* _build_from_execution: the record handed in must be the one that ran,   *)
(* and the sealed document must pass its revalidation.                     *)
Build ==
    /\ phase = "run" /\ outcome # "running"
    /\ \/ /\ held.claims = record
          /\ \E d \in document :
               /\ EmissionAccepts(Levels, d)
               /\ built' = {SealedReport(held.claims, LevelOutcomes(d.tallies))}
          /\ pending' = Requested
          /\ phase' = "open"
          /\ UNCHANGED exit
       \/ /\ held.claims # record \/ ~\E d \in document : EmissionAccepts(Levels, d)
          /\ EndWith(1)
          /\ UNCHANGED <<built, pending>>
    /\ UNCHANGED <<runVars, worldVars, command, held, commands>>

Present == CHOOSE k \in pending : \A j \in pending : Place[k] <= Place[j]

Target == CHOOSE p \in Paths : p \in command.out[Present]

(* Mutant: the file is opened without truncating it. *)
OpenInPlace ==
    /\ phase = "open" /\ pending # {}
    /\ \/ phase' = "write" /\ UNCHANGED exit
       \/ EndWith(1)
    /\ UNCHANGED <<runVars, worldVars, command, held, built, pending, commands>>

(* write_text, which truncates the file it opens; what is written has been *)
(* rendered before.                                                        *)
Open ==
    /\ phase = "open" /\ pending # {}
    /\ \/ /\ disk' = [disk EXCEPT ![Target] = Part]
          /\ phase' = "write"
          /\ UNCHANGED exit
       \/ EndWith(1) /\ UNCHANGED disk
    /\ UNCHANGED <<runVars, now, bundle, before, still, changes,
                   command, held, built, pending, commands>>

(* The text is encoded and written, unless it has no encoding or the write *)
(* fails.                                                                  *)
Write ==
    /\ phase = "write"
    /\ \/ /\ Present = "html" => held.from.encodable
          /\ \E report \in built :
               disk' = [disk EXCEPT ![Target] = Rendering(Present, ViewOf(report))]
          /\ pending' = pending \ {Present}
          /\ phase' = "open"
          /\ UNCHANGED exit
       \/ EndWith(1) /\ UNCHANGED <<disk, pending>>
    /\ UNCHANGED <<runVars, now, bundle, before, still, changes,
                   command, held, built, commands>>

(* --fail-under, after everything was written. *)
Gate ==
    /\ phase = "open" /\ pending = {}
    /\ \E report \in built :
         LET top == HighestLevel(ViewOf(report).levels) IN
         EndWith(IF \E n \in command.failUnder : top < n THEN 1 ELSE 0)
    /\ UNCHANGED <<runVars, worldVars, command, held, built, pending, commands>>

(* The process dies: no exception handler runs, the cells that ran are     *)
(* lost, the files stay.                                                   *)
Die ==
    /\ phase \in {"run", "open", "write"}
    /\ EndWith(Killed)
    /\ done' = [cell \in {} |-> <<>>]
    /\ UNCHANGED <<record, options, outcome, document, worldVars,
                   command, held, built, pending, commands>>

-----------------------------------------------------------------------------
(* Nobody looks after the last command has ended. *)
Watched == phase \notin {"idle", "ended"} \/ commands < MaxCommands

Tick ==
    /\ Watched
    /\ now < MaxTime
    /\ now' = now + 1
    /\ still' = FALSE
    /\ UNCHANGED <<runVars, callVars, disk, bundle, before, changes>>

Change ==
    /\ Watched
    /\ changes < MaxChanges
    /\ changes' = changes + 1
    /\ UNCHANGED <<runVars, now>>

(* Another program writes the record file. *)
ReplaceRecord ==
    /\ Change
    /\ ~(phase = "write" /\ Target = RecordPath)
    /\ \E file \in Inputs \ {disk[RecordPath]} :
         /\ disk' = [disk EXCEPT ![RecordPath] = file]
         /\ before' = [before EXCEPT ![RecordPath] = file]
    /\ still' = FALSE
    /\ UNCHANGED <<callVars, bundle>>

ChangeBundles ==
    /\ Change
    /\ bundle' \in Bundles \ {bundle}
    /\ still' = FALSE
    /\ UNCHANGED <<callVars, disk, before>>

(* A program that calls the functions itself changes the record it handed  *)
(* in, or the lists of the ReportData it got: they are cleared, or passed. *)
Meddle ==
    /\ Change
    /\ command.caller = "program"
    /\ \/ /\ phase = "run"
          /\ \E r \in Records \ {held.claims} : held' = [held EXCEPT !.claims = r]
          /\ UNCHANGED built
       \/ /\ phase \in {"open", "write"}
          /\ \E report \in built, left \in {{}, Levels} :
               built' = {[report EXCEPT !.levels =
                            [l \in left |-> [report.sealed.levels[l] EXCEPT !.passed = TRUE]]]}
          /\ UNCHANGED held
    /\ UNCHANGED <<disk, bundle, before, still, command, phase, pending, exit, commands>>

Next ==
    \/ \E c \in Commands : Start(c)
    \/ RunLevels \/ Build \/ Open \/ Write \/ Gate \/ Die
    \/ Tick \/ ReplaceRecord \/ ChangeBundles \/ Meddle

Spec == Init /\ [][Next]_vars

-----------------------------------------------------------------------------
TypeOK ==
    /\ DOMAIN disk = Paths /\ DOMAIN before = Paths
    /\ bundle \in Bundles /\ now \in StartTime..MaxTime
    /\ command \in Commands
    /\ phase \in {"idle", "run", "open", "write", "ended"}
    /\ exit \in {NotEnded, 0, 1, 2, Killed}
    /\ phase = "ended" <=> exit # NotEnded
    /\ phase \in {"open", "write"} => built # {}
    /\ pending \subseteq Kinds
    /\ phase = "write" => pending # {} /\ disk[Target] = Part
    /\ held.claims \in Records
    /\ commands \in 0..MaxCommands /\ changes \in 0..MaxChanges

(* What the run found: the sealed document's tallies, for the record that  *)
(* was checked.                                                            *)
Story(d) == [record |-> record, levels |-> LevelOutcomes(d.tallies)]

Written == Kinds \ pending

(* When the report command ends with exit code 0, every file it was asked  *)
(* for is there, whole and of this run: it tells of the record that was    *)
(* checked (even if another one is in its place now) and of the levels the *)
(* sealed document has (even if the caller changed its lists).  A path     *)
(* given twice holds what was written last.                                *)
DeliveredWhole ==
    exit = 0 =>
      \E d \in document : \A k \in Kinds : \A p \in command.out[k] :
        \/ \E j \in Kinds : Place[j] > Place[k] /\ p \in command.out[j]
        \/ p = RecordPath /\ ~still
        \/ disk[p] = Rendering(k, Story(d))

(* At every moment, and however the command ends, the files of the         *)
(* workspace are as they were without it, except those it has written      *)
(* whole and the one it has in hand: a refusal touches nothing, and a      *)
(* failure or a death damages at most one file.                            *)
OnlyTheFileInHand ==
    \A p \in Paths :
      \/ disk[p] = before[p]
      \/ \E k \in Written, d \in document :
           p \in command.out[k] /\ disk[p] = Rendering(k, Story(d))
      \/ pending # {} /\ p \in command.out[Present] /\ disk[p] = Part

(* --fail-under n with exit code 0 means that the record and the options   *)
(* have what PilotRun's LevelEvidence asks for some level from n on, and   *)
(* for every level below it, through loader, checkers, accounting, report  *)
(* and gate; and that a record with any mark of an envelope was verified   *)
(* as an envelope, whose signature is never optional.                      *)
GateMeansEvidence ==
    exit = 0 =>
      \A n \in command.failUnder :
        /\ \E l \in Levels : l >= n /\ \A m \in 0..l : Run!LevelEvidence(m)
        /\ held.from.cmcp \/ held.from.gateway \/ held.from.trace # "absent" =>
             Run!SignatureChecked

(* As long as nothing changed since the report command began, `verify' of  *)
(* the same file with the same options says of every level what the report *)
(* says: the two count failures in different code.                         *)
SameOptionsReproduce ==
    still /\ phase = "ended" /\ built # {} =>
      \A d \in document : \A l \in Levels :
        (\E r \in Loaded(disk[RecordPath]) : r.claims = record) =>
          (VerifyExit(l, options) = 0 <=> Run!Passed(d, l))

(* README.md: the report carries "the exact command to reproduce the       *)
(* result".  The reader has the record and the verifier's challenge.       *)
PrintedCommandReproduces ==
    still /\ phase = "ended" /\ built # {} =>
      \A p \in command.out["html"] :
        LET page == disk[p] IN
        (/\ page.holds = "html"
         /\ \E r \in Loaded(disk[RecordPath]) : r.claims = page.record) =>
           LET given == [nonce    |-> IF page.reproduce.nonce THEN record.nonce ELSE "absent",
                         receipt  |-> "absent",
                         resolver |-> FALSE]
           IN  VerifyExit(page.reproduce.level, given) = 0 <=> page.top # NoLevelPassed
=============================================================================
