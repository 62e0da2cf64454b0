------------------------- MODULE ReportCommandProofs ------------------------
(***************************************************************************)
(* What the report command leaves in the workspace, what its exit code     *)
(* means and what its verdict is worth, for every set of records, command  *)
(* lines, paths, bundles and bounds, and for whatever other programs put   *)
(* where the record is.                                                    *)
(*                                                                         *)
(* The first part, up to ExitZeroDelivers, does not open the checkers:     *)
(* whatever they return, one completed run has one document.  The second   *)
(* part takes what PilotRunProofs shows of a run of the shipped checkers   *)
(* as known and follows it through loader, report, gate and `verify'.      *)
(***************************************************************************)
EXTENDS ReportCommand, TLAPS

(* What was written so far is whole, of this run, and still there, unless  *)
(* a later rendering has the same path.                                    *)
Delivered(d) ==
    \A k \in Written : \A p \in command.out[k] :
      \/ \E j \in Kinds : Place[j] > Place[k] /\ p \in command.out[j]
      \/ p = RecordPath /\ ~still
      \/ disk[p] = Rendering(k, Story(d))

Writing == phase \in {"open", "write"}

(* The command line, and what is pending of it. *)
Orders ==
    /\ command \in Commands
    /\ pending \subseteq Requested
    /\ phase = "write" => pending # {}
    /\ exit = 0 => phase = "ended" /\ pending = {}
    /\ Writing => \A k \in Requested \ pending, j \in pending : Place[k] < Place[j]

(* The report is of the one document there is. *)
Sources ==
    /\ \A d, e \in document : d = e
    /\ \A report \in built : /\ "sealed" \in DOMAIN report
                               /\ \E d \in document : ViewOf(report) = Story(d)

(* The files before the first is opened, and afterwards. *)
Workspace ==
    /\ DOMAIN disk = Paths /\ DOMAIN before = Paths
    /\ phase = "run" => built = {} /\ pending = {} /\ \A p \in Paths : disk[p] = before[p]
    /\ OnlyTheFileInHand
    /\ Writing \/ exit = 0 => document # {} /\ \A d \in document : Delivered(d)

IInv == Orders /\ Sources /\ Workspace

-----------------------------------------------------------------------------
LEMMA PlacesDiffer ==
    \A j, k \in Kinds : /\ Place[k] \in Int
                        /\ j # k => Place[j] # Place[k]
BY DEF Kinds, Place

(* There is a first among the pending renderings. *)
LEMMA FirstPending ==
    ASSUME pending \subseteq Kinds, pending # {}
    PROVE  /\ Present \in pending
           /\ \A j \in pending \ {Present} : Place[Present] < Place[j]
<1> DEFINE First(k) == k \in pending /\ \A j \in pending : Place[k] <= Place[j]
<1>1. \E k \in pending : First(k)
  <2>1. Place["html"] = 1 /\ Place["json"] = 2 /\ Place["badge"] = 3
    BY DEF Place
  <2>2. "html" \in pending => First("html")
    BY <2>1 DEF Kinds
  <2>3. "html" \notin pending /\ "json" \in pending => First("json")
    BY <2>1 DEF Kinds
  <2>4. ASSUME "html" \notin pending, "json" \notin pending PROVE First("badge")
    <3>1. \A j \in pending : j = "badge"
      BY <2>4 DEF Kinds
    <3>2. "badge" \in pending
      BY <3>1
    <3> QED BY <2>1, <3>1, <3>2
  <2> QED BY <2>2, <2>3, <2>4
<1>2. Present \in pending /\ \A j \in pending : Place[Present] <= Place[j]
  BY <1>1 DEF Present
<1> QED BY <1>2, PlacesDiffer

(* The rendering in hand has one path. *)
LEMMA OneTarget ==
    ASSUME command \in Commands, pending \subseteq Requested, pending # {}
    PROVE  /\ Target \in Paths
           /\ command.out[Present] = {Target}
<1>1. Present \in Kinds /\ command.out[Present] # {}
  BY FirstPending DEF Requested
<1>2. PICK p \in command.out[Present] : p \in Paths
  BY <1>1, ReportCommandAssumption
<1>3. Target \in Paths /\ Target \in command.out[Present]
  BY <1>2 DEF Target
<1> QED BY <1>1, <1>3, ReportCommandAssumption

-----------------------------------------------------------------------------
LEMMA InitEstablishes == Init => IInv
<1> SUFFICES ASSUME Init PROVE IInv
  OBVIOUS
<1>1. Orders
  <2>1. command \in Commands
    BY ReportCommandAssumption DEF Init
  <2> QED BY <2>1 DEF Init, Orders, Writing, NotEnded
<1>2. Sources
  BY DEF Init, Sources
<1>3. Workspace
  BY DEF Init, Workspace, OnlyTheFileInHand, Writing, NotEnded
<1> QED BY <1>1, <1>2, <1>3 DEF IInv

(* A new command finds the workspace as it is. *)
LEMMA StartPreserves ==
    ASSUME IInv, NEW c \in Commands, Start(c)
    PROVE  IInv'
<1> USE DEF IInv, Start, EndWith, runVars, NotEnded
<1>1. Orders'
  BY DEF Orders, Writing
<1>2. Sources'
  BY DEF Sources
<1>3. Workspace'
  BY DEF Workspace, Writing, OnlyTheFileInHand
<1> QED BY <1>1, <1>2, <1>3

(* A checker, or the completion of the run. *)
LEMMA RunLevelsPreserves ==
    ASSUME IInv, RunLevels
    PROVE  IInv'
<1>1. /\ phase = "run"
      /\ UNCHANGED <<worldVars, callVars>>
  BY DEF RunLevels
<1>2. \/ UNCHANGED document
      \/ \E x : document' = {x}
  BY DEF RunLevels, Run!RunChecker, Run!Complete
<1> USE <1>1, <1>2 DEF IInv, worldVars, callVars
<1>3. Orders'
  BY DEF Orders, Requested, Writing
<1>4. Sources'
  BY DEF Sources, Workspace
<1>5. Workspace'
  BY DEF Workspace, Orders, Writing, OnlyTheFileInHand
<1> QED BY <1>3, <1>4, <1>5

(* Everything that is asked for becomes pending, and nothing was written.  *)
LEMMA BuildPreserves ==
    ASSUME IInv, Build
    PROVE  IInv'
<1> USE DEF IInv, Build, EndWith, runVars, worldVars
<1>1. Orders'
  BY DEF Orders, Requested, Writing
<1>2. Sources'
  BY DEF Sources, Story, ViewOf, SealedReport
<1>3. OnlyTheFileInHand'
  BY DEF Workspace, OnlyTheFileInHand
<1>4. ASSUME Writing' PROVE document' # {} /\ \A d \in document' : Delivered(d)'
  BY <1>4 DEF Writing, Delivered, Written, Requested
<1>5. Workspace'
  BY <1>3, <1>4 DEF Workspace, Writing
<1> QED BY <1>1, <1>2, <1>5

(* The file in hand is the only one that changes. *)
LEMMA OpenPreserves ==
    ASSUME IInv, Open
    PROVE  IInv'
<1> USE DEF IInv, Open, EndWith, runVars
<1>1. Orders'
  BY DEF Orders, Requested, Writing
<1>2. Sources'
  BY DEF Sources, Story, ViewOf
<1>3. pending # {} /\ Target \in Paths /\ command.out[Present] = {Target}
  BY OneTarget DEF Orders
<1>4. UNCHANGED <<command, pending, record, document, before, still>>
  OBVIOUS
<1>5. \A p \in Paths \ {Target} : disk'[p] = disk[p]
  BY DEF Workspace
<1>6. disk'[Target] = disk[Target] \/ disk'[Target] = Part
  BY <1>3 DEF Workspace
<1>7. DOMAIN disk' = Paths
  BY DEF Workspace
<1>8. OnlyTheFileInHand'
  <2> SUFFICES ASSUME NEW p \in Paths
               PROVE  \/ disk'[p] = before[p]
                      \/ \E k \in Written, d \in document :
                           p \in command.out[k] /\ disk'[p] = Rendering(k, Story(d))
                      \/ p \in command.out[Present] /\ disk'[p] = Part
    BY <1>3, <1>4 DEF OnlyTheFileInHand, Written, Present, Story
  <2>1. CASE disk'[p] = disk[p]
    BY <2>1, <1>4 DEF Workspace, OnlyTheFileInHand
  <2>2. CASE p = Target /\ disk'[p] = Part
    BY <2>2, <1>3
  <2> QED BY <2>1, <2>2, <1>5, <1>6
<1>9. ASSUME NEW d \in document PROVE Delivered(d)'
  <2> SUFFICES ASSUME NEW k \in Written, NEW p \in command.out[k]
               PROVE  \/ \E j \in Kinds : Place[j] > Place[k] /\ p \in command.out[j]
                      \/ p = RecordPath /\ ~still
                      \/ disk'[p] = Rendering(k, Story(d))
    BY <1>4 DEF Delivered, Written, Story
  <2>1. p \in Paths /\ k \in Kinds /\ k \in Requested \ pending
    BY ReportCommandAssumption DEF Written, Orders, Requested
  <2>2. Delivered(d)
    BY DEF Workspace, Writing
  <2>3. CASE p # Target
    BY <2>1, <2>2, <2>3, <1>5 DEF Delivered
  <2>4. CASE p = Target
    <3>1. Present \in pending /\ Present \in Kinds
      BY <1>3, FirstPending DEF Orders, Requested
    <3>2. Place[k] < Place[Present]
      BY <2>1, <3>1 DEF Orders, Writing
    <3> QED BY <2>4, <3>1, <3>2, <1>3, PlacesDiffer, <2>1
  <2> QED BY <2>3, <2>4
<1>10. Workspace'
  BY <1>4, <1>7, <1>8, <1>9 DEF Workspace, Writing
<1> QED BY <1>1, <1>2, <1>10

(* A rendering that was written whole becomes part of what was delivered,  *)
(* and what it overwrote has a later rendering on its path.                *)
LEMMA WritePreserves ==
    ASSUME IInv, Write
    PROVE  IInv'
<1> USE DEF IInv, Write, EndWith, runVars
<1>1. pending # {} /\ Target \in Paths /\ command.out[Present] = {Target}
  BY OneTarget DEF Orders
<1>2. Present \in pending /\ Present \in Kinds
  BY <1>1, FirstPending DEF Orders, Requested
<1>3. UNCHANGED <<command, record, document, built, before, still>>
  OBVIOUS
<1>4. Sources'
  BY <1>3 DEF Sources, Story, ViewOf
<1>5. CASE UNCHANGED <<disk, pending>>
  <2>1. Orders'
    BY <1>3, <1>5 DEF Orders, Requested, Writing
  <2>2. OnlyTheFileInHand'
    BY <1>3, <1>5 DEF Workspace, OnlyTheFileInHand, Written, Present, Story
  <2>3. ASSUME NEW d \in document PROVE Delivered(d)'
    BY <1>3, <1>5, <2>3 DEF Workspace, Writing, Delivered, Written, Story
  <2>4. Workspace'
    BY <1>3, <1>5, <2>2, <2>3 DEF Workspace, Writing
  <2> QED BY <2>1, <2>4, <1>4
<1>6. CASE /\ \E report \in built :
                disk' = [disk EXCEPT ![Target] = Rendering(Present, ViewOf(report))]
           /\ pending' = pending \ {Present}
           /\ phase' = "open"
           /\ UNCHANGED exit
  <2>1. Orders'
    <3>1. \A j \in pending \ {Present} : Place[Present] < Place[j]
      BY <1>1, FirstPending DEF Orders, Requested
    <3> QED BY <1>3, <1>6, <3>1 DEF Orders, Requested, Writing
  <2>2. PICK d \in document : disk' = [disk EXCEPT ![Target] = Rendering(Present, Story(d))]
    BY <1>6 DEF Sources
  <2>3. /\ DOMAIN disk' = Paths
        /\ disk'[Target] = Rendering(Present, Story(d))
        /\ \A p \in Paths \ {Target} : disk'[p] = disk[p]
    BY <1>1, <2>2 DEF Workspace
  <2>4. Written' = Written \cup {Present}
    BY <1>2, <1>6 DEF Written
  <2>5. OnlyTheFileInHand'
    <3> SUFFICES ASSUME NEW p \in Paths
                 PROVE  \/ disk'[p] = before[p]
                        \/ \E k \in Written \cup {Present}, e \in document :
                             p \in command.out[k] /\ disk'[p] = Rendering(k, Story(e))
      BY <1>3, <2>4 DEF OnlyTheFileInHand, Story
    <3>1. CASE p = Target
      BY <3>1, <1>1, <2>3
    <3>2. CASE p # Target
      BY <3>2, <1>1, <2>3 DEF Workspace, OnlyTheFileInHand
    <3> QED BY <3>1, <3>2
  <2>6. Delivered(d)'
    <3> SUFFICES ASSUME NEW k \in Written \cup {Present}, NEW p \in command.out[k]
                 PROVE  \/ \E j \in Kinds : Place[j] > Place[k] /\ p \in command.out[j]
                        \/ p = RecordPath /\ ~still
                        \/ disk'[p] = Rendering(k, Story(d))
      BY <1>3, <2>4 DEF Delivered, Story
    <3>1. CASE k = Present
      BY <3>1, <1>1, <2>3
    <3>2. CASE k # Present /\ p # Target
      <4>1. Delivered(d) /\ p \in Paths
        BY <3>2, ReportCommandAssumption DEF Workspace, Writing, Orders, Written
      <4> QED BY <3>2, <4>1, <2>3 DEF Delivered
    <3>3. CASE k # Present /\ p = Target
      <4>1. k \in Kinds /\ k \in Requested \ pending
        BY <3>3 DEF Written, Requested
      <4>2. Place[k] < Place[Present]
        BY <4>1, <1>2 DEF Orders, Writing
      <4> QED BY <3>3, <4>1, <4>2, <1>1, <1>2, PlacesDiffer
    <3> QED BY <3>1, <3>2, <3>3
  <2>7. Workspace'
    BY <1>3, <1>6, <2>3, <2>5, <2>6 DEF Workspace, Sources
  <2> QED BY <2>1, <2>7, <1>4
<1> QED BY <1>5, <1>6

(* The end of a command, by the gate or by death. *)
LEMMA EndPreserves ==
    ASSUME IInv, Gate \/ Die
    PROVE  IInv'
<1>1. /\ UNCHANGED <<command, record, document, built, pending, disk, before, still>>
      /\ phase' = "ended"
      /\ exit' \in {0, 1, Killed}
      /\ exit' = 0 => Writing /\ pending = {}
  BY DEF Gate, Die, EndWith, runVars, worldVars, Writing, Killed
<1> USE DEF IInv
<1>2. Orders'
  BY <1>1 DEF Orders, Requested, Writing
<1>3. Sources'
  BY <1>1 DEF Sources, Story, ViewOf
<1>4. OnlyTheFileInHand'
  BY <1>1 DEF Workspace, OnlyTheFileInHand, Written, Present, Story
<1>5. ASSUME exit' = 0 PROVE document' # {} /\ \A d \in document' : Delivered(d)'
  BY <1>1, <1>5 DEF Workspace, Delivered, Written, Story
<1>6. Workspace'
  BY <1>1, <1>4, <1>5 DEF Workspace, Writing
<1> QED BY <1>2, <1>3, <1>6

(* The clock, the bundles, and the objects a caller holds: a ReportData    *)
(* keeps its sealed part.                                                  *)
LEMMA AroundPreserves ==
    ASSUME IInv, Tick \/ ChangeBundles \/ Meddle
    PROVE  IInv'
<1> USE DEF IInv
<1>1. /\ UNCHANGED <<command, record, document, pending, disk, before, phase, exit>>
      /\ still' = still \/ still' = FALSE
      /\ \A report \in built' : /\ "sealed" \in DOMAIN report
                                /\ \E old \in built : ViewOf(report) = ViewOf(old)
      /\ phase = "run" => built' = built
  <2>1. CASE Tick \/ ChangeBundles
    BY <2>1 DEF Tick, ChangeBundles, Change, runVars, callVars, Sources
  <2>2. CASE Meddle
    <3>1. \A report \in built' : /\ "sealed" \in DOMAIN report
                                 /\ \E old \in built : report.sealed = old.sealed
      BY <2>2 DEF Meddle, Sources
    <3> QED BY <2>2, <3>1 DEF Meddle, Change, runVars, ViewOf
  <2> QED BY <2>1, <2>2
<1>2. Orders'
  BY <1>1 DEF Orders, Requested, Writing
<1>3. Sources'
  BY <1>1 DEF Sources, Story
<1>4. OnlyTheFileInHand'
  BY <1>1 DEF Workspace, OnlyTheFileInHand, Written, Present, Story
<1>5. ASSUME NEW d \in document, Delivered(d) PROVE Delivered(d)'
  BY <1>1, <1>5 DEF Delivered, Written, Story
<1>6. Workspace'
  BY <1>1, <1>4, <1>5 DEF Workspace, Writing
<1> QED BY <1>2, <1>3, <1>6

(* Another program's record file is the workspace's, not the command's. *)
LEMMA ReplaceRecordPreserves ==
    ASSUME IInv, ReplaceRecord
    PROVE  IInv'
<1>1. /\ UNCHANGED <<command, record, document, built, pending, phase, exit>>
      /\ still' = FALSE
  BY DEF ReplaceRecord, Change, runVars, callVars
<1>2. PICK file : /\ disk' = [disk EXCEPT ![RecordPath] = file]
                  /\ before' = [before EXCEPT ![RecordPath] = file]
  BY DEF ReplaceRecord
<1> USE DEF IInv
<1>3. /\ DOMAIN disk' = Paths /\ DOMAIN before' = Paths
      /\ disk'[RecordPath] = before'[RecordPath]
      /\ \A p \in Paths \ {RecordPath} : disk'[p] = disk[p] /\ before'[p] = before[p]
  BY <1>2, ReportCommandAssumption DEF Workspace
<1>4. Orders'
  BY <1>1 DEF Orders, Requested, Writing
<1>5. Sources'
  BY <1>1 DEF Sources, Story, ViewOf
<1>6. OnlyTheFileInHand'
  BY <1>1, <1>3 DEF Workspace, OnlyTheFileInHand, Written, Present, Story
<1>7. ASSUME NEW d \in document, Delivered(d) PROVE Delivered(d)'
  <2>1. \A k \in Kinds : command.out[k] \subseteq Paths
    BY ReportCommandAssumption DEF Orders
  <2> QED BY <1>1, <1>3, <1>7, <2>1 DEF Delivered, Written, Story
<1>8. Workspace'
  BY <1>1, <1>3, <1>6, <1>7 DEF Workspace, Writing
<1> QED BY <1>4, <1>5, <1>8

LEMMA StutteringPreserves ==
    ASSUME IInv, UNCHANGED vars
    PROVE  IInv'
<1> USE DEF IInv, vars, runVars, worldVars, callVars
<1>1. Orders'
  BY DEF Orders, Requested, Writing
<1>2. Sources'
  BY DEF Sources, Story, ViewOf
<1>3. OnlyTheFileInHand'
  BY DEF Workspace, OnlyTheFileInHand, Written, Present, Story
<1>4. ASSUME NEW d \in document, Delivered(d) PROVE Delivered(d)'
  BY <1>4 DEF Delivered, Written, Story
<1>5. Workspace'
  BY <1>3, <1>4 DEF Workspace, Writing
<1> QED BY <1>1, <1>2, <1>5

-----------------------------------------------------------------------------
LEMMA Invariance == Spec => []IInv
<1>1. IInv /\ [Next]_vars => IInv'
  BY StartPreserves, RunLevelsPreserves, BuildPreserves, OpenPreserves, WritePreserves,
     EndPreserves, AroundPreserves, ReplaceRecordPreserves, StutteringPreserves DEF Next
<1> QED BY InitEstablishes, <1>1, PTL DEF Spec

(* However the report command ends, the files it was not writing are as    *)
(* they were or hold whole renderings of its run (cli.py, report).         *)
THEOREM NothingElseTouched == Spec => []OnlyTheFileInHand
<1>1. IInv => OnlyTheFileInHand
  BY DEF IInv, Workspace
<1> QED BY <1>1, Invariance, PTL

(* Exit code 0 of the report command means that every file it was asked    *)
(* for is there, of the record that was checked and of the levels that     *)
(* were sealed (report.py, _build_from_execution and _snapshot_view).      *)
THEOREM ExitZeroDelivers == Spec => []DeliveredWhole
<1>1. IInv => DeliveredWhole
  <2> SUFFICES ASSUME IInv, exit = 0
               PROVE  \E d \in document : \A k \in Kinds : \A p \in command.out[k] :
                        \/ \E j \in Kinds : Place[j] > Place[k] /\ p \in command.out[j]
                        \/ p = RecordPath /\ ~still
                        \/ disk[p] = Rendering(k, Story(d))
    BY DEF DeliveredWhole
  <2>1. Written = Kinds
    BY DEF IInv, Orders, Written
  <2>2. document # {} /\ \A d \in document : Delivered(d)
    BY DEF IInv, Workspace
  <2> QED BY <2>1, <2>2 DEF Delivered
<1> QED BY <1>1, Invariance, PTL

-----------------------------------------------------------------------------
(***************************************************************************)
(* The run the report command makes is the one PilotRunProofs is about:    *)
(* its assumptions hold, and its steps and its words are the same.         *)
(***************************************************************************)
P == INSTANCE PilotRunProofs

LEMMA RunAssumptions == P!PilotRunTables /\ P!PilotRunAssumption /\ P!RegistryAssumption
<1>1. P!PilotRunTables
  BY ReportCommandTables
  DEF P!PilotRunTables, P!LevelModules, LevelModules, P!PilotModules, PilotModules,
      P!PilotCodes, PilotCodes, P!PilotTexts, PilotTexts, P!PilotKeys, PilotKeys,
      P!PilotOwner, PilotOwner, P!PilotRule, PilotRule, P!PilotBranches, PilotBranches,
      P!AprBranches, AprBranches, P!PolBranches, PolBranches, P!ScaBranches, ScaBranches,
      P!Reports, Reports, P!Blocked, Blocked, P!Bare, Bare
<1>2. P!PilotRunAssumption
  BY ReportCommandTables DEF P!PilotRunAssumption, P!Record, Record
<1>3. P!RegistryAssumption
  BY RegistryAssumption
  DEF P!RegistryAssumption, P!BranchRule, BranchRule, P!Option, Option, P!Status, Status,
      P!Roles, Roles
<1> QED  BY <1>1, <1>2, <1>3

(* PilotRun brings its own instance of the checkers: P!FindingsOf and FindingsOf,
   for one, are the same operator under two names, and so on below. *)
LEMMA SameFindings ==
    \A m, r, o, l, t, a : P!FindingsOf(m, r, o, l, t, a) = FindingsOf(m, r, o, l, t, a)
  BY DEF P!AncFindings, P!AprFindings, P!BadTime, P!CmcpSigFindings, P!EnvFindings,
         P!Fails, P!FindingsOf, P!PolBranch, P!PolFindings, P!ResolutionFinding,
         P!RteFindings, P!Says, P!ScaBranch, P!ScaFindings, P!SigFindings, P!Skips,
         P!TxnFindings, P!Unverified, P!Verdict, AncFindings, AprFindings, BadTime,
         CmcpSigFindings, EnvFindings, Fails, FindingsOf, PolBranch, PolFindings,
         ResolutionFinding, RteFindings, Says, ScaBranch, ScaFindings, SigFindings, Skips,
         TxnFindings, Unverified, Verdict

LEMMA SameRunChecker == \A a : P!RunChecker(a) <=> Run!RunChecker(a)
<1>1. P!Plan = Run!Plan
  BY DEF P!LevelCells, P!LevelModules, P!PilotPlan, P!Plan, Run!LevelCells,
         Run!LevelModules, Run!PilotPlan, Run!Plan
<1>2. \A m, r, o, l, t, a : P!FindingsOf(m, r, o, l, t, a) = Run!FindingsOf(m, r, o, l, t, a)
  BY DEF P!AncFindings, P!AprFindings, P!BadTime, P!CmcpSigFindings, P!EnvFindings,
         P!Fails, P!FindingsOf, P!PolBranch, P!PolFindings, P!ResolutionFinding,
         P!RteFindings, P!Says, P!ScaBranch, P!ScaFindings, P!SigFindings, P!Skips,
         P!TxnFindings, P!Unverified, P!Verdict, Run!AncFindings, Run!AprFindings,
         Run!BadTime, Run!CmcpSigFindings, Run!EnvFindings, Run!Fails, Run!FindingsOf,
         Run!PolBranch, Run!PolFindings, Run!ResolutionFinding, Run!RteFindings, Run!Says,
         Run!ScaBranch, Run!ScaFindings, Run!SigFindings, Run!Skips, Run!TxnFindings,
         Run!Unverified, Run!Verdict
<1>3. /\ \A m, r, o, a : P!Observed(m, r, o, a) = Run!Observed(m, r, o, a)
      /\ \A r, o : P!AsksResolver(r, o) <=> Run!AsksResolver(r, o)
  BY DEF P!AprBranch, P!AprObserved, P!AsksResolver, P!Calls, P!Fails, P!Observed,
         P!PolBranch, P!PolObserved, P!ResolutionFinding, P!Says, P!ScaBranch,
         P!ScaObserved, P!Skips, P!Unverified, P!Verdict, Run!AprBranch, Run!AprObserved,
         Run!AsksResolver, Run!Calls, Run!Fails, Run!Observed, Run!PolBranch,
         Run!PolObserved, Run!ResolutionFinding, Run!Says, Run!ScaBranch, Run!ScaObserved,
         Run!Skips, Run!Unverified, Run!Verdict
<1>4. /\ \A l, ob : P!FactsOf(l, ob) = Run!FactsOf(l, ob)
      /\ \A S : P!Cardinality(S) = Run!Cardinality(S)
  BY DEF P!CountsAsLevelFailure, P!FactsOf, P!PilotThresholds,
         P!ShippedPolicy, P!StartPolicy, P!UnverifiedFails, P!Cardinality,
         Run!CountsAsLevelFailure, Run!FactsOf, Run!PilotThresholds,
         Run!ShippedPolicy, Run!StartPolicy, Run!UnverifiedFails, Run!Cardinality
<1>5. \A m, ob, f : P!ReturnsWhatItObserved(m, ob, f) <=> Run!ReturnsWhatItObserved(m, ob, f)
  BY DEF P!ReturnsWhatItObserved, P!PilotCode, P!OnlyOne, P!InOrder,
         Run!ReturnsWhatItObserved, Run!PilotCode, Run!OnlyOne, Run!InOrder
<1> SUFFICES ASSUME NEW a PROVE P!RunChecker(a) <=> Run!RunChecker(a)
  OBVIOUS
<1> DEFINE cell == Run!Plan[Run!Cardinality(DOMAIN done) + 1]
           observed == Run!Observed(cell[2], record, options, a)
           found == Run!FindingsOf(cell[2], record, options, cell[1], now, a)
           result == [facts |-> Run!FactsOf(cell[1], observed), findings |-> found]
           Step == /\ outcome = "running"
                   /\ Run!Cardinality(DOMAIN done) < Len(Run!Plan)
                   /\ a # "raises" => cell[2] = "TR-POL" /\ Run!AsksResolver(record, options)
                   /\ \/ /\ Run!ReturnsWhatItObserved(cell[2], observed, found)
                         /\ done' = [c \in DOMAIN done \cup {cell} |->
                                       IF c = cell THEN result ELSE done[c]]
                         /\ UNCHANGED outcome
                      \/ /\ ~Run!ReturnsWhatItObserved(cell[2], observed, found)
                         /\ done' = [c \in {} |-> <<>>]
                         /\ outcome' = "rejected"
                   /\ UNCHANGED <<record, options, now, document>>
<1>6. Run!RunChecker(a) <=> Step
  BY Zenon DEF Run!RunChecker
<1>7. P!RunChecker(a) <=> Step
  BY <1>1, <1>2, <1>3, <1>4, <1>5, Zenon DEF P!RunChecker
<1> QED  BY <1>6, <1>7

LEMMA SameComplete == P!Complete <=> Run!Complete
  BY DEF P!AllFacts, P!AllFindings, P!BlockedBy, P!Complete, P!CountsAsLevelFailure,
         P!Document, P!FindingsAt, P!LevelCells, P!LevelModules, P!Levels, P!OnlyOne,
         P!PilotPlan, P!PilotThresholds, P!Plan, P!Positions, P!Projectable,
         P!ProjectableFact, P!RecognisedFact, P!RoleProjection, P!Row, P!Rows, P!Sealed,
         P!SealedResults, P!ShippedPolicy, P!StartPolicy, P!Tally, P!UnverifiedFails,
         P!Cardinality, P!InOrder, Run!AllFacts, Run!AllFindings, Run!BlockedBy,
         Run!Complete, Run!CountsAsLevelFailure, Run!Document, Run!FindingsAt,
         Run!LevelCells, Run!LevelModules, Run!Levels, Run!OnlyOne, Run!PilotPlan,
         Run!PilotThresholds, Run!Plan, Run!Positions, Run!Projectable,
         Run!ProjectableFact, Run!RecognisedFact, Run!RoleProjection, Run!Row, Run!Rows,
         Run!Sealed, Run!SealedResults, Run!ShippedPolicy, Run!StartPolicy, Run!Tally,
         Run!UnverifiedFails, Run!Cardinality, Run!InOrder

LEMMA SameWords ==
    /\ P!Plan = Run!Plan /\ P!Levels = Levels /\ P!LevelModules = LevelModules
    /\ P!Answers = Answers /\ P!StartPolicy = Run!StartPolicy
    /\ \A l : P!LevelEvidence(l) <=> Run!LevelEvidence(l)
    /\ \A d, l : P!Passed(d, l) <=> Run!Passed(d, l)
    /\ \A p, f, l : P!CountsAsLevelFailure(p, f, l) <=> CountsAsLevelFailure(p, f, l)
<1>1. P!Plan = Run!Plan /\ P!Levels = Levels /\ P!LevelModules = LevelModules
  BY DEF P!LevelCells, P!LevelModules, P!Levels, P!PilotPlan, P!Plan, Run!LevelCells,
         Run!LevelModules, Run!Levels, Run!PilotPlan, Run!Plan, Levels, LevelModules
<1>2. P!Answers = Answers /\ P!StartPolicy = Run!StartPolicy
  BY DEF P!PilotThresholds, P!ShippedPolicy, P!StartPolicy, Run!PilotThresholds,
         Run!ShippedPolicy, Run!StartPolicy, P!Answers, Answers
<1>3. /\ \A l : P!LevelEvidence(l) <=> Run!LevelEvidence(l)
      /\ \A d, l : P!Passed(d, l) <=> Run!Passed(d, l)
      /\ \A p, f, l : P!CountsAsLevelFailure(p, f, l) <=> CountsAsLevelFailure(p, f, l)
  BY DEF P!LevelEvidence, P!LevelZeroEvidence, P!LevelOneEvidence, P!LevelTwoEvidence,
         P!Fresh, P!SignatureChecked, P!NoTime, P!BadTime, P!Passed, Run!LevelEvidence,
         Run!LevelZeroEvidence, Run!LevelOneEvidence, Run!LevelTwoEvidence, Run!Fresh,
         Run!SignatureChecked, Run!NoTime, Run!BadTime, Run!Passed, P!CountsAsLevelFailure,
         CountsAsLevelFailure, P!UnverifiedFails, UnverifiedFails
<1> QED  BY <1>1, <1>2, <1>3

(* What PilotRunProofs shows of every state of a run. *)
Running == P!TypeOK /\ P!FromCalls /\ P!Published

LEMMA RunningStarts ==
    ASSUME record' \in Records, options' \in OptionSets, now' \in StartTime..MaxTime,
           done' = [cell \in {} |-> <<>>], outcome' = "running", document' = {}
    PROVE  Running'
  BY RunAssumptions, P!NothingRanYet DEF Running

LEMMA RunningSteps ==
    ASSUME Running,
           \/ \E answer \in Answers : Run!RunChecker(answer)
           \/ Run!Complete
           \/ UNCHANGED <<runVars, now>>
    PROVE  Running'
<1>1. P!Next \/ UNCHANGED P!vars
  BY SameRunChecker, SameComplete, SameWords DEF P!Next, P!vars, runVars
<1> QED  BY <1>1, RunAssumptions, P!StepType, P!StepPublished DEF Running

LEMMA RunningAges ==
    ASSUME Running, now' \in StartTime..MaxTime, now <= now', UNCHANGED runVars
    PROVE  Running'
  BY RunAssumptions, P!ClockRunsOn DEF Running, runVars

(* The document of a run, and what it says of the record. *)
Evidence(d) ==
    /\ record \in Record
    /\ DOMAIN d.tallies = Levels
    /\ \A l \in Levels : Run!Passed(d, l) => \A m \in 0..l : Run!LevelEvidence(m)

LEMMA EvidenceOfRun ==
    ASSUME Running, NEW d \in document
    PROVE  Evidence(d)
<1>1. P!PassingMeansEvidence
  BY RunAssumptions, P!EvidenceAtEnd DEF Running
<1>2. outcome = "completed"
  BY DEF Running, P!TypeOK
<1>3. d = P!Document(P!Levels, P!AllFacts, P!AllFindings, P!StartPolicy)
  BY <1>2 DEF Running, P!Published
<1>4. DOMAIN d.tallies = Levels
  BY <1>3, SameWords DEF P!Document
<1>5. \A l \in Levels : Run!Passed(d, l) => \A m \in 0..l : Run!LevelEvidence(m)
  BY <1>1, SameWords DEF P!PassingMeansEvidence
<1>6. record \in Record
  BY ReportCommandTables DEF Running, P!TypeOK
<1> QED  BY <1>4, <1>5, <1>6 DEF Evidence

-----------------------------------------------------------------------------
(***************************************************************************)
(* What can be loaded.                                                     *)
(***************************************************************************)
Marks(input) == input.cmcp \/ input.gateway \/ input.trace # "absent"

LEMMA LoadedIs ==
    ASSUME NEW file, file \in Inputs \/ file.holds # "input", NEW l \in Loaded(file)
    PROVE  /\ l.claims \in Records /\ "from" \in DOMAIN l
           /\ Marks(l.from) => l.claims.format = "cmcp-runtime"
           /\ AsInput(file).json = "object"
           /\ \A m \in Loaded(file) : m = l
<1> DEFINE input == AsInput(file)
<1>1. /\ input.json = "object"
      /\ \A m \in Loaded(file) : \E f \in FormatsOf(input) :
           m = [claims |-> [input.claims EXCEPT !.format = f], from |-> input]
  BY DEF Loaded
<1>2. /\ \A f \in FormatsOf(input) : /\ f \in {"cmcp-runtime", "trace"}
                                     /\ f = "cmcp-runtime" => input.cmcp
                                     /\ f = "trace" => ~Marks(input) /\ ~input.cmcp
      /\ \A f, g \in FormatsOf(input) : f = g
  BY DEF FormatsOf, Marks
<1>3. PICK f \in FormatsOf(input) :
        l = [claims |-> [input.claims EXCEPT !.format = f], from |-> input]
  BY <1>1
<1>4. /\ l.claims = [input.claims EXCEPT !.format = f] /\ l.from = input
      /\ "from" \in DOMAIN l
  BY <1>3
<1>5. \A m \in Loaded(file) : m = l
  BY <1>1, <1>2, <1>3
<1>6. l.claims \in Records
  <2>1. CASE file \in Inputs
    BY <2>1, ReportCommandInputs
  <2>2. CASE file.holds # "input"
    <3>1. file.holds = "json"
      BY <1>1, <2>2 DEF AsInput, Input
    <3>2. /\ input.claims = ForeignObject
          /\ ~input.cmcp
      BY <3>1 DEF AsInput, Input
    <3>3. f = "trace"
      BY <1>2, <3>2
    <3> QED  BY <1>4, <3>2, <3>3, ReportCommandInputs
  <2> QED  BY <2>1, <2>2
<1>7. Marks(l.from) => l.claims.format = "cmcp-runtime"
  <2>1. l.claims \in Record
    BY <1>6, ReportCommandTables
  <2>2. "format" \in DOMAIN l.claims
    BY <2>1 DEF Record
  <2>3. l.claims.format = f
    BY <1>4, <2>2
  <2> QED  BY <1>2, <1>4, <2>3
<1> QED  BY <1>1, <1>4, <1>5, <1>6, <1>7

(***************************************************************************)
(* The highest level passed is one that passed.                            *)
(***************************************************************************)
LEMMA HighestPassed ==
    ASSUME NEW outcomes, DOMAIN outcomes = Levels, NEW n \in Nat,
           ~(HighestLevel(outcomes) < n)
    PROVE  \E l \in Levels : l >= n /\ outcomes[l].passed
<1> DEFINE passed == {l \in DOMAIN outcomes : outcomes[l].passed}
<1>1. passed # {}
  BY DEF HighestLevel, NoLevelPassed
<1>2. passed \subseteq 0..2
  BY ReportCommandTables DEF Levels, Run!Levels
<1>3. \E l \in passed : \A m \in passed : m <= l
  <2> HIDE DEF passed
  <2>1. CASE 2 \in passed
    BY <1>2, <2>1
  <2>2. CASE 2 \notin passed /\ 1 \in passed
    BY <1>2, <2>2
  <2>3. CASE 2 \notin passed /\ 1 \notin passed
    <3>1. \A m \in passed : m = 0
      BY <1>2, <2>3
    <3> QED  BY <1>1, <3>1
  <2> QED  BY <2>1, <2>2, <2>3
<1>4. HighestLevel(outcomes) = CHOOSE l \in passed : \A m \in passed : m <= l
  BY <1>1 DEF HighestLevel
<1>5. HighestLevel(outcomes) \in passed
  <2> HIDE DEF passed
  <2> QED  BY <1>3, <1>4
<1> QED  BY <1>2, <1>5

-----------------------------------------------------------------------------
(***************************************************************************)
(* Types.  A file that is no input is nothing, a report or a part of one.  *)
(***************************************************************************)
Files == \A p \in Paths : disk[p] \in Inputs \/ disk[p].holds # "input"

Typed == TypeOK /\ Files

LEMMA RenderingIsOwn ==
    ASSUME NEW k \in Kinds, NEW view
    PROVE  Rendering(k, view).holds # "input"
  BY DEF Kinds, Rendering, HtmlReport, JsonReport, Badge

LEMMA InitTyped == Init => Typed
<1> SUFFICES ASSUME Init PROVE Typed
  OBVIOUS
<1>1. now \in StartTime..MaxTime
  BY ReportCommandTables DEF Init
<1>2. command \in Commands
  BY ReportCommandAssumption DEF Init
<1>3. commands \in 0..MaxCommands /\ changes \in 0..MaxChanges
  BY ReportCommandInputs DEF Init
<1>4. held.claims \in Records
  BY ReportCommandInputs DEF Init
<1>5. DOMAIN disk = Paths /\ DOMAIN before = Paths /\ bundle \in Bundles
  BY DEF Init
<1>6. Files
  BY DEF Init, Files, Nothing
<1> QED  BY <1>1, <1>2, <1>3, <1>4, <1>5, <1>6 DEF Init, Typed, TypeOK, NotEnded, Killed

LEMMA StartTyped ==
    ASSUME Typed, NEW c \in Commands, Start(c)
    PROVE  Typed'
<1>1. commands' \in 0..MaxCommands
  BY ReportCommandInputs DEF Start, Typed, TypeOK
<1>2. held' \in Loaded(disk[RecordPath]) \/ UNCHANGED held
  BY DEF Start
<1>3. held'.claims \in Records
  BY <1>2, ReportCommandAssumption, LoadedIs DEF Typed, TypeOK, Files
<1>4. /\ command' = c /\ pending' = {} /\ before' = disk
      /\ UNCHANGED <<now, disk, bundle, changes>>
      /\ \/ phase' = "ended" /\ exit' \in {1, 2}
         \/ phase' = "run" /\ exit' = NotEnded
  BY DEF Start, EndWith
<1>5. TypeOK'
  BY <1>1, <1>3, <1>4 DEF Typed, TypeOK, NotEnded, Killed
<1> QED  BY <1>4, <1>5 DEF Typed, Files

(* Every other step keeps most of it. *)
LEMMA TypedKept ==
    ASSUME Typed, UNCHANGED <<command, commands>>,
           DOMAIN disk' = Paths, DOMAIN before' = Paths, Files',
           bundle' \in Bundles, now' \in StartTime..MaxTime,
           phase' \in {"run", "open", "write", "ended", phase},
           exit' \in {0, 1, 2, Killed, exit}, phase' = "ended" <=> exit' # NotEnded,
           phase' \in {"open", "write"} => built' # {},
           pending' \subseteq Kinds, phase' = "write" => pending' # {} /\ disk'[Target'] = Part,
           held'.claims \in Records, changes' \in 0..MaxChanges
    PROVE  Typed'
  BY DEF Typed, TypeOK

LEMMA FilesKept ==
    ASSUME Files,
           \A p \in Paths : \/ disk'[p] = disk[p]
                            \/ disk'[p] \in Inputs
                            \/ disk'[p].holds # "input"
    PROVE  Files'
  BY DEF Files

LEMMA RunLevelsTyped ==
    ASSUME Typed, RunLevels
    PROVE  Typed'
  BY DEF RunLevels, worldVars, callVars, Typed, TypeOK, Files

LEMMA BuildTyped ==
    ASSUME Typed, Build
    PROVE  Typed'
<1>1. Files'
  BY DEF Build, worldVars, Typed, Files
<1>2. pending' \subseteq Kinds
  BY DEF Build, Requested, Typed, TypeOK
<1>3. /\ UNCHANGED <<command, commands, disk, before, bundle, now, held, changes>>
      /\ \/ phase' = "open" /\ exit' = exit /\ built' # {}
         \/ phase' = "ended" /\ exit' = 1
      /\ phase = "run"
  BY DEF Build, EndWith, worldVars
<1> QED  BY <1>1, <1>2, <1>3, TypedKept DEF Typed, TypeOK, NotEnded

LEMMA OpenTyped ==
    ASSUME Typed, Orders, Open
    PROVE  Typed'
<1>1. Target \in Paths
  BY OneTarget DEF Orders, Open
<1>2. /\ UNCHANGED <<command, commands, before, bundle, now, held, changes, pending, built>>
      /\ phase = "open" /\ pending # {}
      /\ \/ disk' = [disk EXCEPT ![Target] = Part] /\ phase' = "write" /\ exit' = exit
         \/ disk' = disk /\ phase' = "ended" /\ exit' = 1
  BY DEF Open, EndWith
<1>3. Target' = Target
  BY <1>2 DEF Target, Present
<1>4. Files'
  BY <1>1, <1>2, FilesKept DEF Typed, TypeOK, Part
<1>5. phase' = "write" => pending' # {} /\ disk'[Target'] = Part
  BY <1>1, <1>2, <1>3 DEF Typed, TypeOK
<1> QED  BY <1>2, <1>4, <1>5, TypedKept DEF Typed, TypeOK, NotEnded

LEMMA WriteTyped ==
    ASSUME Typed, Orders, Write
    PROVE  Typed'
<1>1. Target \in Paths /\ Present \in Kinds
  BY OneTarget, FirstPending DEF Orders, Write, Requested
<1>2. /\ UNCHANGED <<command, commands, before, bundle, now, held, changes, built>>
      /\ phase = "write" /\ pending' \subseteq pending
      /\ \/ /\ \E report \in built :
                 disk' = [disk EXCEPT ![Target] = Rendering(Present, ViewOf(report))]
            /\ phase' = "open" /\ exit' = exit
         \/ disk' = disk /\ phase' = "ended" /\ exit' = 1
  BY DEF Write, EndWith
<1>3. Files'
  BY <1>1, <1>2, FilesKept, RenderingIsOwn DEF Typed, TypeOK
<1> QED  BY <1>2, <1>3, TypedKept DEF Typed, TypeOK, NotEnded

LEMMA EndTyped ==
    ASSUME Typed, Gate \/ Die
    PROVE  Typed'
<1>1. /\ UNCHANGED <<command, commands, disk, before, bundle, now, held, changes, pending, built>>
      /\ phase' = "ended" /\ exit' \in {0, 1, Killed}
  BY DEF Gate, Die, EndWith, worldVars
<1>2. Files'
  BY <1>1 DEF Typed, Files
<1> QED  BY <1>1, <1>2, TypedKept DEF Typed, TypeOK, NotEnded, Killed

LEMMA TickTyped ==
    ASSUME Typed, Tick
    PROVE  /\ Typed'
           /\ now \in Int /\ now' \in Int /\ now <= now' /\ now' \in StartTime..MaxTime
<1>1. now \in Int /\ now' \in Int /\ now <= now' /\ now' \in StartTime..MaxTime
  BY ReportCommandTables DEF Tick, Typed, TypeOK
<1>2. UNCHANGED <<callVars, disk, bundle, before, changes>>
  BY DEF Tick
<1>3. Target' = Target
  BY <1>2 DEF Target, Present, callVars
<1> QED  BY <1>1, <1>2, <1>3 DEF Typed, TypeOK, Files, callVars

LEMMA ChangeCounted ==
    ASSUME Typed, Change
    PROVE  changes' \in 0..MaxChanges
  BY ReportCommandInputs DEF Change, Typed, TypeOK

LEMMA ReplaceRecordTyped ==
    ASSUME Typed, Orders, ReplaceRecord
    PROVE  Typed'
<1>1. PICK file \in Inputs : /\ disk' = [disk EXCEPT ![RecordPath] = file]
                             /\ before' = [before EXCEPT ![RecordPath] = file]
  BY DEF ReplaceRecord
<1>2. /\ UNCHANGED <<callVars, bundle, runVars, now>>
      /\ ~(phase = "write" /\ Target = RecordPath)
  BY DEF ReplaceRecord, Change
<1>3. Target' = Target
  BY <1>2 DEF Target, Present, callVars
<1>4. Files'
  BY <1>1, ReportCommandAssumption, FilesKept DEF Typed, TypeOK
<1>5. phase' = "write" => pending' # {} /\ disk'[Target'] = Part
  BY <1>1, <1>2, <1>3 DEF Typed, TypeOK, callVars
<1>6. changes' \in 0..MaxChanges
  BY ChangeCounted DEF ReplaceRecord
<1>7. DOMAIN disk' = Paths /\ DOMAIN before' = Paths
  BY <1>1 DEF Typed, TypeOK
<1> QED  BY <1>2, <1>4, <1>5, <1>6, <1>7, TypedKept DEF Typed, TypeOK, callVars

LEMMA ChangeBundlesTyped ==
    ASSUME Typed, ChangeBundles
    PROVE  Typed'
<1>1. /\ UNCHANGED <<callVars, disk, before, runVars, now>>
      /\ bundle' \in Bundles
  BY DEF ChangeBundles, Change
<1>2. Target' = Target
  BY <1>1 DEF Target, Present, callVars
<1>3. Files'
  BY <1>1 DEF Typed, Files
<1>4. changes' \in 0..MaxChanges
  BY ChangeCounted DEF ChangeBundles
<1> QED  BY <1>1, <1>2, <1>3, <1>4, TypedKept DEF Typed, TypeOK, callVars

LEMMA MeddleTyped ==
    ASSUME Typed, Meddle
    PROVE  Typed'
<1>1. /\ UNCHANGED <<disk, bundle, before, command, phase, pending, exit, commands, now>>
      /\ phase \in {"open", "write"} => built' # {}
  BY DEF Meddle, Change
<1>2. held'.claims \in Records
  <2>1. held'.claims \in Records \/ UNCHANGED held
    <3>1. CASE UNCHANGED held
      BY <3>1
    <3>2. ASSUME NEW r \in Records, held' = [held EXCEPT !.claims = r]
          PROVE  held'.claims \in Records \/ UNCHANGED held
      BY <3>2
    <3> QED  BY <3>1, <3>2 DEF Meddle
  <2> QED  BY <2>1 DEF Typed, TypeOK
<1>3. Target' = Target
  BY <1>1 DEF Target, Present
<1>4. Files'
  BY <1>1 DEF Typed, Files
<1>5. changes' \in 0..MaxChanges
  BY ChangeCounted DEF Meddle
<1> QED  BY <1>1, <1>2, <1>3, <1>4, <1>5, TypedKept DEF Typed, TypeOK

LEMMA StutteringTyped ==
    ASSUME Typed, UNCHANGED vars
    PROVE  Typed'
<1>1. Target' = Target
  BY DEF vars, callVars, Target, Present
<1> QED  BY <1>1 DEF Typed, TypeOK, Files, vars, worldVars, callVars

LEMMA StepTyped ==
    ASSUME Typed, IInv, [Next]_vars
    PROVE  Typed'
  BY StartTyped, RunLevelsTyped, BuildTyped, OpenTyped, WriteTyped, EndTyped, TickTyped,
     ReplaceRecordTyped, ChangeBundlesTyped, MeddleTyped, StutteringTyped DEF Next, IInv

-----------------------------------------------------------------------------
(***************************************************************************)
(* The run of a command in progress is a run of the shipped checkers.      *)
(***************************************************************************)
Accounted == phase = "run" => Running

(* What the other steps leave alone. *)
LEMMA Elsewhere ==
    ASSUME \/ Build \/ Open \/ Write \/ Gate \/ ReplaceRecord \/ ChangeBundles \/ Meddle
           \/ UNCHANGED vars
    PROVE  UNCHANGED <<runVars, now>> /\ (phase' = "run" => phase = "run")
  BY DEF Build, Open, Write, Gate, ReplaceRecord, ChangeBundles, Meddle, Change, EndWith,
         worldVars, callVars, vars

LEMMA AnswerIsOne ==
    ASSUME Typed, NEW m
    PROVE  AnswerTo(m) \in Answers
<1>1. "raises" \in Answers /\ bundle \in Answers
  BY ReportCommandInputs DEF Answers, Typed, TypeOK
<1> QED  BY <1>1 DEF AnswerTo

LEMMA StartRuns ==
    ASSUME Typed, NEW c \in Commands, Start(c), phase' = "run"
    PROVE  /\ Running' /\ DOMAIN done' = {} /\ document' = {}
           /\ held' \in Loaded(disk[RecordPath]) /\ record' = held'.claims
<1>1. /\ held' \in Loaded(disk[RecordPath]) /\ record' = held'.claims
      /\ options' = OptionsOf(c) /\ now' = now
      /\ done' = [cell \in {} |-> <<>>] /\ outcome' = "running" /\ document' = {}
  BY DEF Start, EndWith
<1>2. record' \in Records
  BY <1>1, ReportCommandAssumption, LoadedIs DEF Typed, Files
<1>3. options' \in OptionSets
  BY <1>1, ReportCommandInputs
<1>4. now' \in StartTime..MaxTime
  BY <1>1 DEF Typed, TypeOK
<1> QED  BY <1>1, <1>2, <1>3, <1>4, RunningStarts

LEMMA StepAccounted ==
    ASSUME Typed, Accounted, [Next]_vars
    PROVE  Accounted'
<1>1. ASSUME NEW c \in Commands, Start(c) PROVE Accounted'
  BY <1>1, StartRuns DEF Accounted
<1>2. CASE RunLevels
  <2>1. Running /\ ((\E answer \in Answers : Run!RunChecker(answer)) \/ Run!Complete)
    BY <1>2, AnswerIsOne DEF RunLevels, Accounted
  <2> QED  BY <2>1, RunningSteps DEF Accounted
<1>3. CASE Die
  BY <1>3 DEF Die, EndWith, Accounted
<1>4. CASE Tick
  <2>1. UNCHANGED runVars /\ phase' = phase
    BY <1>4 DEF Tick, callVars
  <2> QED  BY <1>4, <2>1, TickTyped, RunningAges DEF Accounted
<1>5. CASE \/ Build \/ Open \/ Write \/ Gate \/ ReplaceRecord \/ ChangeBundles \/ Meddle
           \/ UNCHANGED vars
  <2>1. UNCHANGED <<runVars, now>> /\ (phase' = "run" => phase = "run")
    BY <1>5, Elsewhere
  <2> QED  BY <2>1, RunningSteps DEF Accounted
<1> QED  BY <1>1, <1>2, <1>3, <1>4, <1>5 DEF Next

(***************************************************************************)
(* From a sealed document to exit code 0.                                  *)
(***************************************************************************)
(* A record with any mark of an envelope runs as an envelope. *)
Marked ==
    /\ "from" \in DOMAIN held
    /\ phase = "run" \/ Writing \/ exit = 0 =>
         (Marks(held.from) => record.format = "cmcp-runtime")

(* What the document says of the record stays true: the record it was      *)
(* checked as is kept, and the clock only makes it older.                  *)
Judged == phase # "run" => \A d \in document : Evidence(d)

(* The gate has read the sealed levels. *)
Gated == exit = 0 =>
           \A n \in command.failUnder : \E d \in document : \E l \in Levels :
             l >= n /\ Run!Passed(d, l)

LEMMA EvidenceStays ==
    ASSUME NEW m \in 0..2, Run!LevelEvidence(m), UNCHANGED <<record, options>>,
           record \in Record, now \in Int, now' \in Int, now <= now'
    PROVE  Run!LevelEvidence(m)'
<1>1. Run!SignatureChecked' <=> Run!SignatureChecked
  BY DEF Run!SignatureChecked
<1>2. CASE m = 0
  <2>1. Run!LevelZeroEvidence
    BY <1>2 DEF Run!LevelEvidence
  <2>2. Run!Fresh(record.iat)'
    <3>1. Run!Fresh(record.iat)
      BY <2>1 DEF Run!LevelZeroEvidence
    <3>2. StartTime..now \subseteq StartTime..now'
      BY ReportCommandTables
    <3> QED  BY <3>1, <3>2 DEF Run!Fresh
  <2>3. record.timestamp = Run!NoTime
          \/ (record.timestamp # Run!BadTime /\ record.timestamp <= now' + Skew)
    <3>1. record.timestamp = Run!NoTime
            \/ (record.timestamp # Run!BadTime /\ record.timestamp <= now + Skew)
      BY <2>1 DEF Run!LevelZeroEvidence
    <3>2. record.timestamp \in Int /\ Skew \in Int
      BY ReportCommandTables DEF Record
    <3>3. record.timestamp <= now + Skew => record.timestamp <= now' + Skew
      BY <3>2
    <3> QED  BY <3>1, <3>3
  <2>4. Run!LevelZeroEvidence'
    BY <1>1, <2>1, <2>2, <2>3 DEF Run!LevelZeroEvidence
  <2> QED  BY <1>2, <2>4 DEF Run!LevelEvidence
<1>3. CASE m = 1
  BY <1>1, <1>3 DEF Run!LevelEvidence, Run!LevelOneEvidence
<1>4. CASE m = 2
  BY <1>4 DEF Run!LevelEvidence, Run!LevelTwoEvidence
<1> QED  BY <1>2, <1>3, <1>4

LEMMA DocumentStays ==
    ASSUME \A d \in document : Evidence(d), UNCHANGED <<record, options, document>>,
           now \in Int, now' \in Int, now <= now'
    PROVE  \A d \in document' : Evidence(d)'
<1> SUFFICES ASSUME NEW d \in document PROVE Evidence(d)'
  OBVIOUS
<1>1. Levels' = Levels /\ \A l : Run!Passed(d, l)' <=> Run!Passed(d, l)
  BY DEF Run!Passed
<1>2. \A l \in Levels : 0..l \subseteq 0..2
  BY ReportCommandTables DEF Levels, Run!Levels
<1> QED  BY <1>1, <1>2, EvidenceStays DEF Evidence

LEMMA StepJudged ==
    ASSUME Typed, Accounted, Judged, [Next]_vars
    PROVE  Judged'
<1>1. now \in Int
  BY ReportCommandTables DEF Typed, TypeOK
<1>2. \A d \in document : Evidence(d)
  BY EvidenceOfRun DEF Accounted, Judged
<1>3. ASSUME UNCHANGED <<record, options, document, now>> PROVE Judged'
  BY <1>1, <1>2, <1>3, DocumentStays DEF Judged
<1>4. ASSUME NEW c \in Commands, Start(c) PROVE Judged'
  <2>1. phase' = "run" \/ UNCHANGED <<runVars, now>>
    BY <1>4 DEF Start
  <2> QED  BY <1>3, <2>1 DEF Judged, runVars
<1>5. CASE RunLevels
  BY <1>5 DEF RunLevels, callVars, Judged
<1>6. CASE Die
  BY <1>3, <1>6 DEF Die, worldVars
<1>7. CASE Tick
  <2>1. UNCHANGED runVars
    BY <1>7 DEF Tick
  <2> QED  BY <1>1, <1>2, <1>7, <2>1, TickTyped, DocumentStays DEF Judged, runVars
<1>8. CASE \/ Build \/ Open \/ Write \/ Gate \/ ReplaceRecord \/ ChangeBundles \/ Meddle
           \/ UNCHANGED vars
  BY <1>3, <1>8, Elsewhere DEF runVars
<1> QED  BY <1>4, <1>5, <1>6, <1>7, <1>8 DEF Next

LEMMA StepMarked ==
    ASSUME Typed, IInv, Marked, [Next]_vars
    PROVE  Marked'
<1>1. ASSUME NEW c \in Commands, Start(c) PROVE Marked'
  <2>1. phase' = "run" \/ (phase' = "ended" /\ exit' # 0 /\ UNCHANGED held)
    BY <1>1 DEF Start, EndWith
  <2>2. CASE phase' = "run"
    <3>1. held' \in Loaded(disk[RecordPath]) /\ record' = held'.claims
      BY <1>1, <2>2, StartRuns
    <3>2. "from" \in DOMAIN held' /\ (Marks(held'.from) => record'.format = "cmcp-runtime")
      BY <3>1, ReportCommandAssumption, LoadedIs DEF Typed, Files
    <3> QED  BY <3>2 DEF Marked, Marks
  <2>3. CASE phase' = "ended" /\ exit' # 0 /\ UNCHANGED held
    BY <2>3 DEF Marked, Writing
  <2> QED  BY <2>1, <2>2, <2>3
<1>2. ASSUME UNCHANGED record, held'.from = held.from, DOMAIN held' = DOMAIN held,
             phase' = "run" \/ Writing' \/ exit' = 0 => phase = "run" \/ Writing \/ exit = 0
      PROVE  Marked'
  BY <1>2 DEF Marked, Marks
<1>3. CASE RunLevels \/ Tick
  BY <1>2, <1>3 DEF RunLevels, Run!RunChecker, Run!Complete, Tick, runVars, callVars, Writing
<1>4. CASE Build \/ Open \/ Write \/ Gate \/ Die
  BY <1>2, <1>4 DEF Build, Open, Write, Gate, Die, EndWith, runVars, Writing, Killed
<1>5. CASE ReplaceRecord \/ ChangeBundles \/ UNCHANGED vars
  BY <1>2, <1>5 DEF ReplaceRecord, ChangeBundles, Change, vars, runVars, callVars, Writing
<1>6. CASE Meddle
  <2>1. held'.from = held.from /\ DOMAIN held' = DOMAIN held
    BY <1>6 DEF Meddle, Marked
  <2> QED  BY <1>2, <1>6, <2>1 DEF Meddle, Change, runVars, Writing
<1> QED  BY <1>1, <1>3, <1>4, <1>5, <1>6 DEF Next

LEMMA StepGated ==
    ASSUME Typed, IInv, Judged, Gated, [Next]_vars
    PROVE  Gated'
<1>1. ASSUME exit = 0, exit' = 0, UNCHANGED <<command, document>> PROVE Gated'
  BY <1>1 DEF Gated, Run!Passed
<1>2. exit = 0 => phase = "ended"
  BY DEF IInv, Orders
<1>3. ASSUME NEW c \in Commands, Start(c) PROVE Gated'
  BY <1>3 DEF Start, EndWith, Gated, NotEnded
<1>4. CASE RunLevels \/ Die \/ Build \/ Open \/ Write
  BY <1>2, <1>4 DEF RunLevels, Die, Build, Open, Write, EndWith, callVars, Gated, Killed
<1>5. CASE Gate
  <2>1. UNCHANGED <<runVars, command>> /\ phase = "open"
    BY <1>5 DEF Gate
  <2>2. PICK report \in built :
          exit' = 0 => \A n \in command.failUnder : ~(HighestLevel(ViewOf(report).levels) < n)
    BY <1>5 DEF Gate, EndWith
  <2>3. PICK d \in document : ViewOf(report) = Story(d)
    BY DEF IInv, Sources
  <2> DEFINE outcomes == LevelOutcomes(d.tallies)
  <2>4. ViewOf(report).levels = outcomes
    BY <2>3 DEF Story
  <2>5. DOMAIN d.tallies = Levels
    BY <2>1 DEF Judged, Evidence
  <2>6. DOMAIN outcomes = Levels /\ \A l \in Levels : outcomes[l].passed <=> Run!Passed(d, l)
    BY <2>5 DEF LevelOutcomes, Run!Passed
  <2>7. command.failUnder \subseteq Nat
    BY ReportCommandInputs DEF Typed, TypeOK
  <2>8. ASSUME exit' = 0, NEW n \in command.failUnder
        PROVE  \E l \in Levels : l >= n /\ Run!Passed(d, l)
    <3> HIDE DEF outcomes
    <3> QED  BY <2>2, <2>4, <2>6, <2>7, <2>8, HighestPassed
  <2>9. \A l : Run!Passed(d, l)' <=> Run!Passed(d, l)
    BY DEF Run!Passed
  <2> QED  BY <2>1, <2>8, <2>9 DEF Gated, runVars
<1>6. CASE Tick \/ ReplaceRecord \/ ChangeBundles \/ Meddle \/ UNCHANGED vars
  <2>1. UNCHANGED <<command, document, exit>>
    BY <1>6 DEF Tick, ReplaceRecord, ChangeBundles, Meddle, Change, vars, runVars, callVars
  <2> QED  BY <1>1, <2>1 DEF Gated
<1> QED  BY <1>3, <1>4, <1>5, <1>6 DEF Next

(***************************************************************************)
(* The report and `verify': what a command in progress computed with a     *)
(* world that stood still can be computed again.                           *)
(***************************************************************************)
(* What the checker of a module finds, at a level, in the world as it is. *)
Found(m, l) == FindingsOf(m, record, options, l, now, bundle)

Silent(findings, l) ==
    \A p \in DOMAIN findings : ~CountsAsLevelFailure(Run!StartPolicy, findings[p], l)

Steady ==
    still /\ phase = "run" =>
      \A cell \in DOMAIN done : done[cell].findings = Found(cell[2], cell[1])

Repeatable ==
    still /\ phase # "run" /\ built # {} =>
      \A d \in document : \A l \in Levels :
        Run!Passed(d, l) <=> \A i \in DOMAIN LevelModules[l + 1] :
                               Silent(Found(LevelModules[l + 1][i], l), l)

(* A resolver that is not asked makes no difference. *)
LEMMA AnswerUnasked ==
    ASSUME NEW r \in Record, NEW o, ~AsksResolver(r, o), NEW m, NEW l, NEW t, NEW a, NEW b
    PROVE  FindingsOf(m, r, o, l, t, a) = FindingsOf(m, r, o, l, t, b)
<1>1. /\ r.policy \in {"missing", "not object", "object"}
      /\ r.policy_uri \in {"absent", "null", "non string", "malformed", "absolute"}
      /\ r.bundle_hash \in {"malformed", "digest"}
  BY DEF Record
<1>2. PolBranch(r, o, a) = PolBranch(r, o, b)
  BY <1>1 DEF PolBranch, AsksResolver
<1> QED  BY <1>2 DEF FindingsOf

LEMMA CellFound ==
    ASSUME Typed, Running, NEW m, NEW l
    PROVE  FindingsOf(m, record, options, l, now, AnswerTo(m)) = Found(m, l)
<1>1. record \in Record
  BY RunAssumptions, ReportCommandTables DEF Running, P!TypeOK
<1>2. CASE m = "TR-POL" /\ AsksResolver(record, options)
  BY <1>2 DEF AnswerTo, Found
<1>3. CASE ~AsksResolver(record, options)
  BY <1>1, <1>3, AnswerUnasked DEF Found
<1>4. CASE m # "TR-POL"
  BY <1>4 DEF FindingsOf, Found
<1> QED  BY <1>2, <1>3, <1>4

LEMMA RunLevelsSteady ==
    ASSUME Typed, Accounted, Steady, RunLevels
    PROVE  Steady'
<1>1. Running /\ phase = "run" /\ UNCHANGED <<still, phase, now, bundle>>
  BY DEF RunLevels, worldVars, callVars, Accounted
<1> DEFINE cell == Run!Plan[Cardinality(DOMAIN done) + 1]
           answer == AnswerTo(cell[2])
<1>2. CASE Run!RunChecker(answer)
  <2>1. /\ DOMAIN done' = DOMAIN done \cup {cell}
        /\ \A c \in DOMAIN done : done'[c] = done[c]
        /\ done'[cell] = P!Result(cell, now, answer)
    <3>1. answer \in P!Answers /\ P!RunChecker(answer)
      BY <1>2, SameRunChecker, SameWords, AnswerIsOne
    <3>2. P!Plan[P!Cardinality(DOMAIN done) + 1] = cell
      BY SameWords DEF P!Cardinality, Cardinality
    <3> QED  BY <1>1, <3>1, <3>2, RunAssumptions, P!RunCheckerStep DEF Running
  <2>2. UNCHANGED <<record, options>>
    BY <1>2 DEF Run!RunChecker
  <2>3. done'[cell].findings = FindingsOf(cell[2], record, options, cell[1], now, answer)
    BY <2>1, SameFindings DEF P!Result
  <2>4. done'[cell].findings = Found(cell[2], cell[1])
    BY <1>1, <2>3, CellFound
  <2> HIDE DEF cell, answer
  <2> QED  BY <1>1, <2>1, <2>2, <2>4 DEF Steady, Found
<1>3. CASE Run!Complete
  <2>1. UNCHANGED <<record, options>> /\ (UNCHANGED done \/ DOMAIN done' = {})
    BY <1>3 DEF Run!Complete
  <2> QED  BY <1>1, <2>1 DEF Steady, Found
<1> QED  BY <1>2, <1>3 DEF RunLevels

LEMMA StepSteady ==
    ASSUME Typed, Accounted, Steady, [Next]_vars
    PROVE  Steady'
<1>1. ASSUME UNCHANGED <<still, record, options, now, bundle, done>>,
             phase' = "run" => phase = "run"
      PROVE  Steady'
  BY <1>1 DEF Steady, Found
<1>2. ASSUME NEW c \in Commands, Start(c) PROVE Steady'
  BY <1>2, StartRuns DEF Steady
<1>3. CASE RunLevels
  BY <1>3, RunLevelsSteady
<1>4. CASE Die
  BY <1>4 DEF Die, EndWith, Steady
<1>5. CASE Tick \/ ReplaceRecord \/ ChangeBundles
  BY <1>5 DEF Tick, ReplaceRecord, ChangeBundles, Steady
<1>6. CASE Build \/ Open \/ Write \/ Gate \/ Meddle \/ UNCHANGED vars
  <2>1. UNCHANGED <<runVars, now>> /\ (phase' = "run" => phase = "run")
    BY <1>6, Elsewhere
  <2>2. UNCHANGED <<still, bundle>>
    BY <1>6 DEF Build, Open, Write, Gate, Meddle, vars, worldVars
  <2> QED  BY <1>1, <2>1, <2>2 DEF runVars
<1> QED  BY <1>2, <1>3, <1>4, <1>5, <1>6 DEF Next

LEMMA BuildRepeatable ==
    ASSUME Typed, Accounted, Steady, still, phase = "run", NEW d \in document, NEW l \in Levels
    PROVE  Run!Passed(d, l) <=> \A i \in DOMAIN LevelModules[l + 1] :
                                  Silent(Found(LevelModules[l + 1][i], l), l)
<1>1. Running /\ l \in P!Levels
  BY SameWords DEF Accounted
<1>2. P!Finished
  BY <1>1, RunAssumptions, P!DocumentAtEnd DEF Running
<1>3. ASSUME NEW m \in P!AllModules, <<l, m>> \in P!Cells
      PROVE  P!Clean(done[<<l, m>>].findings, l) <=> Silent(Found(m, l), l)
  <2>1. <<l, m>> \in DOMAIN done
    BY <1>2, <1>3 DEF P!Finished
  <2>2. done[<<l, m>>].findings = Found(m, l)
    BY <2>1 DEF Steady
  <2> QED  BY <2>2, SameWords DEF P!Clean, Silent
<1>4. Run!Passed(d, l) <=> \A m \in P!AllModules :
                             <<l, m>> \in P!Cells => P!Clean(done[<<l, m>>].findings, l)
  BY <1>1, RunAssumptions, P!PassedIffClean, SameWords DEF Running
<1>5. /\ \A i \in DOMAIN LevelModules[l + 1] : /\ LevelModules[l + 1][i] \in P!AllModules
                                               /\ <<l, LevelModules[l + 1][i]>> \in P!Cells
      /\ \A m \in P!AllModules : <<l, m>> \in P!Cells =>
           \E i \in DOMAIN LevelModules[l + 1] : LevelModules[l + 1][i] = m
  <2>1. /\ DOMAIN P!LevelModules[l + 1] = 1..P!Size(l)
        /\ \A i \in 1..P!Size(l) : /\ P!LevelModules[l + 1][i] \in P!AllModules
                                   /\ <<l, P!LevelModules[l + 1][i]>> \in P!Cells
        /\ \A m \in P!AllModules : <<l, m>> \in P!Cells =>
             \E i \in 1..P!Size(l) : P!LevelModules[l + 1][i] = m
    BY <1>1, RunAssumptions, P!LevelScheduled, Zenon
  <2>2. P!LevelModules = LevelModules
    BY SameWords
  <2> QED  BY <2>1, <2>2
<1> QED  BY <1>3, <1>4, <1>5

LEMMA StepRepeatable ==
    ASSUME Typed, IInv, Accounted, Steady, Repeatable, [Next]_vars
    PROVE  Repeatable'
<1>1. ASSUME UNCHANGED <<still, record, options, now, bundle, document>>,
             phase # "run", built' # {} => built # {}
      PROVE  Repeatable'
  BY <1>1 DEF Repeatable, Found, Silent, Run!Passed
<1>2. ASSUME NEW c \in Commands, Start(c) PROVE Repeatable'
  BY <1>2 DEF Start, Repeatable
<1>3. CASE RunLevels
  BY <1>3 DEF RunLevels, callVars, Repeatable
<1>4. CASE Build
  <2>1. UNCHANGED <<still, record, options, now, bundle, document>> /\ phase = "run"
    BY <1>4 DEF Build, runVars, worldVars
  <2> QED  BY <2>1, BuildRepeatable DEF Repeatable, Found, Silent, Run!Passed
<1>5. CASE Open \/ Write \/ Gate \/ Die
  <2>1. /\ UNCHANGED <<still, record, options, now, bundle, document, built>>
        /\ phase = "run" => Die
    BY <1>5 DEF Open, Write, Gate, Die, runVars, worldVars
  <2>2. CASE phase = "run"
    <3>1. built = {}
      BY <2>2 DEF IInv, Workspace
    <3> QED  BY <2>1, <3>1 DEF Repeatable
  <2> QED  BY <1>1, <2>1, <2>2
<1>6. CASE Tick \/ ReplaceRecord \/ ChangeBundles
  BY <1>6 DEF Tick, ReplaceRecord, ChangeBundles, Repeatable
<1>7. CASE Meddle \/ UNCHANGED vars
  <2>1. /\ UNCHANGED <<still, record, options, now, bundle, document, phase>>
        /\ built' # {} => built # {}
    BY <1>7 DEF Meddle, Change, vars, runVars, worldVars, callVars
  <2> QED  BY <1>1, <2>1 DEF Repeatable
<1> QED  BY <1>2, <1>3, <1>4, <1>5, <1>6, <1>7 DEF Next

(* verify ends with 0 if no checker of the level finds anything that counts. *)
LEMMA VerifyExitIs ==
    ASSUME NEW e \in Loaded(disk[RecordPath]), \A f \in Loaded(disk[RecordPath]) : f = e,
           AsInput(disk[RecordPath]).json = "object", e.claims = record, NEW l
    PROVE  VerifyExit(l, options) = 0 <=>
             \A i \in DOMAIN LevelModules[l + 1] : Silent(Found(LevelModules[l + 1][i], l), l)
<1> DEFINE modules == LevelModules[l + 1]
           lists(r) == {FindingsOf(modules[i], r, options, l, now, bundle) : i \in DOMAIN modules}
           all(r) == UNION {{found[p] : p \in DOMAIN found} : found \in lists(r)}
<1>1. LoadRecord(disk[RecordPath]) = "loads"
  BY DEF LoadRecord
<1>2. (CHOOSE f \in Loaded(disk[RecordPath]) : TRUE) = e
  OBVIOUS
<1>3. VerifyExit(l, options) = ExitOfFindings(l, all(record))
  BY <1>1, <1>2, Zenon DEF VerifyExit
<1>4. ExitOfFindings(l, all(record)) = 0 <=>
        \A f \in all(record) : ~CountsAsLevelFailure(Run!StartPolicy, f, l)
  BY DEF ExitOfFindings
<1>5. \A f : f \in all(record) <=>
        \E i \in DOMAIN modules : \E p \in DOMAIN Found(modules[i], l) : f = Found(modules[i], l)[p]
  BY DEF Found
<1> QED
  <2> HIDE DEF modules, all
  <2>1. (\A f \in all(record) : ~CountsAsLevelFailure(Run!StartPolicy, f, l))
          <=> \A i \in DOMAIN modules : Silent(Found(modules[i], l), l)
    BY <1>5 DEF Silent
  <2> QED  BY <1>3, <1>4, <2>1 DEF modules

-----------------------------------------------------------------------------
Reported == Typed /\ Accounted /\ Marked /\ Judged /\ Gated /\ Steady /\ Repeatable

LEMMA InitReported == Init => Reported
<1> SUFFICES ASSUME Init PROVE Reported
  OBVIOUS
<1>1. Accounted /\ Marked /\ Judged /\ Gated /\ Steady /\ Repeatable
  BY DEF Init, Accounted, Marked, Writing, Judged, Gated, Steady, Repeatable, NotEnded
<1> QED  BY <1>1, InitTyped DEF Reported

LEMMA ReportInvariance == Spec => [](IInv /\ Reported)
<1>1. IInv /\ Reported /\ [Next]_vars => Reported'
  BY StepTyped, StepAccounted, StepMarked, StepJudged, StepGated, StepSteady, StepRepeatable
  DEF Reported
<1> QED  BY InitReported, Invariance, <1>1, PTL DEF Spec

(* The workspace, the command and the bounds are what they should be, and  *)
(* the file in hand of a command that writes is cut off.                   *)
THEOREM TypeCorrect == Spec => []TypeOK
<1>1. Reported => TypeOK
  BY DEF Reported, Typed
<1> QED  BY <1>1, ReportInvariance, PTL

(* --fail-under n with exit code 0 means all that the checkers ask of a    *)
(* record and of the caller's options up to Level n (PilotRun's            *)
(* LevelEvidence), through loader, checkers, accounting, report and gate,  *)
(* however often the clock, the bundles, the record file and the caller's  *)
(* lists changed meanwhile; and a record with any mark of an envelope had  *)
(* a valid signature.                                                      *)
THEOREM GateIsEvidence == Spec => []GateMeansEvidence
<1>1. IInv /\ Reported => GateMeansEvidence
  <2> SUFFICES ASSUME IInv, Reported, exit = 0, NEW n \in command.failUnder
               PROVE  /\ \E l \in Levels : l >= n /\ \A m \in 0..l : Run!LevelEvidence(m)
                      /\ Marks(held.from) => Run!SignatureChecked
    BY DEF GateMeansEvidence, Marks
  <2>1. PICK d \in document, l \in Levels : l >= n /\ Run!Passed(d, l)
    BY DEF Reported, Gated
  <2>2. phase = "ended"
    BY DEF IInv, Orders
  <2>3. \A m \in 0..l : Run!LevelEvidence(m)
    BY <2>1, <2>2 DEF Reported, Judged, Evidence
  <2>4. 0 \in 0..l
    BY ReportCommandTables DEF Levels, Run!Levels
  <2>5. Run!SignatureChecked \/ record.format = "trace"
    <3>1. Run!LevelEvidence(0)
      BY <2>3, <2>4
    <3>2. Run!LevelZeroEvidence
      BY <3>1 DEF Run!LevelEvidence
    <3> QED  BY <3>2, Zenon DEF Run!LevelZeroEvidence
  <2>6. Marks(held.from) => record.format = "cmcp-runtime"
    BY DEF Reported, Marked
  <2> QED  BY <2>1, <2>3, <2>5, <2>6
<1> QED  BY <1>1, ReportInvariance, PTL

(* As long as nothing changed, `verify' with the options of the report     *)
(* says of every level what the report says: the public runner's findings  *)
(* and the accounted run's tallies, by two pieces of code.                 *)
THEOREM VerifyAgrees == Spec => []SameOptionsReproduce
<1>1. Reported => SameOptionsReproduce
  <2> SUFFICES ASSUME Reported, still, phase = "ended", built # {},
                      NEW d \in document, NEW l \in Levels,
                      NEW e \in Loaded(disk[RecordPath]), e.claims = record
               PROVE  VerifyExit(l, options) = 0 <=> Run!Passed(d, l)
    BY DEF SameOptionsReproduce
  <2>1. /\ AsInput(disk[RecordPath]).json = "object"
        /\ \A f \in Loaded(disk[RecordPath]) : f = e
    BY ReportCommandAssumption, LoadedIs DEF Reported, Typed, Files
  <2>2. Run!Passed(d, l) <=> \A i \in DOMAIN LevelModules[l + 1] :
                               Silent(Found(LevelModules[l + 1][i], l), l)
    BY DEF Reported, Repeatable
  <2> QED  BY <2>1, <2>2, VerifyExitIs
<1> QED  BY <1>1, ReportInvariance, PTL
=============================================================================
