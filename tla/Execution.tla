----------------------------- MODULE Execution ------------------------------
(***************************************************************************)
(* One accounted execution: runner._run_levels driving the capture of      *)
(* src/trace_tests/accounting.py over arbitrary checkers.                  *)
(*                                                                         *)
(* Findings are mutable objects, results are mutable lists, and the        *)
(* contribution policy is a mutable module-level table.  While a checker   *)
(* runs, its code and the caller callback it calls (the policy resolver)   *)
(* may build findings, record facts about them, change any finding it can  *)
(* reach, change a list that was already returned, and change the live     *)
(* policy.  Another thread may change the live policy at any moment.  The  *)
(* capture answers with identity checks and witnesses, and publishes one   *)
(* sealed document or nothing.                                             *)
(*                                                                         *)
(* The runner shares one thing with other threads, the live policy, and    *)
(* reads it twice: when the capture freezes it and when it compares the    *)
(* two at the end.  Each read is a step of its own.  What the runner does  *)
(* between two reads touches only what the run itself holds, and is one    *)
(* step.                                                                   *)
(*                                                                         *)
(* A private accounting function that raises inside a checker changes no   *)
(* state; the checker either lets the exception through (CheckerRaises) or *)
(* swallows it, as tr_pol does with its resolver's.                        *)
(***************************************************************************)
EXTENDS Obligations

CONSTANTS MaxLevel,      \* the levels attempted are 0..MaxLevel
          Plan,          \* planned_schedule: the cells <<level, module>>, in order
          CoreOrder,     \* the order in which _run_core tests its modules
          NoModule,      \* current_module is None
          FindingValues, \* the findings the checker of each module may build
          StartPolicy,   \* the contribution policy at the start
          OtherPolicies, \* what the live policy may be changed to
          MaxFindings,   \* bound: finding objects in a run
          MaxFacts,      \* bound: facts recorded for one cell
          MaxReturned,   \* bound: length of a returned list
          MaxTamper      \* bound: changes to findings, lists and the live policy

Levels == 0..MaxLevel

NoLevel == -1

(* Where the run is once its levels are over: _complete_execution has not  *)
(* started, or has compared the policies and goes on.                      *)
LevelsOver == MaxLevel + 1

PolicyHeld == MaxLevel + 2

Cells == Levels \X Modules

Active(level) == {m \in Modules : \E i \in DOMAIN Plan : Plan[i] = <<level, m>>}

ASSUME ExecutionAssumption ==
    /\ MaxLevel \in 0..2
    /\ Plan \in Seq(Cells)
    /\ CoreOrder \in [Modules -> Nat]
    /\ NoModule \notin Modules
    /\ FindingValues \in [Modules -> SUBSET Finding]
    /\ \A p \in OtherPolicies \cup {StartPolicy} : IsPolicy(p)
    /\ {MaxFindings, MaxFacts, MaxReturned, MaxTamper} \subseteq Nat

VARIABLES
    outcome,        \* "running", "completed", or the error that ended the run
    loop,           \* the level _run_levels is at, or LevelsOver, or PolicyHeld
    currentLevel,   \* capture.current_level
    currentModule,  \* capture.current_module
    actual,         \* capture.actual_schedule
    producers,      \* capture.producers, by cell
    returned,       \* capture.returned: witnesses of what each cell returned
    lists,          \* results: the list object each cell returned, as ids
    heap,           \* the finding objects; an id is a position here
    live,           \* the module-level contribution policy
    frozen,         \* capture.contribution_policy
    document,       \* the sealed payload, once there is one
    tampered        \* how many changes were made so far (bound only)

capture == <<currentLevel, currentModule, actual, producers, returned>>

vars == <<outcome, loop, currentLevel, currentModule, actual, producers, returned,
          lists, heap, live, frozen, document, tampered>>

Ids == DOMAIN heap

AnyFinding == UNION {FindingValues[m] : m \in Modules}

Here == <<currentLevel, currentModule>>

SealOf(id) == [id |-> id, code |-> heap[id].code, status |-> heap[id].status,
               text |-> heap[id].text]

Init ==
    /\ outcome = "running"
    /\ loop = 0
    /\ currentLevel = NoLevel
    /\ currentModule = NoModule
    /\ actual = <<>>
    /\ producers = [cell \in Cells |-> <<>>]
    /\ returned = [cell \in {} |-> <<>>]
    /\ lists = [cell \in {} |-> <<>>]
    /\ heap = <<>>
    /\ live = StartPolicy
    /\ frozen = StartPolicy
    /\ document = {}
    /\ tampered = 0

(* An exception leaves _run_levels: the capture, the result lists and the  *)
(* findings go out of scope with it, and nothing is published.             *)
Reject(why) ==
    /\ outcome' = why
    /\ loop' = 0
    /\ currentLevel' = NoLevel
    /\ currentModule' = NoModule
    /\ actual' = <<>>
    /\ producers' = [cell \in Cells |-> <<>>]
    /\ returned' = [cell \in {} |-> <<>>]
    /\ lists' = [cell \in {} |-> <<>>]
    /\ heap' = <<>>
    /\ UNCHANGED <<live, frozen, document, tampered>>

-----------------------------------------------------------------------------
(***************************************************************************)
(* The runner.                                                             *)
(***************************************************************************)
(* Mutant: the level is counted from one, as people count. *)
BeginLevelFromOne ==
    /\ outcome = "running"
    /\ loop \in Levels
    /\ currentLevel = NoLevel
    /\ currentLevel' = loop + 1
    /\ UNCHANGED <<outcome, loop, currentModule, actual, producers, returned, lists,
                   heap, live, frozen, document, tampered>>

BeginLevel ==
    /\ outcome = "running"
    /\ loop \in Levels
    /\ currentLevel = NoLevel
    /\ currentLevel' = loop
    /\ UNCHANGED <<outcome, loop, currentModule, actual, producers, returned, lists,
                   heap, live, frozen, document, tampered>>

(* Mutant: the if-chain is in no particular order. *)
CoreNextUnordered(m) ==
    /\ m \in Active(currentLevel)
    /\ <<currentLevel, m>> \notin DOMAIN lists

(* The next module whose turn it is in the if-chain of _run_core. *)
CoreNext(m) ==
    /\ m \in Active(currentLevel)
    /\ <<currentLevel, m>> \notin DOMAIN lists
    /\ \A n \in Active(currentLevel) :
         CoreOrder[n] < CoreOrder[m] => <<currentLevel, n>> \in DOMAIN lists

(* _invoke up to the checker call. *)
Invoke(m) ==
    /\ outcome = "running"
    /\ currentLevel # NoLevel
    /\ currentModule = NoModule
    /\ CoreNext(m)
    /\ \/ /\ Len(actual) < Len(Plan)
          /\ Plan[Len(actual) + 1] = <<currentLevel, m>>
          /\ actual' = Append(actual, <<currentLevel, m>>)
          /\ currentModule' = m
          /\ UNCHANGED <<outcome, loop, currentLevel, producers, returned, lists, heap,
                         live, frozen, document, tampered>>
       \/ /\ \/ Len(actual) >= Len(Plan)
             \/ Plan[Len(actual) + 1] # <<currentLevel, m>>
          /\ Reject("unexpected cell")

(* Mutant: _validate_returned looks for what was earned, and not for what   *)
(* was not.                                                                *)
EarnedAreReturned(module, facts, list) ==
    \A i \in DOMAIN facts : \A w \in facts[i].earned :
      /\ OnlyOne({p \in DOMAIN list : list[p] = w.id})
      /\ w = SealOf(w.id)

(* Mutant: _validate_returned compares identities and trusts the contents. *)
SameObjectsReturned(module, facts, list) ==
    LET observed == {i \in DOMAIN facts : facts[i].earned # {}}
        pilot    == {p \in DOMAIN list : heap[list[p]].code \in PilotCode(module)}
    IN  \E match \in InOrder(observed, pilot) : \A i \in observed :
          \A w \in facts[i].earned : list[match[i]] = w.id

(* Every earned finding is in the list exactly once and unchanged, and the *)
(* list's findings under the pilot code are the earned ones, in order.     *)
ReturnedAsEarned(module, facts, list) ==
    LET earnedAt == {i \in DOMAIN facts : facts[i].earned # {}}
        observed == {i \in earnedAt : \E w \in facts[i].earned : w.code \in PilotCode(module)}
        pilot    == {p \in DOMAIN list : heap[list[p]].code \in PilotCode(module)}
    IN  /\ \A i \in earnedAt : \A w \in facts[i].earned :
             /\ OnlyOne({p \in DOMAIN list : list[p] = w.id})
             /\ w = SealOf(w.id)
        /\ PilotCode(module) # {} =>
             \E match \in InOrder(observed, pilot) : \A i \in observed :
               \A w \in facts[i].earned : list[match[i]] = w.id

(* Mutant: current_module is cleared only if the checker raised. *)
CheckerReturnsStaysCurrent(list) ==
    /\ outcome = "running"
    /\ currentModule # NoModule
    /\ ReturnedAsEarned(currentModule, producers[Here], list)
    /\ returned' = [cell \in DOMAIN returned \cup {Here} |->
                      IF cell = Here THEN [p \in DOMAIN list |-> SealOf(list[p])]
                      ELSE returned[cell]]
    /\ lists' = [cell \in DOMAIN lists \cup {Here} |->
                      IF cell = Here THEN list ELSE lists[cell]]
    /\ UNCHANGED <<outcome, loop, currentLevel, currentModule, actual, producers, heap,
                   live, frozen, document, tampered>>

(* _invoke once the checker returned `list'. *)
CheckerReturns(list) ==
    /\ outcome = "running"
    /\ currentModule # NoModule
    /\ \/ /\ ReturnedAsEarned(currentModule, producers[Here], list)
          /\ currentModule' = NoModule
          /\ returned' = [cell \in DOMAIN returned \cup {Here} |->
                            IF cell = Here THEN [p \in DOMAIN list |-> SealOf(list[p])]
                            ELSE returned[cell]]
          /\ lists' = [cell \in DOMAIN lists \cup {Here} |->
                            IF cell = Here THEN list ELSE lists[cell]]
          /\ UNCHANGED <<outcome, loop, currentLevel, actual, producers, heap, live,
                         frozen, document, tampered>>
       \/ /\ ~ReturnedAsEarned(currentModule, producers[Here], list)
          /\ Reject("not as earned")

CheckerRaises ==
    /\ outcome = "running"
    /\ currentModule # NoModule
    /\ Reject("checker raised")

At(cells, level) == {i \in DOMAIN cells : cells[i][1] = level}

(* The cells of the level that ran are the planned ones, in order.         *)
RanAsPlanned(level) ==
    \E match \in InOrder(At(actual, level), At(Plan, level)) :
      \A i \in At(actual, level) : actual[i] = Plan[match[i]]

SchedulerBranches(module) ==
    {b \in Branches : /\ <<module, b>> \in DOMAIN Rule
                      /\ Rule[<<module, b>>].role = "scheduler_nonexecution"}

(* The fact _end_level writes for an owner the level does not schedule.    *)
SchedulerFact(module) ==
    [branch |-> CHOOSE b \in SchedulerBranches(module) : TRUE, earned |-> {}, counts |-> {}]

(* _end_level: the level ran as planned, and every obligation whose owner  *)
(* is not scheduled at it gets its scheduler fact.                         *)
EndLevel ==
    /\ outcome = "running"
    /\ currentLevel # NoLevel
    /\ currentLevel = loop
    /\ currentModule = NoModule
    /\ \A m \in Active(currentLevel) : <<currentLevel, m>> \in DOMAIN lists
    /\ LET idle == {m \in {Owner[k] : k \in Keys} : m \notin Active(currentLevel)} IN
       \/ /\ RanAsPlanned(currentLevel)
          /\ \A m \in idle : OnlyOne(SchedulerBranches(m))
          /\ producers' = [cell \in Cells |->
                 IF cell[1] = currentLevel /\ cell[2] \in idle
                 THEN Append(producers[cell], SchedulerFact(cell[2]))
                 ELSE producers[cell]]
          /\ currentLevel' = NoLevel
          /\ loop' = loop + 1
          /\ UNCHANGED <<outcome, currentModule, actual, returned, lists, heap, live,
                         frozen, document, tampered>>
       \/ /\ \/ ~RanAsPlanned(currentLevel)
             \/ \E m \in idle : ~OnlyOne(SchedulerBranches(m))
          /\ Reject("level not as planned")

(* Mutant: the final validation asks only that every cell ran. *)
FinalResultsArePresent == DOMAIN lists = {Plan[i] : i \in DOMAIN Plan}

(* _validate_final_results: every list still holds what it was returned with. *)
FinalResultsHold ==
    /\ DOMAIN lists = {Plan[i] : i \in DOMAIN Plan}
    /\ \A cell \in DOMAIN lists :
         /\ ReturnedAsEarned(cell[2], producers[cell], lists[cell])
         /\ returned[cell] = [p \in DOMAIN lists[cell] |-> SealOf(lists[cell][p])]

(* The first statement of _complete_execution: the live policy is compared *)
(* with the frozen one, and never looked at again.                         *)
CheckPolicy ==
    /\ outcome = "running"
    /\ loop = LevelsOver
    /\ \/ /\ live = frozen
          /\ loop' = PolicyHeld
          /\ UNCHANGED <<outcome, capture, lists, heap, live, frozen, document, tampered>>
       \/ /\ live # frozen
          /\ Reject("policy changed")

(* Mutant: contributions are summed up, and the registry written, by the   *)
(* policy module's table instead of the capture's copy.                    *)
PayloadByLivePolicy == Document(Levels, producers, returned, live)

(* The sealed payload. *)
Payload == Document(Levels, producers, returned, frozen)

(* The rest of _complete_execution.                                        *)
Complete ==
    /\ outcome = "running"
    /\ loop = PolicyHeld
    /\ \/ /\ currentLevel # NoLevel \/ actual # Plan
          /\ Reject("schedule not as planned")
       \/ /\ currentLevel = NoLevel /\ actual = Plan
          /\ ~FinalResultsHold
          /\ Reject("findings changed")
       \/ /\ currentLevel = NoLevel /\ actual = Plan
          /\ FinalResultsHold
          /\ ~Projectable(Levels, producers, returned, frozen)
          /\ Reject("not projectable")
       \/ /\ currentLevel = NoLevel /\ actual = Plan
          /\ FinalResultsHold
          /\ Projectable(Levels, producers, returned, frozen)
          /\ document' = {Payload}
          /\ outcome' = "completed"
          /\ UNCHANGED <<loop, capture, lists, heap, live, frozen, tampered>>

-----------------------------------------------------------------------------
(***************************************************************************)
(* The code a checker runs, its caller callback included.                  *)
(***************************************************************************)
InChecker == outcome = "running" /\ currentModule # NoModule

BuildFinding(f) ==
    /\ InChecker
    /\ f \in FindingValues[currentModule]
    /\ Len(heap) < MaxFindings
    /\ heap' = Append(heap, f)
    /\ UNCHANGED <<outcome, loop, capture, lists, live, frozen, document, tampered>>

Record(fact) ==
    /\ InChecker
    /\ Len(producers[Here]) < MaxFacts
    /\ producers' = [producers EXCEPT ![Here] = Append(@, fact)]
    /\ UNCHANGED <<outcome, loop, currentLevel, currentModule, actual, returned, lists,
                   heap, live, frozen, document, tampered>>

(* Mutant: the contribution is decided by the live policy. *)
ObserveByLivePolicy(branch, id) ==
    /\ heap[id].code \in PilotCode(currentModule)
    /\ Record([branch |-> branch,
               earned |-> {SealOf(id)},
               counts |-> {CountsAsLevelFailure(live, heap[id], currentLevel)}])

(* _observe with a finding: only the module's own pilot code is accepted,  *)
(* and the contribution is decided here, by the frozen policy.             *)
Observe(branch, id) ==
    /\ heap[id].code \in PilotCode(currentModule)
    /\ Record([branch |-> branch,
               earned |-> {SealOf(id)},
               counts |-> {CountsAsLevelFailure(frozen, heap[id], currentLevel)}])

(* _observe without one. *)
ObserveNothing(branch) ==
    Record([branch |-> branch, earned |-> {}, counts |-> {}])

Tamper ==
    /\ tampered < MaxTamper
    /\ tampered' = tampered + 1

RewriteFinding(id, f) ==
    /\ InChecker
    /\ Tamper
    /\ f \in FindingValues[currentModule]
    /\ f # heap[id]
    /\ heap' = [heap EXCEPT ![id] = f]
    /\ UNCHANGED <<outcome, loop, capture, lists, live, frozen, document>>

(* A list some earlier cell returned loses its last item or gets one more. *)
RewriteList(cell, id) ==
    /\ InChecker
    /\ Tamper
    /\ \/ /\ lists[cell] # <<>>
          /\ lists' = [lists EXCEPT ![cell] = SubSeq(@, 1, Len(@) - 1)]
       \/ /\ Len(lists[cell]) < MaxReturned
          /\ lists' = [lists EXCEPT ![cell] = Append(@, id)]
    /\ UNCHANGED <<outcome, loop, capture, heap, live, frozen, document>>

(* Any thread, at any moment of the run. *)
ChangeLivePolicy(policy) ==
    /\ outcome = "running"
    /\ policy # live
    /\ Tamper
    /\ live' = policy
    /\ UNCHANGED <<outcome, loop, capture, lists, heap, frozen, document>>

RunnerStep ==
    \/ BeginLevel
    \/ \E m \in Modules : Invoke(m)
    \/ EndLevel
    \/ CheckPolicy
    \/ Complete

ReturnedLists == UNION {[1..n -> Ids] : n \in 0..MaxReturned}

CheckerLeaves ==
    \/ \E list \in ReturnedLists : CheckerReturns(list)
    \/ CheckerRaises

CheckerWorks ==
    \/ \E f \in AnyFinding : BuildFinding(f)
    \/ \E b \in Branches, id \in Ids : Observe(b, id)
    \/ \E b \in Branches : ObserveNothing(b)
    \/ \E id \in Ids, f \in AnyFinding : RewriteFinding(id, f)
    \/ \E cell \in DOMAIN lists, id \in Ids : RewriteList(cell, id)

Next ==
    \/ RunnerStep
    \/ CheckerLeaves
    \/ CheckerWorks
    \/ \E p \in OtherPolicies \cup {StartPolicy} : ChangeLivePolicy(p)

Spec == Init /\ [][Next]_vars
-----------------------------------------------------------------------------
(***************************************************************************)
(* Fairness: the runner is straight-line code and every checker returns or *)
(* raises; nothing obliges a checker to build, record or change anything.  *)
(***************************************************************************)
FairSpec == Spec /\ WF_vars(RunnerStep) /\ WF_vars(CheckerLeaves)

ScheduleErrors == {"unexpected cell", "level not as planned", "schedule not as planned"}

Outcomes == {"running", "completed", "checker raised", "not as earned", "policy changed",
             "findings changed", "not projectable"} \cup ScheduleErrors

(* Every variable keeps its type, every id in a list or a fact names an    *)
(* object that exists, and a checker runs only inside a level.             *)
TypeOK ==
    /\ outcome \in Outcomes
    /\ loop \in 0..PolicyHeld
    /\ currentLevel \in Levels \cup {NoLevel}
    /\ currentModule \in Modules \cup {NoModule}
    /\ currentModule # NoModule => currentLevel \in Levels
    /\ actual \in Seq(Cells)
    /\ heap \in Seq(AnyFinding)
    /\ producers \in [Cells -> Seq(Fact(Ids))]
    /\ DOMAIN returned \subseteq Cells
    /\ DOMAIN lists = DOMAIN returned
    /\ \A cell \in DOMAIN lists : lists[cell] \in Seq(Ids)
    /\ \A cell \in DOMAIN returned : returned[cell] \in Seq(Witness(Ids))
    /\ live \in OtherPolicies \cup {StartPolicy}
    /\ frozen = StartPolicy
    /\ tampered \in 0..MaxTamper

(* A recorded contribution is the frozen policy's verdict on the witness it *)
(* stands beside, at the level of its cell, also while the live policy or   *)
(* the finding object says something else.                                  *)
FactsWeighed ==
    \A cell \in Cells : \A i \in DOMAIN producers[cell] :
      producers[cell][i].counts =
        {CountsAsLevelFailure(StartPolicy, w, cell[1]) : w \in producers[cell][i].earned}

(* Whatever _complete_execution publishes, the independent revalidation    *)
(* that guards emission accepts it: one row per attempted level and        *)
(* obligation, each explained by exactly one finding of its owner or by    *)
(* the schedule, with the contributions and tallies of the policy frozen   *)
(* at the start, whatever checkers and callbacks did in between.           *)
PublishedIsEmittable == \A d \in document : EmissionAccepts(Levels, d)

(* No published document holds a finding under a pilot code that its row   *)
(* does not account for, and no row claims one the results lack: what was  *)
(* observed and what was returned are the same findings.                   *)
NothingUnearned ==
    \A d \in document : \A l \in Levels, k \in Keys :
      <<l, Owner[k]>> \in DOMAIN d.results =>
        Cardinality(Positions(d.results[<<l, Owner[k]>>], k))
          = Cardinality(d.rows[<<l, k>>].finding)

(* What the returned lists and the finding objects hold now. *)
Held ==
    [cell \in DOMAIN lists |-> [p \in DOMAIN lists[cell] |-> heap[lists[cell][p]]]]

(* The rows and tallies a run publishes are those of the lists and objects *)
(* it still holds at that moment and of the policy it began with: the      *)
(* revalidation accepts them beside these two, also when a thread changed  *)
(* the live policy after _complete_execution had compared it.              *)
PublishedFitsTheRun ==
    [][document' # document =>
         \A d \in document' :
           EmissionAccepts(Levels, [d EXCEPT !.policy = StartPolicy, !.results = Held])]_vars

(* What the level table owes the if-chain: the plan goes through the       *)
(* levels upwards and, within one, through the modules in the order        *)
(* _run_core tests them, and an obligation that some level does not        *)
(* schedule has exactly one scheduler branch.                              *)
ScheduleAgrees ==
    /\ \A i, j \in DOMAIN Plan : i < j =>
         \/ Plan[i][1] < Plan[j][1]
         \/ Plan[i][1] = Plan[j][1] /\ CoreOrder[Plan[i][2]] < CoreOrder[Plan[j][2]]
    /\ \A l \in Levels, k \in Keys :
         Owner[k] \notin Active(l) => OnlyOne(SchedulerBranches(Owner[k]))

(* The order of the level table and the order of the if-chain agree, so no *)
(* behaviour of a checker can make the scheduler reject its own run.       *)
SchedulerNeverDisagrees == outcome \notin ScheduleErrors

(* Objects, identities and temporary changes do not show: every run, seen  *)
(* through the sealed values of its finished cells, is a run of AtomicRun. *)
OutcomeValue == IF outcome \in {"running", "completed"} THEN outcome ELSE "rejected"

FactValues(facts) ==
    [i \in DOMAIN facts |-> [facts[i] EXCEPT !.earned = {Sealed(w) : w \in @}]]

DoneValues ==
    [cell \in DOMAIN returned |->
       [facts    |-> FactValues(producers[cell]),
        findings |-> SealedResults(returned)[cell]]]

Atomic == INSTANCE AtomicRun WITH
    outcome <- OutcomeValue, done <- DoneValues, document <- document

RefinesAtomicRun == Atomic!Spec

(* Every run ends, with a document or with an error.                       *)
Settles == <>(outcome # "running")
=============================================================================
