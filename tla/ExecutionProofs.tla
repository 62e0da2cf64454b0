--------------------------- MODULE ExecutionProofs --------------------------
(***************************************************************************)
(* Proofs about Execution, for every registry, plan, policy and bound that *)
(* satisfies the assumptions of Obligations and Execution.                 *)
(***************************************************************************)
EXTENDS Execution, FiniteSetTheorems, TLAPS

(* What the capture holds once _run_levels left it with an exception. *)
LEMMA RejectType ==
    ASSUME NEW why \in Outcomes, TypeOK, Reject(why)
    PROVE  TypeOK'
<1> USE ExecutionAssumption DEF Reject, TypeOK, PolicyHeld
<1>1. heap' \in Seq(AnyFinding) /\ actual' \in Seq(Cells)
  OBVIOUS
<1>2. producers' \in [Cells -> Seq(Fact(Ids'))]
  OBVIOUS
<1>3. /\ loop' \in 0..PolicyHeld
      /\ currentLevel' \in Levels \cup {NoLevel}
      /\ currentModule' \in Modules \cup {NoModule}
      /\ currentModule' = NoModule
  OBVIOUS
<1>4. /\ DOMAIN returned' \subseteq Cells
      /\ DOMAIN lists' = DOMAIN returned'
      /\ \A cell \in DOMAIN lists' : lists'[cell] \in Seq(Ids')
      /\ \A cell \in DOMAIN returned' : returned'[cell] \in Seq(Witness(Ids'))
  OBVIOUS
<1> QED  BY <1>1, <1>2, <1>3, <1>4

LEMMA InitType == Init => TypeOK
<1> SUFFICES ASSUME Init PROVE TypeOK
  OBVIOUS
<1> USE ExecutionAssumption DEF Init, TypeOK, Outcomes, PolicyHeld
<1>1. heap \in Seq(AnyFinding) /\ actual \in Seq(Cells)
  OBVIOUS
<1>2. producers \in [Cells -> Seq(Fact(Ids))]
  OBVIOUS
<1> QED  BY <1>1, <1>2

(* An id of a finding object stays one when the heap grows or an object is *)
(* rewritten in place, so lists, witnesses and facts stay well-typed.      *)
LEMMA IdsGrow ==
    ASSUME TypeOK, Ids \subseteq Ids'
    PROVE  /\ \A cell \in DOMAIN lists : lists[cell] \in Seq(Ids')
           /\ \A cell \in DOMAIN returned : returned[cell] \in Seq(Witness(Ids'))
           /\ producers \in [Cells -> Seq(Fact(Ids'))]
<1>1. Witness(Ids) \subseteq Witness(Ids')
  BY DEF Witness
<1>2. Option(Witness(Ids)) \subseteq Option(Witness(Ids'))
  BY <1>1 DEF Option
<1>3. Fact(Ids) \subseteq Fact(Ids')
  BY <1>2 DEF Fact
<1>4. \A S, T : S \subseteq T => \A s \in Seq(S) : s \in Seq(T)
  OBVIOUS
<1>5. \A cell \in DOMAIN lists : lists[cell] \in Seq(Ids')
  BY <1>4 DEF TypeOK
<1>6. \A cell \in DOMAIN returned : returned[cell] \in Seq(Witness(Ids'))
  BY <1>1, <1>4 DEF TypeOK
<1>7. producers \in [Cells -> Seq(Fact(Ids'))]
  <2>1. \A cell \in Cells : producers[cell] \in Seq(Fact(Ids'))
    BY <1>3, <1>4 DEF TypeOK
  <2> QED  BY <2>1 DEF TypeOK
<1> QED  BY <1>5, <1>6, <1>7

(* What is sealed of an object of the heap is a witness. *)
LEMMA SealType ==
    ASSUME TypeOK, NEW id \in Ids
    PROVE  SealOf(id) \in Witness(Ids)
<1>1. heap[id] \in AnyFinding
  BY DEF TypeOK, Ids
<1>2. heap[id] \in Finding
  BY <1>1, ExecutionAssumption DEF AnyFinding
<1> QED  BY <1>2 DEF SealOf, Witness, Finding

LEMMA RecordType ==
    ASSUME TypeOK, NEW fact \in Fact(Ids), Record(fact)
    PROVE  TypeOK'
<1>1. Here \in Cells /\ Here \in DOMAIN producers
  BY DEF Record, InChecker, TypeOK, Here, Cells
<1>2. producers' \in [Cells -> Seq(Fact(Ids))]
  BY <1>1 DEF Record, TypeOK
<1> QED  BY <1>2 DEF Record, TypeOK, Ids, Witness

LEMMA TamperType == TypeOK /\ Tamper => tampered' \in 0..MaxTamper
  BY ExecutionAssumption DEF TypeOK, Tamper

LEMMA PastTheLevels ==
    ASSUME NEW m \in 0..2
    PROVE  /\ m + 1 \notin 0..m /\ m + 2 \in 0..(m + 2)
           /\ \A l \in 0..m : l < m + 1 /\ l < m + 2
  OBVIOUS

(* What the comparison of the policies leaves alone, and that every level  *)
(* is below the position of the run before and after it.                   *)
LEMMA PolicyHeldStep ==
    ASSUME TypeOK, CheckPolicy, ~ Reject("policy changed")
    PROVE  /\ UNCHANGED <<outcome, capture, lists, heap, live, frozen, document, tampered>>
           /\ loop \notin Levels /\ loop' \in 0..PolicyHeld
           /\ \A l \in Levels : l < loop /\ l < loop'
<1>1. /\ loop = LevelsOver /\ loop' = PolicyHeld
      /\ UNCHANGED <<outcome, capture, lists, heap, live, frozen, document, tampered>>
  BY DEF CheckPolicy, capture
<1>2. MaxLevel \in 0..2
  BY ExecutionAssumption
<1>3. /\ loop \notin Levels /\ loop' \in 0..PolicyHeld
      /\ \A l \in Levels : l < loop /\ l < loop'
  <2>1. loop = MaxLevel + 1 /\ loop' = MaxLevel + 2
    BY <1>1 DEF LevelsOver, PolicyHeld
  <2> QED  BY <1>2, <2>1, PastTheLevels, Zenon DEF PolicyHeld, Levels
<1> QED  BY <1>1, <1>3 DEF capture

(***************************************************************************)
(* The type invariant, one step per action.                                *)
(***************************************************************************)
LEMMA StepType == TypeOK /\ [Next]_vars => TypeOK'
<1> SUFFICES ASSUME TypeOK, [Next]_vars PROVE TypeOK'
  OBVIOUS
<1> USE ExecutionAssumption
<1> USE DEF Levels, NoLevel
<1>1. ASSUME BeginLevel PROVE TypeOK'
  BY <1>1 DEF BeginLevel, TypeOK, Ids, Witness
<1>2. ASSUME NEW m \in Modules, Invoke(m) PROVE TypeOK'
  <2>1. CASE Reject("unexpected cell")
    BY <2>1, RejectType DEF Outcomes, ScheduleErrors
  <2>2. CASE ~Reject("unexpected cell")
    <3>1. /\ actual' = Append(actual, <<currentLevel, m>>)
          /\ currentLevel \in Levels
          /\ currentModule' = m
          /\ UNCHANGED <<outcome, loop, currentLevel, producers, returned, lists, heap,
                         live, frozen, document, tampered>>
      BY <1>2, <2>2 DEF Invoke, TypeOK
    <3>2. actual' \in Seq(Cells)
      BY <3>1 DEF TypeOK, Cells
    <3> QED  BY <3>1, <3>2 DEF TypeOK, Ids, Witness
  <2> QED  BY <2>1, <2>2
<1>3. ASSUME EndLevel PROVE TypeOK'
  <2>1. CASE Reject("level not as planned")
    BY <2>1, RejectType DEF Outcomes, ScheduleErrors
  <2>2. CASE ~Reject("level not as planned")
    <3> DEFINE idle == {m \in {Owner[k] : k \in Keys} : m \notin Active(currentLevel)}
    <3>1. \A m \in idle : SchedulerFact(m) \in Fact(Ids)
      <4>1. ASSUME NEW m \in idle
            PROVE  (CHOOSE b \in SchedulerBranches(m) : TRUE) \in Branches
        BY <1>3, <2>2, <4>1 DEF EndLevel, OnlyOne, SchedulerBranches
      <4> QED  BY <4>1 DEF Fact, Option, SchedulerFact
    <3>2. producers' = [cell \in Cells |->
                          IF cell[1] = currentLevel /\ cell[2] \in idle
                          THEN Append(producers[cell], SchedulerFact(cell[2]))
                          ELSE producers[cell]]
      BY <1>3, <2>2 DEF EndLevel
    <3> HIDE DEF idle
    <3>3. producers' \in [Cells -> Seq(Fact(Ids))]
      BY <3>1, <3>2 DEF TypeOK
    <3>4. /\ currentLevel' = NoLevel /\ currentModule = NoModule
          /\ loop \in Levels /\ loop' = loop + 1
          /\ UNCHANGED <<outcome, currentModule, actual, returned, lists, heap, live,
                         frozen, document, tampered>>
      BY <1>3, <2>2 DEF EndLevel, TypeOK
    <3>5. loop' \in 0..PolicyHeld /\ currentLevel' \in Levels \cup {NoLevel}
      BY <3>4 DEF PolicyHeld
    <3> QED  BY <3>3, <3>4, <3>5 DEF TypeOK, Ids, Witness
  <2> QED  BY <2>1, <2>2
<1>4. ASSUME Complete PROVE TypeOK'
  <2>1. CASE \E why \in Outcomes : Reject(why)
    BY <2>1, RejectType
  <2>2. CASE ~\E why \in Outcomes : Reject(why)
    BY <1>4, <2>2 DEF Complete, TypeOK, capture, Outcomes, ScheduleErrors, Ids, Witness
  <2> QED  BY <2>1, <2>2
<1>5. ASSUME NEW list \in ReturnedLists, CheckerReturns(list) PROVE TypeOK'
  <2>1. CASE Reject("not as earned")
    BY <2>1, RejectType DEF Outcomes
  <2>2. CASE ~Reject("not as earned")
    <3>1. Here \in Cells
      BY <1>5 DEF CheckerReturns, TypeOK, Here, Cells
    <3>2. list \in Seq(Ids) /\ DOMAIN list = 1..Len(list)
      BY <1>5 DEF ReturnedLists
    <3>3. [p \in DOMAIN list |-> SealOf(list[p])] \in Seq(Witness(Ids))
      BY <3>2, SealType
    <3> QED  BY <1>5, <2>2, <3>1, <3>2, <3>3 DEF CheckerReturns, TypeOK, Ids, Witness
  <2> QED  BY <2>1, <2>2
<1>6. ASSUME CheckerRaises PROVE TypeOK'
  BY <1>6, RejectType DEF CheckerRaises, Outcomes
<1>7. ASSUME NEW f \in AnyFinding, BuildFinding(f) PROVE TypeOK'
  <2>1. heap' \in Seq(AnyFinding) /\ Ids \subseteq Ids'
    BY <1>7 DEF BuildFinding, TypeOK, Ids
  <2> QED  BY <1>7, <2>1, IdsGrow DEF BuildFinding, InChecker, capture, TypeOK
<1>8. ASSUME NEW b \in Branches, NEW id \in Ids, Observe(b, id) PROVE TypeOK'
  <2>1. [branch |-> b, earned |-> {SealOf(id)},
         counts |-> {CountsAsLevelFailure(frozen, heap[id], currentLevel)}] \in Fact(Ids)
    BY SealType DEF Fact, Option, CountsAsLevelFailure
  <2> QED  BY <1>8, <2>1, RecordType DEF Observe
<1>9. ASSUME NEW b \in Branches, ObserveNothing(b) PROVE TypeOK'
  BY <1>9, RecordType DEF ObserveNothing, Fact, Option
<1>10. ASSUME NEW id \in Ids, NEW f \in AnyFinding, RewriteFinding(id, f) PROVE TypeOK'
  <2>1. heap' \in Seq(AnyFinding) /\ Ids \subseteq Ids'
    BY <1>10 DEF RewriteFinding, TypeOK, Ids
  <2> QED  BY <1>10, <2>1, IdsGrow, TamperType DEF RewriteFinding, capture, TypeOK
<1>11. ASSUME NEW cell \in DOMAIN lists, NEW id \in Ids, RewriteList(cell, id) PROVE TypeOK'
  <2>1. lists[cell] \in Seq(Ids)
    BY DEF TypeOK
  <2>2. lists'[cell] \in Seq(Ids)
    <3>1. CASE lists[cell] # <<>> /\ lists' = [lists EXCEPT ![cell] = SubSeq(@, 1, Len(@) - 1)]
      BY <2>1, <3>1
    <3>2. CASE lists' = [lists EXCEPT ![cell] = Append(@, id)]
      BY <2>1, <3>2
    <3> QED  BY <1>11, <3>1, <3>2 DEF RewriteList
  <2>3. DOMAIN lists' = DOMAIN lists /\ \A c \in DOMAIN lists : lists'[c] \in Seq(Ids)
    BY <1>11, <2>2 DEF RewriteList, TypeOK
  <2>4. /\ tampered' \in 0..MaxTamper
        /\ UNCHANGED <<outcome, loop, capture, heap, live, frozen, document>>
    BY <1>11, TamperType DEF RewriteList
  <2> QED  BY <2>3, <2>4 DEF capture, TypeOK, Ids, Witness
<1>12. ASSUME NEW p \in OtherPolicies \cup {StartPolicy}, ChangeLivePolicy(p) PROVE TypeOK'
  <2>1. /\ tampered' \in 0..MaxTamper /\ live' = p
        /\ UNCHANGED <<outcome, loop, capture, lists, heap, frozen, document>>
    BY <1>12, TamperType DEF ChangeLivePolicy
  <2> QED  BY <2>1 DEF capture, TypeOK, Ids, Witness
<1>13. CASE UNCHANGED vars
  BY <1>13 DEF vars, TypeOK, Ids, Witness
<1>14. ASSUME CheckPolicy PROVE TypeOK'
  <2>1. CASE Reject("policy changed")
    BY <2>1, RejectType DEF Outcomes
  <2>2. CASE ~Reject("policy changed")
    BY <1>14, <2>2, PolicyHeldStep DEF TypeOK, capture, Ids, Witness
  <2> QED  BY <2>1, <2>2
<1> QED  BY <1>1, <1>2, <1>3, <1>4, <1>5, <1>6, <1>7, <1>8, <1>9, <1>10, <1>11, <1>12,
            <1>13, <1>14
         DEF Next, RunnerStep, CheckerLeaves, CheckerWorks

(* Types hold in every execution, whatever checkers and callbacks do:      *)
(* no list, witness or fact ever refers to a finding that is not there.    *)
THEOREM TypeCorrect == Spec => []TypeOK
<1> QED  BY InitType, StepType, PTL DEF Spec

(***************************************************************************)
(* Recorded contributions.  Only _observe and _end_level write facts, and  *)
(* both write a verdict that depends on the witness and the frozen policy. *)
(***************************************************************************)
LEMMA RecordWeighed ==
    ASSUME TypeOK, FactsWeighed, NEW fact \in Fact(Ids), Record(fact),
           fact.counts = {CountsAsLevelFailure(StartPolicy, w, currentLevel) : w \in fact.earned}
    PROVE  FactsWeighed'
<1>1. Here \in Cells /\ Here[1] = currentLevel
  BY DEF Record, InChecker, TypeOK, Here, Cells
<1>2. producers[Here] \in Seq(Fact(Ids))
  BY <1>1 DEF TypeOK
<1>3. producers' = [producers EXCEPT ![Here] = Append(@, fact)]
  BY DEF Record
<1> SUFFICES ASSUME NEW cell \in Cells, NEW i \in DOMAIN producers'[cell]
             PROVE  producers'[cell][i].counts =
                      {CountsAsLevelFailure(StartPolicy, w, cell[1]) :
                         w \in producers'[cell][i].earned}
  BY DEF FactsWeighed
<1>4. CASE cell = Here
  <2>1. producers'[cell] = Append(producers[Here], fact)
    BY <1>1, <1>3, <1>4 DEF TypeOK
  <2>2. CASE i = Len(producers[Here]) + 1
    BY <1>1, <1>2, <1>4, <2>1, <2>2
  <2>3. CASE i # Len(producers[Here]) + 1
    <3>1. i \in DOMAIN producers[Here] /\ producers'[cell][i] = producers[Here][i]
      BY <1>2, <2>1, <2>3
    <3> QED  BY <1>4, <3>1 DEF FactsWeighed
  <2> QED  BY <2>2, <2>3
<1>5. CASE cell # Here
  BY <1>3, <1>5 DEF TypeOK, FactsWeighed
<1> QED  BY <1>4, <1>5

LEMMA StepWeighed == TypeOK /\ FactsWeighed /\ [Next]_vars => FactsWeighed'
<1> SUFFICES ASSUME TypeOK, FactsWeighed, [Next]_vars PROVE FactsWeighed'
  OBVIOUS
<1>1. ASSUME NEW why, Reject(why) PROVE FactsWeighed'
  BY <1>1 DEF Reject, FactsWeighed
<1>2. ASSUME UNCHANGED producers PROVE FactsWeighed'
  BY <1>2 DEF FactsWeighed
<1>3. ASSUME NEW m \in Modules, Invoke(m) PROVE FactsWeighed'
  BY <1>1, <1>2, <1>3 DEF Invoke
<1>4. ASSUME EndLevel PROVE FactsWeighed'
  <2>1. CASE Reject("level not as planned")
    BY <1>1, <2>1
  <2>2. CASE ~Reject("level not as planned")
    <3> DEFINE idle == {m \in {Owner[k] : k \in Keys} : m \notin Active(currentLevel)}
    <3>1. producers' = [cell \in Cells |->
                          IF cell[1] = currentLevel /\ cell[2] \in idle
                          THEN Append(producers[cell], SchedulerFact(cell[2]))
                          ELSE producers[cell]]
      BY <1>4, <2>2 DEF EndLevel
    <3>2. \A m : SchedulerFact(m).earned = {} /\ SchedulerFact(m).counts = {}
      BY DEF SchedulerFact
    <3> HIDE DEF idle
    <3> SUFFICES ASSUME NEW cell \in Cells, NEW i \in DOMAIN producers'[cell]
                 PROVE  producers'[cell][i].counts =
                          {CountsAsLevelFailure(StartPolicy, w, cell[1]) :
                             w \in producers'[cell][i].earned}
      BY DEF FactsWeighed
    <3>3. producers[cell] \in Seq(Fact(Ids))
      BY DEF TypeOK
    <3>4. \/ i \in DOMAIN producers[cell] /\ producers'[cell][i] = producers[cell][i]
          \/ producers'[cell][i] = SchedulerFact(cell[2])
      BY <3>1, <3>3
    <3> QED  BY <3>2, <3>4 DEF FactsWeighed
  <2> QED  BY <2>1, <2>2
<1>5. ASSUME CheckPolicy \/ Complete PROVE FactsWeighed'
  BY <1>1, <1>2, <1>5 DEF CheckPolicy, Complete, capture
<1>6. ASSUME NEW list \in ReturnedLists, CheckerReturns(list) PROVE FactsWeighed'
  BY <1>1, <1>2, <1>6 DEF CheckerReturns
<1>7. ASSUME NEW b \in Branches, NEW id \in Ids, Observe(b, id) PROVE FactsWeighed'
  <2> DEFINE fact == [branch |-> b, earned |-> {SealOf(id)},
                      counts |-> {CountsAsLevelFailure(frozen, heap[id], currentLevel)}]
  <2>1. fact \in Fact(Ids)
    BY SealType DEF Fact, Option, CountsAsLevelFailure
  <2>2. CountsAsLevelFailure(frozen, heap[id], currentLevel)
          = CountsAsLevelFailure(StartPolicy, SealOf(id), currentLevel)
    BY DEF SealOf, CountsAsLevelFailure, UnverifiedFails, TypeOK
  <2> QED  BY <1>7, <2>1, <2>2, RecordWeighed DEF Observe
<1>8. ASSUME NEW b \in Branches, ObserveNothing(b) PROVE FactsWeighed'
  <2>1. [branch |-> b, earned |-> {}, counts |-> {}] \in Fact(Ids)
    BY DEF Fact, Option
  <2> QED  BY <1>8, <2>1, RecordWeighed DEF ObserveNothing
<1> QED  BY <1>1, <1>2, <1>3, <1>4, <1>5, <1>6, <1>7, <1>8
         DEF Next, RunnerStep, CheckerLeaves, CheckerWorks, BeginLevel, CheckerRaises,
             BuildFinding, RewriteFinding, RewriteList, ChangeLivePolicy, capture, vars

(* Whatever happens to the live policy and to the finding objects, every   *)
(* recorded contribution is the verdict of the policy frozen at the start. *)
THEOREM ContributionsAreFrozen == Spec => []FactsWeighed
<1>1. Init => FactsWeighed
  BY DEF Init, FactsWeighed
<1> QED  BY <1>1, StepWeighed, TypeCorrect, PTL DEF Spec

(***************************************************************************)
(* Publication.  Sealing drops identities, which neither the tallies nor   *)
(* the prerequisite check look at.                                         *)
(***************************************************************************)
LEMMA SealedFields ==
    ASSUME NEW results, NEW cell \in DOMAIN results, NEW p \in DOMAIN results[cell]
    PROVE  /\ SealedResults(results)[cell][p].code = results[cell][p].code
           /\ SealedResults(results)[cell][p].status = results[cell][p].status
           /\ SealedResults(results)[cell][p].text = results[cell][p].text
  BY DEF SealedResults, Sealed

LEMMA SealedPositions ==
    ASSUME NEW results, NEW cell \in DOMAIN results, NEW code
    PROVE  Positions(SealedResults(results)[cell], code) = Positions(results[cell], code)
  BY DEF SealedResults, Sealed, Positions

LEMMA SealedTally ==
    ASSUME NEW results, DOMAIN results \subseteq Cells, NEW level, NEW policy
    PROVE  Tally(SealedResults(results), level, policy) = Tally(results, level, policy)
<1> DEFINE sealed == SealedResults(results)
           found  == FindingsAt(results, level)
<1>1. FindingsAt(sealed, level) = found
  BY DEF FindingsAt, SealedResults
<1>2. ASSUME NEW f \in found
      PROVE  /\ CountsAsLevelFailure(policy, sealed[<<level, f[1]>>][f[2]], level)
                  = CountsAsLevelFailure(policy, results[<<level, f[1]>>][f[2]], level)
             /\ sealed[<<level, f[1]>>][f[2]].status = results[<<level, f[1]>>][f[2]].status
  <2>1. PICK c \in DOMAIN results :
          c[1] = level /\ f \in {<<c[2], p>> : p \in DOMAIN results[c]}
    BY <1>2 DEF FindingsAt
  <2>2. c = <<level, f[1]>> /\ f[2] \in DOMAIN results[c]
    BY <2>1 DEF Cells
  <2> QED  BY <2>2, SealedFields DEF CountsAsLevelFailure, UnverifiedFails
<1>3. {f \in found : CountsAsLevelFailure(policy, sealed[<<level, f[1]>>][f[2]], level)}
        = {f \in found : CountsAsLevelFailure(policy, results[<<level, f[1]>>][f[2]], level)}
  BY <1>2
<1>4. {f \in found : sealed[<<level, f[1]>>][f[2]].status = "unverified"}
        = {f \in found : results[<<level, f[1]>>][f[2]].status = "unverified"}
  BY <1>2
<1> HIDE DEF sealed
<1> QED  BY <1>1, <1>3, <1>4 DEF Tally, sealed

LEMMA SealedBlocker ==
    ASSUME NEW results, NEW cell \in DOMAIN results, NEW rule, NEW policy, NEW level,
           BlockedBy(rule, results[cell], policy, level)
    PROVE  BlockedBy(rule, SealedResults(results)[cell], policy, level)
<1>1. PICK c \in rule.blocker :
        /\ OnlyOne(Positions(results[cell], c))
        /\ \A p \in Positions(results[cell], c) :
             /\ results[cell][p].status \in rule.blockerStatuses
             /\ results[cell][p].text \in rule.blockerTexts
             /\ CountsAsLevelFailure(policy, results[cell][p], level)
  BY DEF BlockedBy
<1>2. \A p \in Positions(results[cell], c) : p \in DOMAIN results[cell]
  BY DEF Positions
<1>3. \A p \in Positions(results[cell], c) :
        /\ SealedResults(results)[cell][p].status \in rule.blockerStatuses
        /\ SealedResults(results)[cell][p].text \in rule.blockerTexts
        /\ CountsAsLevelFailure(policy, SealedResults(results)[cell][p], level)
  BY <1>1, <1>2, SealedFields DEF CountsAsLevelFailure, UnverifiedFails
<1> QED  BY <1>1, <1>3, SealedPositions DEF BlockedBy

(* The heart of the matter: where the final check of a cell passed and its *)
(* fact carries a finding, the cell returned exactly one finding under the *)
(* pilot code, and it is that one.                                         *)
LEMMA EarnedIsReturned ==
    ASSUME TypeOK, FinalResultsHold,
           NEW k \in Keys, NEW cell \in DOMAIN lists, cell[2] = Owner[k],
           Len(producers[cell]) = 1,
           NEW w, producers[cell][1].earned = {w}, w.code = k
    PROVE  \E p \in DOMAIN returned[cell] :
             /\ Positions(returned[cell], k) = {p}
             /\ returned[cell][p] = w
<1> DEFINE facts == producers[cell]
           list  == lists[cell]
           pilot == {p \in DOMAIN list : heap[list[p]].code \in PilotCode(cell[2])}
<1>1. PilotCode(cell[2]) = {k}
  BY RegistryAssumption DEF PilotCode
<1>2. cell \in Cells /\ facts \in Seq(Fact(Ids)) /\ DOMAIN facts = {1}
  BY DEF TypeOK
<1>3. /\ ReturnedAsEarned(cell[2], facts, list)
      /\ returned[cell] = [p \in DOMAIN list |-> SealOf(list[p])]
  BY DEF FinalResultsHold
<1> DEFINE earnedAt == {i \in DOMAIN facts : facts[i].earned # {}}
           observed == {i \in earnedAt : \E v \in facts[i].earned : v.code \in PilotCode(cell[2])}
<1>4. /\ \A i \in earnedAt : \A v \in facts[i].earned : v = SealOf(v.id)
      /\ \E match \in InOrder(observed, pilot) :
           \A i \in observed : \A v \in facts[i].earned : list[match[i]] = v.id
  BY <1>1, <1>3, Zenon DEF ReturnedAsEarned
<1>5. earnedAt = {1} /\ observed = {1}
  BY <1>1, <1>2
<1>6. PICK match \in InOrder({1}, pilot) : \A i \in {1} :
        \A v \in facts[i].earned : list[match[i]] = v.id
  <2> HIDE DEF earnedAt, observed, pilot, facts, list
  <2> QED  BY <1>4, <1>5
<1>7. pilot = {match[1]} /\ list[match[1]] = w.id
  BY <1>6 DEF InOrder
<1>8. w = SealOf(w.id)
  BY <1>4, <1>5
<1>9. Positions(returned[cell], k) = pilot
  BY <1>1, <1>3 DEF Positions, SealOf
<1>10. match[1] \in DOMAIN list /\ returned[cell][match[1]] = w
  BY <1>3, <1>7, <1>8
<1> QED  BY <1>3, <1>7, <1>9, <1>10

(* Only the last branch of _complete_execution seals a document.           *)
LEMMA DocumentStep ==
    ASSUME [Next]_vars, document' # document
    PROVE  /\ FinalResultsHold
           /\ Projectable(Levels, producers, returned, frozen)
           /\ document' = {Document(Levels, producers, returned, frozen)}
<1>1. ASSUME NEW why, Reject(why) PROVE FALSE
  BY <1>1 DEF Reject
<1>2. Complete
  <2>1. ASSUME NEW m \in Modules, Invoke(m) PROVE FALSE
    BY <1>1, <2>1 DEF Invoke
  <2>2. ~EndLevel /\ ~BeginLevel /\ ~CheckerRaises /\ ~CheckPolicy
    BY <1>1 DEF EndLevel, BeginLevel, CheckerRaises, CheckPolicy
  <2>3. ASSUME NEW list \in ReturnedLists, CheckerReturns(list) PROVE FALSE
    BY <1>1, <2>3 DEF CheckerReturns
  <2>4. ~CheckerWorks
    BY DEF CheckerWorks, BuildFinding, Observe, ObserveNothing, Record, RewriteFinding,
           RewriteList
  <2> QED  BY <2>1, <2>2, <2>3, <2>4
           DEF Next, RunnerStep, CheckerLeaves, ChangeLivePolicy, vars
<1> QED  BY <1>1, <1>2 DEF Complete, Payload

LEMMA RowEmittable ==
    ASSUME TypeOK, FactsWeighed, FinalResultsHold,
           Projectable(Levels, producers, returned, frozen),
           NEW l \in Levels, NEW k \in Keys
    PROVE  RowMatchesResults(Row(Owner[k], producers[<<l, Owner[k]>>][1]), l, k,
                             SealedResults(returned), frozen)
<1> DEFINE cell == <<l, Owner[k]>>
           fact == producers[cell][1]
           rule == Rule[<<Owner[k], fact.branch>>]
           row  == Row(Owner[k], fact)
           sealed == SealedResults(returned)
<1>1. cell \in Cells /\ Len(producers[cell]) = 1 /\ fact \in Fact(Ids) /\ 1 \in DOMAIN producers[cell]
  <2>1. cell \in Cells
    BY RegistryAssumption DEF Cells
  <2>2. producers[cell] \in Seq(Fact(Ids)) /\ Len(producers[cell]) = 1
    BY <2>1 DEF TypeOK, Projectable
  <2> QED  BY <2>1, <2>2
<1>2. ProjectableFact(cell, fact, returned, frozen)
  BY DEF Projectable
<1>3. RecognisedFact(cell, fact, DOMAIN returned)
  BY <1>1 DEF Projectable, TypeOK
<1>4. /\ <<Owner[k], fact.branch>> \in DOMAIN Rule
      /\ cell \in DOMAIN returned <=> rule.role # "scheduler_nonexecution"
  BY <1>3 DEF RecognisedFact
<1>5. /\ rule \in BranchRule
      /\ rule.finding \subseteq {k}
      /\ rule.role = "scheduler_nonexecution" => rule.finding = {} /\ rule.blocker = {}
      /\ rule.finding = {} /\ rule.blocker = {} => rule.role = "scheduler_nonexecution"
  BY <1>4, RegistryAssumption
<1>6. /\ row.branch = fact.branch
      /\ row.projection = RoleProjection(rule.role)
      /\ row.unscheduled = (rule.role = "scheduler_nonexecution")
      /\ row.blocker = IF rule.role = "prerequisite" THEN rule.blocker ELSE {}
      /\ row.finding = IF rule.finding = {} THEN {}
                       ELSE {[code |-> v.code, status |-> v.status] : v \in fact.earned}
      /\ row.counts = IF rule.finding = {} THEN {} ELSE fact.counts
  BY DEF Row
<1>7. row.blocker = rule.blocker
  BY <1>2, <1>6 DEF ProjectableFact
<1>8. DOMAIN sealed = DOMAIN returned
  BY DEF SealedResults
<1>9. CASE rule.finding = {}
  <2>1. row.finding = {} /\ row.counts = {}
    BY <1>6, <1>9
  <2>2. CASE rule.blocker = {}
    BY <1>4, <1>5, <1>6, <1>7, <1>8, <1>9, <2>1, <2>2 DEF RowMatchesResults
  <2>3. CASE rule.blocker # {}
    <3>1. rule.role = "prerequisite" /\ cell \in DOMAIN returned
      BY <1>2, <1>4, <1>5, <2>3 DEF ProjectableFact
    <3>2. BlockedBy(rule, sealed[cell], frozen, l)
      <4>1. BlockedBy(rule, returned[cell], frozen, l)
        BY <1>2, <3>1 DEF ProjectableFact
      <4> QED  BY <3>1, <4>1, SealedBlocker
    <3> QED  BY <1>4, <1>6, <1>7, <1>8, <1>9, <2>1, <2>3, <3>1, <3>2 DEF RowMatchesResults
  <2> QED  BY <2>2, <2>3
<1>10. CASE rule.finding # {}
  <2>1. PICK w \in fact.earned : w.code \in rule.finding /\ w.status \in rule.statuses
    BY <1>2, <1>10 DEF ProjectableFact
  <2>2. fact.earned = {w} /\ w.code = k /\ rule.finding = {k}
    BY <1>1, <1>5, <2>1 DEF Fact, Option
  <2>3. cell \in DOMAIN returned /\ cell \in DOMAIN lists
    BY <1>4, <1>5, <1>10 DEF TypeOK
  <2>4. PICK p \in DOMAIN returned[cell] :
          Positions(returned[cell], k) = {p} /\ returned[cell][p] = w
    <3> HIDE DEF cell
    <3> QED  BY <1>1, <2>2, <2>3, EarnedIsReturned DEF cell
  <2>5. Positions(sealed[cell], k) = {p} /\ sealed[cell][p] = Sealed(w)
    BY <2>3, <2>4, SealedPositions DEF SealedResults
  <2>6. sealed[cell][p].status = w.status
    BY <2>5 DEF Sealed
  <2>7. row.finding = {[code |-> k, status |-> sealed[cell][p].status]}
    BY <1>6, <1>10, <2>2, <2>6
  <2>8. row.counts = {CountsAsLevelFailure(frozen, sealed[cell][p], l)}
    <3>1. fact.counts = {CountsAsLevelFailure(StartPolicy, v, l) : v \in fact.earned}
      BY <1>1 DEF FactsWeighed
    <3>2. CountsAsLevelFailure(StartPolicy, w, l)
            = CountsAsLevelFailure(frozen, sealed[cell][p], l)
      BY <2>5 DEF TypeOK, CountsAsLevelFailure, UnverifiedFails, Sealed
    <3>3. row.counts = fact.counts
      BY <1>6, <1>10
    <3> HIDE DEF row, fact, sealed, rule
    <3> QED  BY <2>2, <3>1, <3>2, <3>3
  <2>9. OnlyOne(Positions(sealed[cell], k))
    BY <2>5 DEF OnlyOne
  <2>10. /\ \A q \in Positions(sealed[cell], k) :
              /\ row.finding = {[code |-> k, status |-> sealed[cell][q].status]}
              /\ sealed[cell][q].status \in rule.statuses
              /\ row.counts = {CountsAsLevelFailure(frozen, sealed[cell][q], l)}
    BY <2>1, <2>5, <2>6, <2>7, <2>8
  <2>11. Rule[<<Owner[k], row.branch>>] = rule /\ <<Owner[k], row.branch>> \in DOMAIN Rule
    BY <1>4, <1>6
  <2>12. cell \in DOMAIN sealed
    BY <1>8, <2>3
  <2>13. RowMatchesResults(row, l, k, sealed, frozen)
    <3> HIDE DEF rule, row, sealed, fact
    <3> QED  BY <1>6, <1>7, <1>10, <2>2, <2>9, <2>10, <2>11, <2>12 DEF RowMatchesResults
  <2> QED  BY <2>13
<1> QED  BY <1>9, <1>10

LEMMA PublicationEmittable ==
    ASSUME TypeOK, FactsWeighed, FinalResultsHold,
           Projectable(Levels, producers, returned, frozen)
    PROVE  EmissionAccepts(Levels, Document(Levels, producers, returned, frozen))
<1> DEFINE d == Document(Levels, producers, returned, frozen)
<1>1. /\ d.policy = frozen
      /\ d.results = SealedResults(returned)
      /\ d.rows = [c \in Levels \X Keys |-> Row(Owner[c[2]], producers[<<c[1], Owner[c[2]]>>][1])]
      /\ d.tallies = [l \in Levels |-> Tally(returned, l, frozen)]
  BY DEF Document, Rows
<1>2. \A l \in Levels : d.tallies[l] = Tally(d.results, l, d.policy)
  <2>1. DOMAIN returned \subseteq Cells
    BY DEF TypeOK
  <2> HIDE DEF d
  <2> QED  BY <1>1, <2>1, SealedTally
<1>3. \A l \in Levels, k \in Keys :
        RowMatchesResults(d.rows[<<l, k>>], l, k, d.results, d.policy)
  BY <1>1, RowEmittable
<1> QED  BY <1>1, <1>2, <1>3 DEF EmissionAccepts

(* Every published document passes the revalidation that guards emission,  *)
(* for every registry, schedule, policy, checker and callback behaviour.   *)
THEOREM PublishedEmittable == Spec => []PublishedIsEmittable
<1>1. Init => PublishedIsEmittable
  BY DEF Init, PublishedIsEmittable
<1>2. TypeOK /\ FactsWeighed /\ PublishedIsEmittable /\ [Next]_vars => PublishedIsEmittable'
  <2> SUFFICES ASSUME TypeOK, FactsWeighed, PublishedIsEmittable, [Next]_vars
               PROVE  PublishedIsEmittable'
    OBVIOUS
  <2>1. CASE UNCHANGED document
    BY <2>1 DEF PublishedIsEmittable
  <2>2. CASE document' # document
    <3>1. /\ document' = {Document(Levels, producers, returned, frozen)}
          /\ FinalResultsHold
          /\ Projectable(Levels, producers, returned, frozen)
      BY <2>2, DocumentStep
    <3> QED  BY <3>1, PublicationEmittable DEF PublishedIsEmittable
  <2> QED  BY <2>1, <2>2
<1> QED  BY <1>1, <1>2, TypeCorrect, ContributionsAreFrozen, PTL DEF Spec

(***************************************************************************)
(* What is sealed is what is there.                                        *)
(***************************************************************************)
LEMMA SealedIsHeap ==
    ASSUME TypeOK, FinalResultsHold
    PROVE  SealedResults(returned) = Held
<1>1. ASSUME NEW id \in Ids PROVE Sealed(SealOf(id)) = heap[id]
  <2>1. heap[id] \in Finding
    BY ExecutionAssumption DEF TypeOK, Ids, AnyFinding
  <2> QED  BY <2>1 DEF Sealed, SealOf, Finding
<1>2. ASSUME NEW cell \in DOMAIN lists
      PROVE  SealedResults(returned)[cell] = [p \in DOMAIN lists[cell] |-> heap[lists[cell][p]]]
  <2>1. returned[cell] = [p \in DOMAIN lists[cell] |-> SealOf(lists[cell][p])]
    BY DEF FinalResultsHold
  <2>2. \A p \in DOMAIN lists[cell] : lists[cell][p] \in Ids
    BY DEF TypeOK
  <2> QED  BY <1>1, <2>1, <2>2 DEF SealedResults, TypeOK
<1>3. DOMAIN SealedResults(returned) = DOMAIN lists
  BY DEF SealedResults, TypeOK
<1>4. SealedResults(returned) = [cell \in DOMAIN lists |-> SealedResults(returned)[cell]]
  BY <1>3 DEF SealedResults
<1> QED  BY <1>2, <1>4 DEF Held

(* The rows and tallies of a published document are those of the lists and *)
(* finding objects the run holds at that moment, weighed by the policy it  *)
(* began with, whatever the live policy is by then.                        *)
THEOREM PublicationFitsTheRun == Spec => PublishedFitsTheRun
<1>1. TypeOK /\ FactsWeighed /\ [Next]_vars =>
        [document' # document =>
           \A d \in document' :
             EmissionAccepts(Levels, [d EXCEPT !.policy = StartPolicy, !.results = Held])]_vars
  <2> SUFFICES ASSUME TypeOK, FactsWeighed, [Next]_vars, document' # document
               PROVE  \A d \in document' :
                        EmissionAccepts(Levels,
                                        [d EXCEPT !.policy = StartPolicy, !.results = Held])
    OBVIOUS
  <2> DEFINE payload == Document(Levels, producers, returned, frozen)
  <2>1. /\ FinalResultsHold
        /\ Projectable(Levels, producers, returned, frozen)
        /\ document' = {payload}
    BY DocumentStep
  <2>2. EmissionAccepts(Levels, payload)
    BY <2>1, PublicationEmittable
  <2>3. payload.policy = StartPolicy /\ payload.results = Held
    BY <2>1, SealedIsHeap DEF Document, TypeOK
  <2>4. payload = [payload EXCEPT !.policy = StartPolicy, !.results = Held]
    BY <2>3 DEF Document
  <2> HIDE DEF payload
  <2> QED  BY <2>1, <2>2, <2>4
<1> QED  BY <1>1, TypeCorrect, ContributionsAreFrozen, PTL DEF Spec, PublishedFitsTheRun

(* Where the final check of a cell passed and its fact carries no finding, *)
(* the cell returned none under the pilot code.                            *)
LEMMA NothingEarnedNothingReturned ==
    ASSUME TypeOK, FinalResultsHold,
           NEW k \in Keys, NEW cell \in DOMAIN lists, cell[2] = Owner[k],
           Len(producers[cell]) = 1, producers[cell][1].earned = {}
    PROVE  Positions(returned[cell], k) = {}
<1> DEFINE facts == producers[cell]
           list  == lists[cell]
           earnedAt == {i \in DOMAIN facts : facts[i].earned # {}}
           observed == {i \in earnedAt : \E v \in facts[i].earned : v.code \in PilotCode(cell[2])}
           pilot == {p \in DOMAIN list : heap[list[p]].code \in PilotCode(cell[2])}
<1>1. PilotCode(cell[2]) = {k}
  BY RegistryAssumption DEF PilotCode
<1>2. facts \in Seq(Fact(Ids)) /\ DOMAIN facts = {1}
  BY DEF TypeOK
<1>3. /\ ReturnedAsEarned(cell[2], facts, list)
      /\ returned[cell] = [p \in DOMAIN list |-> SealOf(list[p])]
  BY DEF FinalResultsHold
<1>4. PICK match \in InOrder(observed, pilot) : TRUE
  BY <1>1, <1>3, Zenon DEF ReturnedAsEarned
<1>5. observed = {}
  BY <1>2
<1>6. pilot = {}
  <2> HIDE DEF pilot, observed
  <2> QED  BY <1>4, <1>5 DEF InOrder
<1>7. Positions(returned[cell], k) = pilot
  BY <1>1, <1>3 DEF Positions, SealOf
<1> QED  BY <1>6, <1>7

LEMMA PublicationEarned ==
    ASSUME TypeOK, FinalResultsHold,
           Projectable(Levels, producers, returned, frozen),
           NEW l \in Levels, NEW k \in Keys, <<l, Owner[k]>> \in DOMAIN returned
    PROVE  Cardinality(Positions(SealedResults(returned)[<<l, Owner[k]>>], k))
             = Cardinality(Row(Owner[k], producers[<<l, Owner[k]>>][1]).finding)
<1> DEFINE cell == <<l, Owner[k]>>
           fact == producers[cell][1]
           rule == Rule[<<Owner[k], fact.branch>>]
<1>1. cell \in Cells /\ cell \in DOMAIN lists /\ Len(producers[cell]) = 1
  BY RegistryAssumption DEF Cells, TypeOK, Projectable
<1>2. fact \in Fact(Ids) /\ RecognisedFact(cell, fact, DOMAIN returned)
  <2>1. producers[cell] \in Seq(Fact(Ids)) /\ DOMAIN producers = Cells
    BY <1>1 DEF TypeOK
  <2> QED  BY <1>1, <2>1 DEF Projectable
<1>3. ProjectableFact(cell, fact, returned, frozen)
  BY DEF Projectable
<1>4. rule.finding \subseteq {k}
  BY <1>2, RegistryAssumption DEF RecognisedFact
<1>5. Positions(SealedResults(returned)[cell], k) = Positions(returned[cell], k)
  BY SealedPositions
<1>6. Row(Owner[k], fact).finding =
        IF rule.finding = {} THEN {}
        ELSE {[code |-> v.code, status |-> v.status] : v \in fact.earned}
  BY DEF Row
<1>7. CASE rule.finding = {}
  <2>1. fact.earned = {}
    BY <1>3, <1>7 DEF ProjectableFact
  <2>2. Positions(returned[cell], k) = {}
    <3> HIDE DEF cell
    <3> QED  BY <1>1, <2>1, NothingEarnedNothingReturned DEF cell
  <2> QED  BY <1>5, <1>6, <1>7, <2>2
<1>8. CASE rule.finding # {}
  <2>1. PICK w \in fact.earned : w.code \in rule.finding
    BY <1>3, <1>8 DEF ProjectableFact
  <2>2. fact.earned = {w} /\ w.code = k
    BY <1>2, <1>4, <2>1 DEF Fact, Option
  <2>3. PICK p \in DOMAIN returned[cell] :
          Positions(returned[cell], k) = {p} /\ returned[cell][p] = w
    <3> HIDE DEF cell
    <3> QED  BY <1>1, <2>2, EarnedIsReturned DEF cell
  <2>4. Row(Owner[k], fact).finding = {[code |-> w.code, status |-> w.status]}
    BY <1>6, <1>8, <2>2
  <2> QED  BY <1>5, <2>3, <2>4, FS_Singleton
<1> QED  BY <1>7, <1>8

(* Observed and returned findings are the same ones in every document that *)
(* is ever published.                                                      *)
THEOREM PublishedEarned == Spec => []NothingUnearned
<1>1. Init => NothingUnearned
  BY DEF Init, NothingUnearned
<1>2. TypeOK /\ NothingUnearned /\ [Next]_vars => NothingUnearned'
  <2> SUFFICES ASSUME TypeOK, NothingUnearned, [Next]_vars PROVE NothingUnearned'
    OBVIOUS
  <2>1. CASE UNCHANGED document
    BY <2>1 DEF NothingUnearned
  <2>2. CASE document' # document
    <3> DEFINE d == Document(Levels, producers, returned, frozen)
    <3>1. /\ document' = {d}
          /\ FinalResultsHold
          /\ Projectable(Levels, producers, returned, frozen)
      BY <2>2, DocumentStep
    <3>2. d.results = SealedResults(returned) /\ DOMAIN d.results = DOMAIN returned
      BY DEF Document, SealedResults
    <3>3. \A l \in Levels, k \in Keys :
            d.rows[<<l, k>>] = Row(Owner[k], producers[<<l, Owner[k]>>][1])
      BY DEF Document, Rows
    <3>4. \A l \in Levels, k \in Keys :
            <<l, Owner[k]>> \in DOMAIN d.results =>
              Cardinality(Positions(d.results[<<l, Owner[k]>>], k))
                = Cardinality(d.rows[<<l, k>>].finding)
      <4> HIDE DEF d
      <4> QED  BY <3>1, <3>2, <3>3, PublicationEarned
    <3> HIDE DEF d
    <3> QED  BY <3>1, <3>4 DEF NothingUnearned
  <2> QED  BY <2>1, <2>2
<1> QED  BY <1>1, <1>2, TypeCorrect, PTL DEF Spec

-----------------------------------------------------------------------------
(***************************************************************************)
(* How far a run is.  The cells that were started are a prefix of the plan *)
(* without repetition; exactly they have returned, the last one excepted   *)
(* while its checker runs.                                                 *)
(***************************************************************************)
Finished == IF currentModule = NoModule THEN Len(actual) ELSE Len(actual) - 1

Progress ==
    /\ Len(actual) <= Len(Plan)
    /\ \A i \in DOMAIN actual : actual[i] = Plan[i]
    /\ \A i, j \in DOMAIN actual : actual[i] = actual[j] => i = j
    /\ DOMAIN lists = {actual[i] : i \in 1..Finished}
    /\ currentModule # NoModule => Len(actual) > 0 /\ actual[Len(actual)] = Here
    /\ currentLevel # NoLevel => currentLevel = loop

InProgress == outcome = "running" => Progress

LEMMA RejectEnds ==
    ASSUME NEW why \in Outcomes \ {"running"}, Reject(why)
    PROVE  outcome' # "running"
  BY DEF Reject

(* What a checker does to findings, facts, items of lists and the policy   *)
(* does not touch what the progress of a run is read from.                 *)
LEMMA CheckersDoNotSchedule ==
    ASSUME CheckerWorks \/ (\E p \in OtherPolicies \cup {StartPolicy} : ChangeLivePolicy(p))
    PROVE  /\ UNCHANGED <<outcome, loop, currentLevel, currentModule, actual, returned, document>>
           /\ DOMAIN lists' = DOMAIN lists
<1>1. ASSUME NEW cell \in DOMAIN lists, NEW id \in Ids, RewriteList(cell, id)
      PROVE  /\ UNCHANGED <<outcome, loop, currentLevel, currentModule, actual, returned,
                            document>>
             /\ DOMAIN lists' = DOMAIN lists
  BY <1>1 DEF RewriteList, capture
<1> QED  BY <1>1 DEF CheckerWorks, BuildFinding, Observe, ObserveNothing, Record,
                     RewriteFinding, ChangeLivePolicy, capture

LEMMA FinishedIsBounded ==
    ASSUME TypeOK, Progress
    PROVE  /\ Len(actual) \in Nat /\ DOMAIN actual = 1..Len(actual)
           /\ 1..Finished \subseteq DOMAIN actual
           /\ Finished \in Nat
<1>1. actual \in Seq(Cells)
  BY DEF TypeOK
<1>2. Len(actual) \in Nat /\ DOMAIN actual = 1..Len(actual)
  BY <1>1
<1> QED  BY <1>2 DEF Finished, Progress

LEMMA InvokeProgress ==
    ASSUME TypeOK, Progress, NEW m \in Modules, Invoke(m), outcome' = "running"
    PROVE  Progress'
<1>1. /\ currentModule = NoModule /\ currentLevel # NoLevel /\ CoreNext(m)
      /\ Len(actual) < Len(Plan)
      /\ Plan[Len(actual) + 1] = <<currentLevel, m>>
      /\ actual' = Append(actual, <<currentLevel, m>>)
      /\ currentModule' = m
      /\ UNCHANGED <<outcome, loop, currentLevel, lists>>
  BY DEF Invoke, Reject
<1>2. actual \in Seq(Cells) /\ Len(actual) \in Nat /\ DOMAIN actual = 1..Len(actual)
  BY FinishedIsBounded DEF TypeOK
<1>3. /\ Len(actual') = Len(actual) + 1 /\ DOMAIN actual' = 1..(Len(actual) + 1)
      /\ actual'[Len(actual) + 1] = <<currentLevel, m>>
      /\ \A i \in DOMAIN actual : actual'[i] = actual[i]
  BY <1>1, <1>2
<1>4. Len(actual') <= Len(Plan)
  BY <1>1, <1>2, <1>3, ExecutionAssumption
<1>5. Finished' = Len(actual) /\ Finished = Len(actual)
  <2>1. m # NoModule
    BY ExecutionAssumption
  <2> QED  BY <2>1, <1>1, <1>2, <1>3 DEF Finished
<1>6. <<currentLevel, m>> \notin {actual[i] : i \in DOMAIN actual}
  BY <1>1, <1>2, <1>5 DEF CoreNext, Progress
<1>7. \A i \in DOMAIN actual' : i \in DOMAIN actual \/ i = Len(actual) + 1
  BY <1>2, <1>3
<1>8. \A i \in DOMAIN actual' : actual'[i] = Plan[i]
  BY <1>1, <1>3, <1>7 DEF Progress
<1>9. \A i, j \in DOMAIN actual' : actual'[i] = actual'[j] => i = j
  BY <1>3, <1>6, <1>7 DEF Progress
<1>10. DOMAIN lists' = {actual'[i] : i \in 1..Finished'}
  BY <1>1, <1>2, <1>3, <1>5 DEF Progress
<1>11. Len(actual') > 0 /\ actual'[Len(actual')] = Here'
  BY <1>1, <1>2, <1>3 DEF Here
<1> QED  BY <1>1, <1>4, <1>8, <1>9, <1>10, <1>11 DEF Progress

LEMMA LastOrBefore ==
    ASSUME NEW n \in Nat, n > 0
    PROVE  /\ 1..n = 1..(n - 1) \cup {n}
           /\ n \in 1..n
  OBVIOUS

LEMMA ReturnProgress ==
    ASSUME TypeOK, Progress, NEW list \in ReturnedLists, CheckerReturns(list),
           outcome' = "running"
    PROVE  Progress'
<1>1. /\ currentModule # NoModule /\ currentModule' = NoModule
      /\ DOMAIN lists' = DOMAIN lists \cup {Here}
      /\ UNCHANGED <<outcome, loop, currentLevel, actual>>
  BY DEF CheckerReturns, Reject
<1>2. Len(actual) \in Nat /\ DOMAIN actual = 1..Len(actual) /\ Len(actual) > 0
  BY <1>1, FinishedIsBounded DEF Progress
<1>3. Finished = Len(actual) - 1 /\ Finished' = Len(actual)
  BY <1>1 DEF Finished
<1>4. 1..Len(actual) = 1..(Len(actual) - 1) \cup {Len(actual)}
  BY <1>2, LastOrBefore
<1>5. actual[Len(actual)] = Here /\ DOMAIN lists = {actual[i] : i \in 1..(Len(actual) - 1)}
  BY <1>1, <1>3 DEF Progress
<1>6. DOMAIN lists' = {actual[i] : i \in 1..Len(actual)}
  BY <1>1, <1>4, <1>5
<1> QED  BY <1>1, <1>3, <1>6 DEF Progress

LEMMA ProgressKept ==
    ASSUME Progress, UNCHANGED <<loop, currentLevel, currentModule, actual>>,
           DOMAIN lists' = DOMAIN lists
    PROVE  Progress'
<1>1. Finished' = Finished /\ Here' = Here
  BY DEF Finished, Here
<1>2. {actual'[i] : i \in 1..Finished'} = {actual[i] : i \in 1..Finished}
  BY <1>1
<1> QED  BY <1>1, <1>2 DEF Progress

LEMMA StepProgress == TypeOK /\ InProgress /\ [Next]_vars => InProgress'
<1> SUFFICES ASSUME TypeOK, InProgress, [Next]_vars, outcome' = "running" PROVE Progress'
  BY DEF InProgress
<1>1. outcome = "running"
  <2>1. ASSUME NEW list \in ReturnedLists, CheckerReturns(list) PROVE outcome = "running"
    BY <2>1 DEF CheckerReturns
  <2>2. CASE UNCHANGED vars
    BY <2>2 DEF vars
  <2> QED  BY <2>1, <2>2, CheckersDoNotSchedule
           DEF Next, RunnerStep, CheckerLeaves, BeginLevel, Invoke, EndLevel, CheckPolicy,
               Complete, CheckerRaises
<1>2. Progress
  BY <1>1 DEF InProgress
<1>3. CASE UNCHANGED vars
  BY <1>2, <1>3, ProgressKept DEF vars
<1>4. CASE CheckerWorks \/ (\E p \in OtherPolicies \cup {StartPolicy} : ChangeLivePolicy(p))
  BY <1>2, <1>4, CheckersDoNotSchedule, ProgressKept
<1>5. CASE BeginLevel
  <2>1. currentModule = NoModule
    BY <1>5 DEF BeginLevel, TypeOK, NoLevel, Levels
  <2> QED  BY <1>2, <1>5, <2>1 DEF BeginLevel, Progress, Finished
<1>6. CASE EndLevel
  BY <1>2, <1>6 DEF EndLevel, Reject, Progress, Finished, Here
<1>7. CASE Complete
  BY <1>7 DEF Complete, Reject
<1>8. CASE CheckerRaises
  BY <1>8 DEF CheckerRaises, Reject
<1>9. CASE CheckPolicy
  <2>1. ~ Reject("policy changed")
    BY DEF Reject
  <2>2. currentLevel = NoLevel
    BY <1>2, <1>9, <2>1, PolicyHeldStep DEF Progress, TypeOK
  <2>3. UNCHANGED <<currentLevel, currentModule, actual, lists>>
    BY <1>9, <2>1, PolicyHeldStep DEF capture
  <2> QED  BY <1>2, <2>2, <2>3 DEF Progress, Finished, Here
<1> QED  BY <1>2, <1>3, <1>4, <1>5, <1>6, <1>7, <1>8, <1>9, InvokeProgress, ReturnProgress
         DEF Next, RunnerStep, CheckerLeaves

LEMMA RunsMakeProgress == Spec => []InProgress
<1>1. Init => InProgress
  <2> SUFFICES ASSUME Init PROVE Progress
    BY DEF InProgress
  <2>1. actual = <<>> /\ Len(actual) = 0 /\ DOMAIN actual = {} /\ Finished = 0
    BY DEF Init, Finished
  <2>2. Len(Plan) \in Nat
    BY ExecutionAssumption
  <2> QED  BY <2>1, <2>2 DEF Init, Progress
<1> QED  BY <1>1, StepProgress, TypeCorrect, PTL DEF Spec

(***************************************************************************)
(* The schedule.  What is started belongs to the levels that ended and to  *)
(* the current one, and of the levels that ended nothing is left out.      *)
(***************************************************************************)
LevelsInOrder ==
    /\ \A i \in DOMAIN actual :
         Plan[i][1] < loop \/ (Plan[i][1] = loop /\ currentLevel # NoLevel)
    /\ \A i \in DOMAIN Plan : Plan[i][1] < loop => i \in DOMAIN actual

InSchedule == outcome = "running" => LevelsInOrder

LEMMA PlanTypes ==
    /\ Len(Plan) \in Nat /\ DOMAIN Plan = 1..Len(Plan)
    /\ \A i \in DOMAIN Plan :
         /\ Plan[i] \in Levels \X Modules
         /\ Plan[i] = <<Plan[i][1], Plan[i][2]>>
         /\ Plan[i][1] \in Int /\ Plan[i][1] >= 0 /\ Plan[i][1] <= MaxLevel
         /\ CoreOrder[Plan[i][2]] \in Int
<1>1. Plan \in Seq(Levels \X Modules) /\ MaxLevel \in Int
  BY ExecutionAssumption DEF Cells
<1>2. \A i \in DOMAIN Plan : Plan[i] \in Levels \X Modules
  BY <1>1
<1>3. \A c \in Levels \X Modules :
        c = <<c[1], c[2]>> /\ c[1] \in Levels /\ c[2] \in Modules
  OBVIOUS
<1>4. \A l \in Levels : l \in Int /\ l >= 0 /\ l <= MaxLevel
  BY <1>1 DEF Levels
<1>5. \A m \in Modules : CoreOrder[m] \in Int
  BY ExecutionAssumption
<1> QED  BY <1>1, <1>2, <1>3, <1>4, <1>5

(* In a plan that agrees with the if-chain a cell stands once.             *)
LEMMA PlannedOnce ==
    ASSUME ScheduleAgrees, NEW i \in DOMAIN Plan, NEW j \in DOMAIN Plan, Plan[i] = Plan[j]
    PROVE  i = j
<1>1. ASSUME NEW a \in DOMAIN Plan, NEW b \in DOMAIN Plan, a < b PROVE Plan[a] # Plan[b]
  <2>1. \/ Plan[a][1] < Plan[b][1]
        \/ CoreOrder[Plan[a][2]] < CoreOrder[Plan[b][2]]
    BY <1>1 DEF ScheduleAgrees
  <2> QED  BY <2>1, PlanTypes
<1> QED  BY <1>1, PlanTypes

(* The module whose turn it is in the if-chain is the next of the plan.    *)
LEMMA NextIsPlanned ==
    ASSUME ScheduleAgrees, TypeOK, Progress, LevelsInOrder,
           NEW m \in Modules, currentLevel # NoLevel, currentModule = NoModule, CoreNext(m)
    PROVE  /\ Len(actual) < Len(Plan)
           /\ Plan[Len(actual) + 1] = <<currentLevel, m>>
<1> DEFINE n == Len(actual)
<1>1. n \in Nat /\ DOMAIN actual = 1..n /\ DOMAIN lists = {actual[i] : i \in 1..n}
  BY FinishedIsBounded DEF Progress, Finished
<1>2. PICK j \in DOMAIN Plan : Plan[j] = <<currentLevel, m>>
  BY DEF CoreNext, Active
<1>3. j \in 1..Len(Plan) /\ Len(Plan) \in Nat
  BY PlanTypes
<1>4. j \notin 1..n
  <2>1. \A i \in 1..n : actual[i] = Plan[i]
    BY <1>1 DEF Progress
  <2> QED  BY <2>1, <1>1, <1>2 DEF CoreNext
<1>5. n + 1 \in DOMAIN Plan /\ n + 1 <= j /\ n < Len(Plan) /\ n + 1 \notin 1..n
  BY <1>1, <1>3, <1>4, PlanTypes
<1>6. ASSUME n + 1 < j PROVE FALSE
  <2>1. \/ Plan[n + 1][1] < currentLevel
        \/ Plan[n + 1][1] = currentLevel /\ CoreOrder[Plan[n + 1][2]] < CoreOrder[m]
    BY <1>2, <1>5, <1>6 DEF ScheduleAgrees
  <2>2. ~ (Plan[n + 1][1] < currentLevel)
    BY <1>1, <1>5 DEF LevelsInOrder, Progress
  <2>3. Plan[n + 1] = <<currentLevel, Plan[n + 1][2]>> /\ Plan[n + 1][2] \in Modules
    BY <1>5, <2>1, <2>2, PlanTypes
  <2>4. Plan[n + 1][2] \in Active(currentLevel)
    BY <1>5, <2>3 DEF Active
  <2>5. Plan[n + 1] \in DOMAIN lists
    BY <2>1, <2>2, <2>3, <2>4 DEF CoreNext
  <2>6. PICK i \in 1..n : actual[i] = Plan[n + 1]
    BY <1>1, <2>5
  <2>7. Plan[i] = Plan[n + 1] /\ i \in DOMAIN Plan
    BY <1>1, <1>3, <1>5, <2>6, PlanTypes DEF Progress
  <2>8. i = n + 1
    BY <1>5, <2>7, PlannedOnce
  <2> QED  BY <1>5, <2>8
<1>7. n + 1 = j
  BY <1>1, <1>3, <1>5, <1>6
<1> QED  BY <1>2, <1>5, <1>7

(* When every module of a level has returned, all its cells were started.  *)
LEMMA LevelIsDone ==
    ASSUME ScheduleAgrees, TypeOK, Progress, NEW l \in Levels,
           \A m \in Active(l) : <<l, m>> \in DOMAIN lists,
           NEW i \in DOMAIN Plan, Plan[i][1] = l
    PROVE  i \in DOMAIN actual
<1>1. Plan[i] = <<l, Plan[i][2]>> /\ Plan[i][2] \in Active(l)
  BY PlanTypes DEF Active
<1>2. PICK j \in 1..Finished : actual[j] = Plan[i]
  BY <1>1 DEF Progress
<1>3. j \in DOMAIN actual /\ Plan[j] = Plan[i]
  BY <1>2, FinishedIsBounded DEF Progress
<1>4. j \in DOMAIN Plan
  BY <1>3, FinishedIsBounded, PlanTypes DEF Progress
<1> QED  BY <1>3, <1>4, PlannedOnce

LEMMA LevelRanAsPlanned ==
    ASSUME ScheduleAgrees, TypeOK, Progress, NEW l \in Levels,
           \A m \in Active(l) : <<l, m>> \in DOMAIN lists
    PROVE  RanAsPlanned(l)
<1> DEFINE same == [i \in At(actual, l) |-> i]
<1>1. At(actual, l) = At(Plan, l)
  <2>1. \A i \in DOMAIN actual : i \in DOMAIN Plan /\ actual[i] = Plan[i]
    BY FinishedIsBounded, PlanTypes DEF Progress
  <2> QED  BY <2>1, LevelIsDone DEF At
<1>2. same \in InOrder(At(actual, l), At(Plan, l))
  BY <1>1 DEF InOrder
<1>3. \A i \in At(actual, l) : actual[i] = Plan[same[i]]
  BY DEF At, Progress
<1> QED  BY <1>2, <1>3 DEF RanAsPlanned

LEMMA InvokeInSchedule ==
    ASSUME ScheduleAgrees, TypeOK, Progress, LevelsInOrder, outcome = "running",
           NEW m \in Modules, Invoke(m)
    PROVE  outcome' = "running" /\ LevelsInOrder'
<1>1. /\ Len(actual) < Len(Plan)
      /\ Plan[Len(actual) + 1] = <<currentLevel, m>>
      /\ currentLevel # NoLevel /\ currentLevel = loop
  BY NextIsPlanned DEF Invoke, Progress
<1>2. Len(actual) \in Nat /\ Len(Plan) \in Nat /\ DOMAIN actual = 1..Len(actual)
  BY FinishedIsBounded, PlanTypes
<1>3. /\ actual' = Append(actual, <<currentLevel, m>>)
      /\ UNCHANGED <<outcome, loop, currentLevel>>
  <2>1. ~ (Len(actual) >= Len(Plan))
    BY <1>1, <1>2
  <2> QED  BY <1>1, <2>1 DEF Invoke
<1>4. DOMAIN actual' = DOMAIN actual \cup {Len(actual) + 1}
  <2>1. actual \in Seq(Cells)
    BY DEF TypeOK
  <2> QED  BY <2>1, <1>2, <1>3
<1>5. Plan[Len(actual) + 1][1] = loop
  BY <1>1
<1> QED  BY <1>1, <1>3, <1>4, <1>5 DEF LevelsInOrder

LEMMA EndLevelInSchedule ==
    ASSUME ScheduleAgrees, TypeOK, Progress, LevelsInOrder, outcome = "running", EndLevel
    PROVE  outcome' = "running" /\ LevelsInOrder'
<1>1. /\ currentLevel \in Levels /\ currentLevel = loop /\ loop \in Int
      /\ \A m \in Active(currentLevel) : <<currentLevel, m>> \in DOMAIN lists
  <2>1. currentLevel \in Levels /\ currentLevel = loop
    BY DEF EndLevel, TypeOK
  <2>2. \A l \in Levels : l \in Int
    BY ExecutionAssumption DEF Levels
  <2> QED  BY <2>1, <2>2 DEF EndLevel
<1>2. RanAsPlanned(currentLevel)
  BY <1>1, LevelRanAsPlanned
<1>3. \A k \in Keys : Owner[k] \notin Active(currentLevel) => OnlyOne(SchedulerBranches(Owner[k]))
  BY <1>1 DEF ScheduleAgrees
<1>4. UNCHANGED <<outcome, actual>> /\ loop' = loop + 1 /\ currentLevel' = NoLevel
  BY <1>2, <1>3 DEF EndLevel
<1>5. \A i \in DOMAIN actual : Plan[i][1] < loop + 1
  <2>1. \A i \in DOMAIN actual : i \in DOMAIN Plan
    BY FinishedIsBounded, PlanTypes DEF Progress
  <2> QED  BY <1>1, <2>1, PlanTypes DEF LevelsInOrder
<1>6. ASSUME NEW i \in DOMAIN Plan, Plan[i][1] < loop + 1 PROVE i \in DOMAIN actual
  <2>1. Plan[i][1] < loop \/ Plan[i][1] = currentLevel
    BY <1>1, <1>6, PlanTypes
  <2> QED  BY <1>1, <2>1, LevelIsDone DEF LevelsInOrder
<1> QED  BY <1>4, <1>5, <1>6 DEF LevelsInOrder

(* Past the last level nothing of the plan is left.                        *)
LEMMA CompleteInSchedule ==
    ASSUME TypeOK, Progress, LevelsInOrder, Complete
    PROVE  outcome' \notin ScheduleErrors
<1>1. loop \in Int /\ loop > MaxLevel /\ currentLevel = NoLevel
  <2>1. loop = PolicyHeld
    BY DEF Complete
  <2>2. loop \in Int /\ loop > MaxLevel /\ loop \notin Levels
    BY <2>1, ExecutionAssumption DEF PolicyHeld, Levels
  <2> QED  BY <2>2 DEF TypeOK, Progress
<1>2. \A i \in DOMAIN Plan : Plan[i][1] < loop
  <2>1. loop \in Int /\ loop > MaxLevel
    BY <1>1
  <2>2. MaxLevel \in Int
    BY ExecutionAssumption
  <2> QED  BY <2>1, <2>2, PlanTypes
<1>3. actual = Plan
  <2>1. DOMAIN actual = DOMAIN Plan
    BY <1>2, FinishedIsBounded, PlanTypes DEF LevelsInOrder, Progress
  <2>2. actual \in Seq(Cells) /\ Plan \in Seq(Cells)
    BY ExecutionAssumption DEF TypeOK
  <2>3. Len(actual) = Len(Plan)
    BY <2>1, FinishedIsBounded, PlanTypes DEF Progress
  <2> QED  BY <2>2, <2>3 DEF Progress
<1> QED  BY <1>1, <1>3 DEF Complete, Reject, ScheduleErrors

LEMMA ActualWithinPlan ==
    ASSUME TypeOK, Progress
    PROVE  DOMAIN actual \subseteq DOMAIN Plan
<1>1. /\ Len(actual) \in Nat /\ DOMAIN actual = 1..Len(actual)
      /\ Len(Plan) \in Nat /\ DOMAIN Plan = 1..Len(Plan)
      /\ Len(actual) <= Len(Plan)
  BY FinishedIsBounded, PlanTypes DEF Progress
<1> QED  BY <1>1

LEMMA CheckPolicyInSchedule ==
    ASSUME TypeOK, Progress, LevelsInOrder, CheckPolicy, ~ Reject("policy changed")
    PROVE  LevelsInOrder'
<1>1. \A i \in DOMAIN Plan : Plan[i][1] \in Levels
  BY PlanTypes
<1>2. /\ UNCHANGED <<outcome, actual, currentLevel>>
      /\ \A l \in Levels : l < loop /\ l < loop'
  BY PolicyHeldStep DEF capture
<1>3. \A i \in DOMAIN Plan : i \in DOMAIN actual
  BY <1>1, <1>2 DEF LevelsInOrder
<1>4. \A i \in DOMAIN Plan : Plan[i][1] < loop'
  BY <1>1, <1>2
<1>5. DOMAIN actual \subseteq DOMAIN Plan
  BY ActualWithinPlan
<1> QED  BY <1>2, <1>3, <1>4, <1>5 DEF LevelsInOrder

LEMMA StepInSchedule ==
    ASSUME ScheduleAgrees, TypeOK, InProgress, InSchedule, SchedulerNeverDisagrees, [Next]_vars
    PROVE  InSchedule' /\ SchedulerNeverDisagrees'
<1> USE DEF SchedulerNeverDisagrees
<1>1. CASE outcome # "running"
  <2>1. UNCHANGED outcome
    BY <1>1, CheckersDoNotSchedule
       DEF Next, RunnerStep, CheckerLeaves, BeginLevel, Invoke, EndLevel, CheckPolicy,
           Complete, CheckerReturns, CheckerRaises, vars
  <2> QED  BY <1>1, <2>1 DEF InSchedule
<1>2. CASE outcome = "running"
  <2>1. Progress /\ LevelsInOrder /\ outcome \notin ScheduleErrors
    BY <1>2 DEF InProgress, InSchedule
  <2>2. ASSUME UNCHANGED <<outcome, loop, currentLevel, actual>>
        PROVE  InSchedule' /\ outcome' \notin ScheduleErrors
    BY <2>1, <2>2 DEF InSchedule, LevelsInOrder
  <2>3. CASE BeginLevel
    <3>1. loop \in Levels /\ currentLevel = NoLevel /\ currentLevel' = loop /\ loop # NoLevel
      BY <2>3 DEF BeginLevel, Levels, NoLevel
    <3> QED  BY <2>1, <2>3, <3>1 DEF BeginLevel, InSchedule, LevelsInOrder
  <2>4. ASSUME NEW m \in Modules, Invoke(m)
        PROVE  InSchedule' /\ outcome' \notin ScheduleErrors
    BY <1>2, <2>1, <2>4, InvokeInSchedule DEF InSchedule, ScheduleErrors
  <2>5. CASE EndLevel
    BY <1>2, <2>1, <2>5, EndLevelInSchedule DEF InSchedule, ScheduleErrors
  <2>6. CASE Complete
    <3>1. outcome' # "running"
      BY <2>6 DEF Complete, Reject
    <3> QED  BY <2>1, <2>6, <3>1, CompleteInSchedule DEF InSchedule
  <2>7. ASSUME NEW list \in ReturnedLists, CheckerReturns(list)
        PROVE  InSchedule' /\ outcome' \notin ScheduleErrors
    <3>1. CASE Reject("not as earned")
      BY <3>1 DEF Reject, InSchedule, ScheduleErrors
    <3>2. CASE ~ Reject("not as earned")
      BY <2>2, <2>7, <3>2 DEF CheckerReturns
    <3> QED  BY <3>1, <3>2
  <2>8. CASE CheckerRaises
    BY <2>8 DEF CheckerRaises, Reject, InSchedule, ScheduleErrors
  <2>9. CASE CheckPolicy
    <3>1. CASE Reject("policy changed")
      BY <3>1 DEF Reject, InSchedule, ScheduleErrors
    <3>2. CASE ~ Reject("policy changed")
      <4>1. LevelsInOrder' /\ UNCHANGED outcome
        BY <2>1, <2>9, <3>2, CheckPolicyInSchedule, PolicyHeldStep
      <4> QED  BY <2>1, <4>1 DEF InSchedule
    <3> QED  BY <3>1, <3>2
  <2> QED  BY <2>2, <2>3, <2>4, <2>5, <2>6, <2>7, <2>8, <2>9, CheckersDoNotSchedule
           DEF Next, RunnerStep, CheckerLeaves, vars
<1> QED  BY <1>1, <1>2

(* Where the level table is in the order of the if-chain, as the shipped   *)
(* one is, no checker and no callback can make the scheduler reject its    *)
(* own run: none of the RuntimeErrors of _invoke, _end_level and           *)
(* _complete_execution about the schedule is ever raised.                  *)
THEOREM ScheduleHolds == ScheduleAgrees => (Spec => []SchedulerNeverDisagrees)
<1> SUFFICES ASSUME ScheduleAgrees PROVE Spec => []SchedulerNeverDisagrees
  OBVIOUS
<1>1. Init => InSchedule /\ SchedulerNeverDisagrees
  <2> SUFFICES ASSUME Init PROVE LevelsInOrder /\ SchedulerNeverDisagrees
    BY DEF InSchedule
  <2>1. \A i \in DOMAIN Plan : ~ (Plan[i][1] < 0)
    BY PlanTypes
  <2> QED  BY <2>1 DEF Init, LevelsInOrder, SchedulerNeverDisagrees, ScheduleErrors
<1>2. TypeOK /\ InProgress /\ InSchedule /\ SchedulerNeverDisagrees /\ [Next]_vars
        => InSchedule' /\ SchedulerNeverDisagrees'
  BY StepInSchedule
<1> QED  BY <1>1, <1>2, TypeCorrect, RunsMakeProgress, PTL DEF Spec

(***************************************************************************)
(* A finding is observed only by the owner of its code, and the cells that *)
(* are not scheduled hold what _end_level wrote for the levels that ended. *)
(***************************************************************************)
ObservedByOwner ==
    \A cell \in Cells : \A i \in DOMAIN producers[cell] :
      \A w \in producers[cell][i].earned : w.code \in PilotCode(cell[2])

IdleFact(cell) ==
    IF cell[1] < loop /\ PilotCode(cell[2]) # {} THEN <<SchedulerFact(cell[2])>> ELSE <<>>

IdleAccounted ==
    \A cell \in Cells : cell[2] \notin Active(cell[1]) =>
      /\ producers[cell] = IdleFact(cell)
      /\ cell[1] < loop /\ PilotCode(cell[2]) # {} => OnlyOne(SchedulerBranches(cell[2]))

FactsOwned == ObservedByOwner /\ IdleAccounted

LEMMA CellTypes ==
    \A cell \in Cells : /\ cell = <<cell[1], cell[2]>> /\ cell[2] \in Modules
                        /\ cell[1] \in Levels /\ cell[1] \in Int /\ cell[1] >= 0
<1>1. \A cell \in Levels \X Modules : cell = <<cell[1], cell[2]>> /\ cell[1] \in Levels
                                      /\ cell[2] \in Modules
  OBVIOUS
<1>2. \A l \in Levels : l \in Int /\ l >= 0
  BY ExecutionAssumption DEF Levels
<1> QED  BY <1>1, <1>2 DEF Cells

(* A checker that runs is one of the plan.                                 *)
LEMMA HereIsActive ==
    ASSUME TypeOK, Progress, currentModule # NoModule
    PROVE  Here \in Cells /\ currentModule \in Active(currentLevel)
<1>1. Len(actual) \in DOMAIN actual /\ Len(actual) \in DOMAIN Plan
  BY FinishedIsBounded, PlanTypes DEF Progress
<1>2. Plan[Len(actual)] = <<currentLevel, currentModule>>
  BY <1>1 DEF Progress, Here
<1>3. Here \in Cells /\ currentModule \in Modules
  BY DEF TypeOK, Here, Cells
<1> QED  BY <1>1, <1>2, <1>3 DEF Active

LEMMA RecordOwned ==
    ASSUME TypeOK, InProgress, FactsOwned, NEW fact \in Fact(Ids), Record(fact),
           \A w \in fact.earned : w.code \in PilotCode(currentModule)
    PROVE  FactsOwned'
<1>1. /\ currentModule # NoModule /\ Progress
      /\ producers' = [producers EXCEPT ![Here] = Append(@, fact)] /\ loop' = loop
  BY DEF Record, InChecker, InProgress
<1>2. Here \in Cells /\ Here[1] = currentLevel /\ Here[2] = currentModule
      /\ currentModule \in Active(currentLevel)
  BY <1>1, HereIsActive DEF Here
<1>3. \A cell \in Cells : cell # Here => producers'[cell] = producers[cell]
  BY <1>1 DEF TypeOK
<1>4. producers[Here] \in Seq(Fact(Ids)) /\ producers'[Here] = Append(producers[Here], fact)
  BY <1>1, <1>2 DEF TypeOK
<1>5. \A i \in DOMAIN producers'[Here] :
        \/ producers'[Here][i] = fact
        \/ i \in DOMAIN producers[Here] /\ producers'[Here][i] = producers[Here][i]
  BY <1>4
<1>6. ObservedByOwner'
  <2> SUFFICES ASSUME NEW cell \in Cells, NEW i \in DOMAIN producers'[cell],
                      NEW w \in producers'[cell][i].earned
               PROVE  w.code \in PilotCode(cell[2])
    BY DEF ObservedByOwner
  <2>1. CASE cell = Here
    BY <1>2, <1>5, <2>1 DEF FactsOwned, ObservedByOwner
  <2>2. CASE cell # Here
    BY <1>3, <2>2 DEF FactsOwned, ObservedByOwner
  <2> QED  BY <2>1, <2>2
<1>7. \A cell \in Cells : cell[2] \notin Active(cell[1]) => cell # Here
  BY <1>2
<1>8. IdleAccounted'
  BY <1>1, <1>3, <1>7 DEF FactsOwned, IdleAccounted, IdleFact
<1> QED  BY <1>6, <1>8 DEF FactsOwned

LEMMA LoopIsInt == TypeOK => loop \in Int
<1>1. MaxLevel \in Int
  BY ExecutionAssumption
<1> QED  BY <1>1 DEF TypeOK, PolicyHeld

LEMMA AppendToEmpty == ASSUME NEW x PROVE Append(<<>>, x) = <<x>>
<1>1. x \in {x} /\ <<>> \in Seq({x})
  OBVIOUS
<1> QED  BY <1>1

LEMMA AppendItems ==
    ASSUME NEW S, NEW s \in Seq(S), NEW x, NEW i \in DOMAIN Append(s, x)
    PROVE  (i \in DOMAIN s /\ Append(s, x)[i] = s[i]) \/ Append(s, x)[i] = x
<1>1. s \in Seq(S \cup {x}) /\ x \in S \cup {x}
  OBVIOUS
<1> QED  BY <1>1

LEMMA BelowNext ==
    ASSUME NEW a \in Int, NEW l \in Int
    PROVE  (a < l + 1 <=> a < l \/ a = l) /\ ~ (l < l)
  OBVIOUS

LEMMA EndLevelOwned ==
    ASSUME TypeOK, FactsOwned, EndLevel, ~ Reject("level not as planned")
    PROVE  FactsOwned'
<1> DEFINE idle == {m \in {Owner[k] : k \in Keys} : m \notin Active(currentLevel)}
<1>1. /\ currentLevel = loop /\ loop' = loop + 1
      /\ \A m \in idle : OnlyOne(SchedulerBranches(m))
  BY DEF EndLevel
<1>2. producers' = [cell \in Cells |->
            IF cell[1] = currentLevel /\ cell[2] \in idle
            THEN Append(producers[cell], SchedulerFact(cell[2]))
            ELSE producers[cell]]
  BY DEF EndLevel
<1>3. loop \in Int
  BY LoopIsInt
<1>4. \A m \in Modules : m \in idle <=> PilotCode(m) # {} /\ m \notin Active(currentLevel)
  BY DEF PilotCode
<1> HIDE DEF idle
<1>5. ObservedByOwner'
  <2> SUFFICES ASSUME NEW cell \in Cells, NEW i \in DOMAIN producers'[cell],
                      NEW w \in producers'[cell][i].earned
               PROVE  w.code \in PilotCode(cell[2])
    BY DEF ObservedByOwner
  <2>1. producers[cell] \in Seq(Fact(Ids))
    BY DEF TypeOK
  <2>2. \/ i \in DOMAIN producers[cell] /\ producers'[cell][i] = producers[cell][i]
        \/ producers'[cell][i] = SchedulerFact(cell[2])
    <3>1. \/ producers'[cell] = producers[cell]
          \/ producers'[cell] = Append(producers[cell], SchedulerFact(cell[2]))
      BY <1>2
    <3>2. CASE producers'[cell] = producers[cell]
      BY <3>2
    <3>3. CASE producers'[cell] = Append(producers[cell], SchedulerFact(cell[2]))
      <4>1. i \in DOMAIN Append(producers[cell], SchedulerFact(cell[2]))
        BY <3>3
      <4>2. \/ /\ i \in DOMAIN producers[cell]
               /\ Append(producers[cell], SchedulerFact(cell[2]))[i] = producers[cell][i]
            \/ Append(producers[cell], SchedulerFact(cell[2]))[i] = SchedulerFact(cell[2])
        BY <2>1, <4>1, AppendItems, Zenon
      <4> QED  BY <3>3, <4>2
    <3> QED  BY <3>1, <3>2, <3>3
  <2>3. SchedulerFact(cell[2]).earned = {}
    BY DEF SchedulerFact
  <2> QED  BY <2>2, <2>3 DEF FactsOwned, ObservedByOwner
<1>6. ASSUME NEW cell \in Cells, cell[2] \notin Active(cell[1])
      PROVE  /\ producers'[cell] = IdleFact(cell)'
             /\ cell[1] < loop' /\ PilotCode(cell[2]) # {} => OnlyOne(SchedulerBranches(cell[2]))
  <2>1. /\ producers[cell] = IdleFact(cell)
        /\ cell[1] < loop /\ PilotCode(cell[2]) # {} => OnlyOne(SchedulerBranches(cell[2]))
    BY <1>6 DEF FactsOwned, IdleAccounted
  <2>2. cell[1] \in Int /\ cell[2] \in Modules
    BY CellTypes
  <2>3. cell[1] < loop' <=> cell[1] < loop \/ cell[1] = currentLevel
    BY <1>1, <1>3, <2>2, BelowNext
  <2>4. CASE cell[1] = currentLevel
    <3>1. producers[cell] = <<>>
      <4>1. ~ (loop < loop)
        BY <1>3, BelowNext
      <4> QED  BY <1>1, <2>1, <2>4, <4>1 DEF IdleFact
    <3>2. CASE PilotCode(cell[2]) # {}
      <4>1. cell[2] \in idle
        BY <1>4, <1>6, <2>2, <2>4, <3>2
      <4>2. producers'[cell] = <<SchedulerFact(cell[2])>>
        <5>1. producers'[cell] = Append(<<>>, SchedulerFact(cell[2]))
          BY <1>2, <2>4, <3>1, <4>1
        <5> QED  BY <5>1, AppendToEmpty
      <4> QED  BY <1>1, <2>3, <2>4, <3>2, <4>1, <4>2 DEF IdleFact
    <3>3. CASE PilotCode(cell[2]) = {}
      <4>1. cell[2] \notin idle
        BY <1>4, <2>2, <3>3
      <4>2. producers'[cell] = <<>>
        BY <1>2, <3>1, <4>1
      <4> QED  BY <3>3, <4>2 DEF IdleFact
    <3> QED  BY <3>2, <3>3
  <2>5. CASE cell[1] # currentLevel
    <3>1. producers'[cell] = producers[cell]
      BY <1>2, <2>5
    <3> QED  BY <2>1, <2>3, <2>5, <3>1 DEF IdleFact
  <2> QED  BY <2>4, <2>5
<1>7. IdleAccounted'
  BY <1>6 DEF IdleAccounted, IdleFact
<1> QED  BY <1>5, <1>7 DEF FactsOwned

LEMMA StepOwned == TypeOK /\ InProgress /\ FactsOwned /\ [Next]_vars => FactsOwned'
<1> SUFFICES ASSUME TypeOK, InProgress, FactsOwned, [Next]_vars PROVE FactsOwned'
  OBVIOUS
<1>1. ASSUME NEW why, Reject(why) PROVE FactsOwned'
  <2>1. producers' = [cell \in Cells |-> <<>>] /\ loop' = 0
    BY <1>1 DEF Reject
  <2>2. \A cell \in Cells : ~ (cell[1] < 0)
    BY CellTypes
  <2> QED  BY <2>1, <2>2 DEF FactsOwned, ObservedByOwner, IdleAccounted, IdleFact
<1>2. ASSUME UNCHANGED <<producers, loop>> PROVE FactsOwned'
  BY <1>2 DEF FactsOwned, ObservedByOwner, IdleAccounted, IdleFact
<1>3. ASSUME NEW m \in Modules, Invoke(m) PROVE FactsOwned'
  BY <1>1, <1>2, <1>3 DEF Invoke
<1>4. ASSUME EndLevel PROVE FactsOwned'
  BY <1>1, <1>4, EndLevelOwned
<1>5. ASSUME Complete PROVE FactsOwned'
  BY <1>1, <1>2, <1>5 DEF Complete, capture
<1>9. ASSUME CheckPolicy PROVE FactsOwned'
  <2>1. CASE Reject("policy changed")
    BY <1>1, <2>1
  <2>2. CASE ~ Reject("policy changed")
    <3>1. UNCHANGED producers /\ \A l \in Levels : l < loop /\ l < loop'
      BY <1>9, <2>2, PolicyHeldStep DEF capture
    <3>2. \A cell \in Cells : cell[1] < loop /\ cell[1] < loop'
      BY <3>1, CellTypes
    <3> QED  BY <3>1, <3>2 DEF FactsOwned, ObservedByOwner, IdleAccounted, IdleFact
  <2> QED  BY <2>1, <2>2
<1>6. ASSUME NEW list \in ReturnedLists, CheckerReturns(list) PROVE FactsOwned'
  BY <1>1, <1>2, <1>6 DEF CheckerReturns
<1>7. ASSUME NEW b \in Branches, NEW id \in Ids, Observe(b, id) PROVE FactsOwned'
  <2> DEFINE fact == [branch |-> b, earned |-> {SealOf(id)},
                      counts |-> {CountsAsLevelFailure(frozen, heap[id], currentLevel)}]
  <2>1. fact \in Fact(Ids)
    BY SealType DEF Fact, Option, CountsAsLevelFailure
  <2>2. \A w \in fact.earned : w.code \in PilotCode(currentModule)
    BY <1>7 DEF Observe, SealOf
  <2> QED  BY <1>7, <2>1, <2>2, RecordOwned DEF Observe
<1>8. ASSUME NEW b \in Branches, ObserveNothing(b) PROVE FactsOwned'
  <2>1. [branch |-> b, earned |-> {}, counts |-> {}] \in Fact(Ids)
    BY DEF Fact, Option
  <2> QED  BY <1>8, <2>1, RecordOwned DEF ObserveNothing
<1> QED  BY <1>1, <1>2, <1>3, <1>4, <1>5, <1>6, <1>7, <1>8, <1>9
         DEF Next, RunnerStep, CheckerLeaves, CheckerWorks, BeginLevel, CheckerRaises,
             BuildFinding, RewriteFinding, RewriteList, ChangeLivePolicy, capture, vars

LEMMA FactsAreOwned == Spec => []FactsOwned
<1>1. Init => FactsOwned
  <2>1. \A cell \in Cells : ~ (cell[1] < 0)
    BY CellTypes
  <2> QED  BY <2>1 DEF Init, FactsOwned, ObservedByOwner, IdleAccounted, IdleFact
<1> QED  BY <1>1, StepOwned, TypeCorrect, RunsMakeProgress, PTL DEF Spec

(***************************************************************************)
(* Execution implements AtomicRun.  AtomicRun's operators on the registry  *)
(* are those of Execution, the capture's facts and witnesses stand for     *)
(* their values.                                                           *)
(***************************************************************************)
LEMMA SameCardinality == \A S : Atomic!Cardinality(S) = Cardinality(S)
  BY DEF Atomic!Cardinality, Cardinality

LEMMA SameOperators ==
    /\ \A m : Atomic!PilotCode(m) = PilotCode(m)
    /\ \A I, P : Atomic!InOrder(I, P) = InOrder(I, P)
    /\ \A p, f, l : Atomic!CountsAsLevelFailure(p, f, l) = CountsAsLevelFailure(p, f, l)
    /\ \A ls, fs, rs, p : Atomic!Projectable(ls, fs, rs, p) = Projectable(ls, fs, rs, p)
    /\ \A ls, fs, rs, p : Atomic!Document(ls, fs, rs, p) = Document(ls, fs, rs, p)
    /\ Atomic!Levels = Levels
<1>1. /\ \A m : Atomic!PilotCode(m) = PilotCode(m)
      /\ \A I, P : Atomic!InOrder(I, P) = InOrder(I, P)
      /\ \A p, f, l : Atomic!CountsAsLevelFailure(p, f, l) = CountsAsLevelFailure(p, f, l)
      /\ Atomic!Levels = Levels
  BY DEF Atomic!PilotCode, PilotCode, Atomic!InOrder, InOrder, Atomic!Levels, Levels,
         Atomic!CountsAsLevelFailure, CountsAsLevelFailure, Atomic!UnverifiedFails,
         UnverifiedFails
<1>2. \A ls, fs, rs, p : Atomic!Projectable(ls, fs, rs, p) = Projectable(ls, fs, rs, p)
  BY DEF Atomic!Projectable, Projectable, Atomic!RecognisedFact, RecognisedFact,
         Atomic!ProjectableFact, ProjectableFact, Atomic!BlockedBy, BlockedBy,
         Atomic!OnlyOne, OnlyOne, Atomic!Positions, Positions,
         Atomic!CountsAsLevelFailure, CountsAsLevelFailure, Atomic!UnverifiedFails,
         UnverifiedFails
<1>3. \A ls, fs, rs, p : Atomic!Document(ls, fs, rs, p) = Document(ls, fs, rs, p)
  <2>1. \A r : Atomic!RoleProjection(r) = RoleProjection(r)
    BY DEF Atomic!RoleProjection, RoleProjection
  <2>2. \A m, f : Atomic!Row(m, f) = Row(m, f)
    BY <2>1 DEF Atomic!Row, Row
  <2>3. \A ls, fs : Atomic!Rows(ls, fs) = Rows(ls, fs)
    BY <2>2 DEF Atomic!Rows, Rows
  <2>4. \A rs, l : Atomic!FindingsAt(rs, l) = FindingsAt(rs, l)
    BY DEF Atomic!FindingsAt, FindingsAt
  <2>5. \A rs, l, p : Atomic!Tally(rs, l, p) = Tally(rs, l, p)
    <3> SUFFICES ASSUME NEW rs, NEW l, NEW p
                 PROVE  Atomic!Tally(rs, l, p) = Tally(rs, l, p)
      OBVIOUS
    <3> DEFINE found == FindingsAt(rs, l)
               at(f) == rs[<<l, f[1]>>][f[2]]
               failing == {f \in found : CountsAsLevelFailure(p, at(f), l)}
               unclear == {f \in found : at(f).status = "unverified"}
               failing2 == {f \in Atomic!FindingsAt(rs, l) :
                              Atomic!CountsAsLevelFailure(p, at(f), l)}
               unclear2 == {f \in Atomic!FindingsAt(rs, l) : at(f).status = "unverified"}
    <3>1. failing2 = failing
      BY <1>1, <2>4
    <3>2. unclear2 = unclear
      BY <2>4
    <3>3. Atomic!Tally(rs, l, p)
            = [failures   |-> Atomic!Cardinality(failing2),
               unverified |-> Atomic!Cardinality(unclear2)]
      BY Zenon DEF Atomic!Tally
    <3>4. Tally(rs, l, p)
            = [failures |-> Cardinality(failing), unverified |-> Cardinality(unclear)]
      BY Zenon DEF Tally
    <3> QED
      <4> HIDE DEF failing, unclear, failing2, unclear2
      <4> QED  BY <3>1, <3>2, <3>3, <3>4, SameCardinality
  <2>6. \A rs : Atomic!SealedResults(rs) = SealedResults(rs)
    BY DEF Atomic!SealedResults, SealedResults, Atomic!Sealed, Sealed
  <2> QED  BY <2>3, <2>5, <2>6 DEF Atomic!Document, Document
<1> QED  BY <1>1, <1>2, <1>3

LEMMA CellsAreCounted ==
    ASSUME TypeOK, Progress
    PROVE  Cardinality(DOMAIN returned) = Finished
<1> DEFINE count == [i \in 1..Finished |-> actual[i]]
<1>1. Finished \in Nat /\ 1..Finished \subseteq DOMAIN actual
  BY FinishedIsBounded
<1>2. DOMAIN returned = {actual[i] : i \in 1..Finished}
  BY DEF TypeOK, Progress
<1>3. count \in Bijection(1..Finished, DOMAIN returned)
  BY <1>1, <1>2 DEF Bijection, Injection, Surjection, IsInjective, Progress
<1>4. ExistsBijection(1..Finished, DOMAIN returned)
  BY <1>3 DEF ExistsBijection
<1> QED  BY <1>1, <1>4, FS_CountingElements

(* The checker that runs is the first of the plan that has not returned.   *)
LEMMA HereIsNext ==
    ASSUME TypeOK, Progress, currentModule # NoModule
    PROVE  /\ Here \notin DOMAIN returned
           /\ Cardinality(DOMAIN returned) < Len(Plan)
           /\ Here = Plan[Cardinality(DOMAIN returned) + 1]
           /\ Here \in {Plan[i] : i \in DOMAIN Plan}
<1> DEFINE n == Len(actual)
<1>1. n \in Nat /\ n > 0 /\ n <= Len(Plan) /\ Finished = n - 1 /\ actual[n] = Here
  BY FinishedIsBounded DEF Progress, Finished
<1>2. Cardinality(DOMAIN returned) = n - 1
  BY <1>1, CellsAreCounted
<1>3. n \in DOMAIN actual /\ 1..(n - 1) \subseteq DOMAIN actual /\ n \notin 1..(n - 1)
  BY <1>1, FinishedIsBounded
<1>4. DOMAIN returned = {actual[i] : i \in 1..(n - 1)}
  BY <1>1 DEF TypeOK, Progress
<1>5. Here \notin DOMAIN returned
  BY <1>1, <1>3, <1>4 DEF Progress
<1>6. Plan[n] = Here
  BY <1>1, <1>3 DEF Progress
<1>7. n \in DOMAIN Plan
  BY <1>1, PlanTypes
<1>8. n - 1 < Len(Plan) /\ n - 1 + 1 = n
  BY <1>1, PlanTypes
<1> QED  BY <1>2, <1>5, <1>6, <1>7, <1>8

(* What has returned belongs to the plan.                                  *)
LEMMA ReturnedIsActive ==
    ASSUME TypeOK, Progress, NEW cell \in DOMAIN returned
    PROVE  cell[2] \in Active(cell[1]) /\ cell \in {Plan[i] : i \in DOMAIN Plan}
<1>1. PICK i \in DOMAIN actual : cell = actual[i]
  BY FinishedIsBounded DEF TypeOK, Progress
<1>2. i \in DOMAIN Plan /\ Plan[i] = cell
  BY <1>1, FinishedIsBounded, PlanTypes DEF Progress
<1>3. cell = <<cell[1], cell[2]>> /\ cell[2] \in Modules
  BY <1>2, PlanTypes
<1> QED  BY <1>2, <1>3 DEF Active

(* The values of the cells that returned depend on nothing but what they   *)
(* returned and recorded.                                                  *)
LEMMA DoneKept ==
    ASSUME UNCHANGED returned,
           \A cell \in DOMAIN returned : producers'[cell] = producers[cell]
    PROVE  UNCHANGED DoneValues
<1>1. \A cell \in DOMAIN returned :
        /\ FactValues(producers'[cell]) = FactValues(producers[cell])
        /\ SealedResults(returned)'[cell] = SealedResults(returned)[cell]
  BY DEF FactValues, SealedResults
<1> QED  BY <1>1 DEF DoneValues, FactValues

LEMMA DoneFields ==
    ASSUME NEW cell \in DOMAIN returned
    PROVE  /\ DOMAIN DoneValues = DOMAIN returned
           /\ DoneValues[cell].facts = FactValues(producers[cell])
           /\ DoneValues[cell].findings = SealedResults(returned)[cell]
  BY DEF DoneValues

LEMMA FactFields ==
    ASSUME NEW Ids0, NEW facts \in Seq(Fact(Ids0))
    PROVE  /\ DOMAIN FactValues(facts) = DOMAIN facts
           /\ \A i \in DOMAIN facts :
                /\ FactValues(facts)[i].branch = facts[i].branch
                /\ FactValues(facts)[i].earned = {Sealed(w) : w \in facts[i].earned}
                /\ FactValues(facts)[i].counts = facts[i].counts
<1>1. \A i \in DOMAIN facts : facts[i] \in Fact(Ids0)
  OBVIOUS
<1> QED  BY <1>1 DEF FactValues, Fact

(* What passed the check of what was returned is a result of the cell in   *)
(* the sense of AtomicRun, identities forgotten.                           *)
LEMMA ReturnedConforms ==
    ASSUME TypeOK, FactsOwned, FactsWeighed, NEW cell \in Cells,
           NEW list \in ReturnedLists, ReturnedAsEarned(cell[2], producers[cell], list),
           NEW result,
           result.facts = FactValues(producers[cell]),
           result.findings = [p \in DOMAIN list |-> Sealed(SealOf(list[p]))]
    PROVE  Atomic!Conforms(cell, result)
<1> DEFINE facts == producers[cell]
           earnedAt == {i \in DOMAIN facts : facts[i].earned # {}}
           observed == {i \in earnedAt : \E v \in facts[i].earned : v.code \in PilotCode(cell[2])}
           pilot == {p \in DOMAIN list : heap[list[p]].code \in PilotCode(cell[2])}
           pilotOf == {p \in DOMAIN result.findings :
                         result.findings[p].code \in PilotCode(cell[2])}
           earnedOf == {i \in DOMAIN result.facts : result.facts[i].earned # {}}
<1>1. facts \in Seq(Fact(Ids))
  BY DEF TypeOK
<1>2. /\ DOMAIN result.facts = DOMAIN facts
      /\ \A i \in DOMAIN facts :
           /\ result.facts[i].earned = {Sealed(w) : w \in facts[i].earned}
           /\ result.facts[i].counts = facts[i].counts
  <2> HIDE DEF facts
  <2> QED  BY <1>1, FactFields DEF facts
<1>3. /\ \A i \in earnedAt : \A v \in facts[i].earned : v = SealOf(v.id)
      /\ PilotCode(cell[2]) # {} =>
           \E match \in InOrder(observed, pilot) :
             \A i \in observed : \A v \in facts[i].earned : list[match[i]] = v.id
  BY Zenon DEF ReturnedAsEarned
<1>4. observed = earnedAt
  BY DEF FactsOwned, ObservedByOwner
<1>5. earnedOf = earnedAt
  <2>1. \A S : {Sealed(w) : w \in S} = {} <=> S = {}
    OBVIOUS
  <2> HIDE DEF facts
  <2> QED  BY <1>2, <2>1
<1>6. pilotOf = pilot
  BY DEF Sealed, SealOf
<1>7. \E match \in InOrder(earnedAt, pilot) : \A i \in earnedAt :
        \A v \in facts[i].earned : list[match[i]] = v.id
  <2>1. CASE PilotCode(cell[2]) # {}
    <3> HIDE DEF observed, earnedAt, pilot, facts
    <3> QED  BY <1>3, <1>4, <2>1
  <2>2. CASE PilotCode(cell[2]) = {}
    <3>1. earnedAt = {} /\ pilot = {}
      BY <1>4, <2>2
    <3>2. [i \in {} |-> i] \in InOrder({}, {})
      BY DEF InOrder
    <3> HIDE DEF earnedAt, pilot, facts
    <3> QED  BY <3>1, <3>2
  <2> QED  BY <2>1, <2>2
<1>8. PICK match \in InOrder(earnedAt, pilot) : \A i \in earnedAt :
        \A v \in facts[i].earned : list[match[i]] = v.id
  BY <1>7
<1>9. ASSUME NEW i \in earnedAt PROVE result.facts[i].earned = {result.findings[match[i]]}
  <2>1. i \in DOMAIN facts /\ match[i] \in DOMAIN list
    BY <1>8 DEF InOrder
  <2>2. facts[i] \in Fact(Ids)
    BY <1>1, <2>1
  <2>3. PICK w : facts[i].earned = {w}
    BY <2>2, <1>9 DEF Fact, Option
  <2>4. w = SealOf(list[match[i]])
    BY <1>3, <1>8, <2>3
  <2>5. result.facts[i].earned = {Sealed(w)}
    <3> HIDE DEF facts
    <3> QED  BY <1>2, <2>1, <2>3
  <2>6. result.findings[match[i]] = Sealed(w)
    BY <2>1, <2>4
  <2> QED  BY <2>5, <2>6
<1>10. \E m \in InOrder(earnedOf, pilotOf) : \A i \in earnedOf :
         result.facts[i].earned = {result.findings[m[i]]}
  <2> HIDE DEF earnedOf, pilotOf, earnedAt, pilot, facts
  <2> QED  BY <1>5, <1>6, <1>8, <1>9
<1>11. ASSUME NEW i \in DOMAIN result.facts
       PROVE  result.facts[i].counts =
                {CountsAsLevelFailure(StartPolicy, f, cell[1]) : f \in result.facts[i].earned}
  <2>1. facts[i].counts = {CountsAsLevelFailure(StartPolicy, w, cell[1]) : w \in facts[i].earned}
    BY <1>2, <1>11 DEF FactsWeighed
  <2>2. \A w : CountsAsLevelFailure(StartPolicy, Sealed(w), cell[1])
                 = CountsAsLevelFailure(StartPolicy, w, cell[1])
    BY DEF CountsAsLevelFailure, UnverifiedFails, Sealed
  <2>3. {CountsAsLevelFailure(StartPolicy, f, cell[1]) : f \in {Sealed(w) : w \in facts[i].earned}}
          = {CountsAsLevelFailure(StartPolicy, w, cell[1]) : w \in facts[i].earned}
    BY <2>2
  <2>4. /\ result.facts[i].earned = {Sealed(w) : w \in facts[i].earned}
        /\ result.facts[i].counts = facts[i].counts
    <3> HIDE DEF facts
    <3> QED  BY <1>2, <1>11
  <2> HIDE DEF facts
  <2> QED  BY <2>1, <2>3, <2>4
<1> DEFINE pilotAtomic == {p \in DOMAIN result.findings :
                             result.findings[p].code \in Atomic!PilotCode(cell[2])}
<1>12. pilotAtomic = pilotOf
  BY SameOperators
<1>13. \E m \in Atomic!InOrder(earnedOf, pilotAtomic) : \A i \in earnedOf :
         result.facts[i].earned = {result.findings[m[i]]}
  <2> HIDE DEF earnedOf, pilotOf, pilotAtomic
  <2> QED  BY <1>10, <1>12, SameOperators
<1>14. \A i \in DOMAIN result.facts :
         result.facts[i].counts =
           {Atomic!CountsAsLevelFailure(StartPolicy, f, cell[1]) : f \in result.facts[i].earned}
  BY <1>11, SameOperators
<1> QED  BY <1>13, <1>14, Zenon DEF Atomic!Conforms

LEMMA ReturnRunsCell ==
    ASSUME TypeOK, Progress, FactsOwned, FactsWeighed,
           NEW list \in ReturnedLists, CheckerReturns(list), ~ Reject("not as earned")
    PROVE  Atomic!RunCell(Here) /\ Here \in {Plan[i] : i \in DOMAIN Plan}
<1>1. /\ currentModule # NoModule
      /\ ReturnedAsEarned(currentModule, producers[Here], list)
      /\ returned' = [cell \in DOMAIN returned \cup {Here} |->
                        IF cell = Here THEN [p \in DOMAIN list |-> SealOf(list[p])]
                        ELSE returned[cell]]
      /\ UNCHANGED <<outcome, producers, document>>
      /\ outcome = "running"
  BY DEF CheckerReturns
<1>2. /\ Here \notin DOMAIN returned
      /\ Cardinality(DOMAIN returned) < Len(Plan)
      /\ Here = Plan[Cardinality(DOMAIN returned) + 1]
      /\ Here \in {Plan[i] : i \in DOMAIN Plan}
  BY <1>1, HereIsNext
<1>3. Here \in Cells /\ Here[2] = currentModule
  BY <1>1 DEF TypeOK, Here, Cells
<1>4. DOMAIN DoneValues = DOMAIN returned /\ DOMAIN DoneValues' = DOMAIN returned \cup {Here}
  BY <1>1 DEF DoneValues
<1> HIDE DEF Here
<1>5. ASSUME NEW c \in DOMAIN returned PROVE DoneValues'[c] = DoneValues[c]
  <2>1. c # Here /\ returned'[c] = returned[c] /\ c \in DOMAIN returned'
    BY <1>1, <1>2
  <2>2. SealedResults(returned')[c] = SealedResults(returned)[c]
    BY <2>1 DEF SealedResults
  <2> QED  BY <1>1, <2>1, <2>2 DEF DoneValues
<1>6. Atomic!Conforms(Here, DoneValues'[Here])
  <2>1. Here \in DOMAIN returned' /\ returned'[Here] = [p \in DOMAIN list |-> SealOf(list[p])]
    BY <1>1
  <2>2. SealedResults(returned')[Here] = [p \in DOMAIN list |-> Sealed(SealOf(list[p]))]
    BY <2>1 DEF SealedResults
  <2>3. /\ DoneValues'[Here].facts = FactValues(producers[Here])
        /\ DoneValues'[Here].findings = [p \in DOMAIN list |-> Sealed(SealOf(list[p]))]
    BY <1>1, <2>1, <2>2 DEF DoneValues
  <2> QED  BY <1>1, <1>3, <2>3, ReturnedConforms
<1>7. OutcomeValue = "running" /\ UNCHANGED <<OutcomeValue, document>>
  BY <1>1 DEF OutcomeValue
<1>8. Atomic!Cardinality(DOMAIN DoneValues) = Cardinality(DOMAIN returned)
  BY <1>4, SameCardinality
<1>9. Atomic!RunCell(Here)
  BY <1>2, <1>4, <1>5, <1>6, <1>7, <1>8 DEF Atomic!RunCell
<1> QED  BY <1>2, <1>9

(* Projection and sealing see the values of facts and witnesses only.      *)
FactsSeen == [cell \in Cells |-> FactValues(producers[cell])]

LEMMA FactsSeenFields ==
    ASSUME TypeOK, NEW cell \in Cells
    PROVE  /\ producers[cell] \in Seq(Fact(Ids))
           /\ DOMAIN FactsSeen[cell] = DOMAIN producers[cell]
           /\ Len(FactsSeen[cell]) = Len(producers[cell])
           /\ \A i \in DOMAIN producers[cell] :
                /\ FactsSeen[cell][i].branch = producers[cell][i].branch
                /\ FactsSeen[cell][i].earned = {Sealed(w) : w \in producers[cell][i].earned}
                /\ FactsSeen[cell][i].counts = producers[cell][i].counts
<1>1. producers[cell] \in Seq(Fact(Ids)) /\ FactsSeen[cell] = FactValues(producers[cell])
  BY DEF TypeOK, FactsSeen
<1> DEFINE facts == producers[cell]
<1>2. /\ DOMAIN FactValues(facts) = DOMAIN facts
      /\ \A i \in DOMAIN facts :
           /\ FactValues(facts)[i].branch = facts[i].branch
           /\ FactValues(facts)[i].earned = {Sealed(w) : w \in facts[i].earned}
           /\ FactValues(facts)[i].counts = facts[i].counts
  <2> HIDE DEF facts
  <2> QED  BY <1>1, FactFields DEF facts
<1>3. Len(FactValues(facts)) = Len(facts)
  BY <1>1, <1>2 DEF FactValues
<1> QED  BY <1>1, <1>2, <1>3

LEMMA SealedProjectableFact ==
    ASSUME NEW cell, NEW fact, NEW value, NEW results, NEW policy,
           value.branch = fact.branch,
           value.earned = {Sealed(w) : w \in fact.earned},
           value.counts = fact.counts,
           Rule[<<cell[2], fact.branch>>].role = "prerequisite" => cell \in DOMAIN results,
           ProjectableFact(cell, fact, results, policy)
    PROVE  ProjectableFact(cell, value, SealedResults(results), policy)
<1> DEFINE rule == Rule[<<cell[2], fact.branch>>]
<1>1. rule.role = "prerequisite" =>
        BlockedBy(rule, SealedResults(results)[cell], policy, cell[1])
  BY SealedBlocker DEF ProjectableFact
<1>2. rule.role # "prerequisite" =>
        rule.blocker = {} /\ rule.blockerStatuses = {} /\ rule.blockerTexts = {}
  BY DEF ProjectableFact
<1>3. rule.finding = {} => value.earned = {} /\ value.counts = {}
  BY DEF ProjectableFact
<1>4. rule.finding # {} => \E w \in value.earned :
        /\ w.code \in rule.finding
        /\ w.status \in rule.statuses
        /\ \E b \in BOOLEAN : value.counts = {b}
  <2> SUFFICES ASSUME rule.finding # {}
               PROVE  \E w \in value.earned :
                        /\ w.code \in rule.finding
                        /\ w.status \in rule.statuses
                        /\ \E b \in BOOLEAN : value.counts = {b}
    OBVIOUS
  <2>1. PICK w \in fact.earned :
          /\ w.code \in rule.finding
          /\ w.status \in rule.statuses
          /\ \E b \in BOOLEAN : fact.counts = {b}
    BY DEF ProjectableFact
  <2>2. Sealed(w) \in value.earned /\ Sealed(w).code = w.code /\ Sealed(w).status = w.status
    BY <2>1 DEF Sealed
  <2> HIDE DEF rule
  <2> QED  BY <2>1, <2>2
<1>5. rule = Rule[<<cell[2], value.branch>>]
  OBVIOUS
<1> HIDE DEF rule
<1> QED  BY <1>1, <1>2, <1>3, <1>4, <1>5 DEF ProjectableFact

LEMMA SealedProjectable ==
    ASSUME TypeOK, Projectable(Levels, producers, returned, StartPolicy)
    PROVE  Projectable(Levels, FactsSeen, SealedResults(returned), StartPolicy)
<1>1. DOMAIN SealedResults(returned) = DOMAIN returned
  BY DEF SealedResults
<1>2. DOMAIN producers = Cells /\ DOMAIN FactsSeen = Cells
  BY DEF TypeOK, FactsSeen
<1>3. ASSUME NEW cell \in Cells, NEW i \in DOMAIN FactsSeen[cell]
      PROVE  RecognisedFact(cell, FactsSeen[cell][i], DOMAIN SealedResults(returned))
  <2>1. i \in DOMAIN producers[cell] /\ FactsSeen[cell][i].branch = producers[cell][i].branch
    BY <1>3, FactsSeenFields
  <2>2. RecognisedFact(cell, producers[cell][i], DOMAIN returned)
    BY <1>2, <2>1 DEF Projectable
  <2> QED  BY <1>1, <2>1, <2>2 DEF RecognisedFact
<1>4. ASSUME NEW l \in Levels, NEW k \in Keys
      PROVE  /\ Len(FactsSeen[<<l, Owner[k]>>]) = 1
             /\ ProjectableFact(<<l, Owner[k]>>, FactsSeen[<<l, Owner[k]>>][1],
                                SealedResults(returned), StartPolicy)
  <2> DEFINE cell == <<l, Owner[k]>>
  <2>1. cell \in Cells
    BY RegistryAssumption DEF Cells
  <2>2. Len(producers[cell]) = 1 /\ ProjectableFact(cell, producers[cell][1], returned, StartPolicy)
    BY DEF Projectable
  <2> HIDE DEF cell
  <2>3. 1 \in DOMAIN producers[cell]
    BY <2>1, <2>2, FactsSeenFields
  <2>4. /\ FactsSeen[cell][1].branch = producers[cell][1].branch
        /\ FactsSeen[cell][1].earned = {Sealed(w) : w \in producers[cell][1].earned}
        /\ FactsSeen[cell][1].counts = producers[cell][1].counts
        /\ Len(FactsSeen[cell]) = 1
    BY <2>1, <2>2, <2>3, FactsSeenFields
  <2>5. RecognisedFact(cell, producers[cell][1], DOMAIN returned)
    BY <1>2, <2>1, <2>3 DEF Projectable
  <2>6. Rule[<<cell[2], producers[cell][1].branch>>].role = "prerequisite"
          => cell \in DOMAIN returned
    BY <2>5 DEF RecognisedFact
  <2>7. ProjectableFact(cell, FactsSeen[cell][1], SealedResults(returned), StartPolicy)
    BY <2>2, <2>4, <2>6, SealedProjectableFact
  <2> QED  BY <2>4, <2>7 DEF cell
<1> QED  BY <1>2, <1>3, <1>4 DEF Projectable

LEMMA SealedDocument ==
    ASSUME TypeOK, Projectable(Levels, producers, returned, StartPolicy)
    PROVE  Document(Levels, FactsSeen, SealedResults(returned), StartPolicy)
             = Document(Levels, producers, returned, StartPolicy)
<1> DEFINE sealed == SealedResults(returned)
<1>1. SealedResults(sealed) = sealed
  BY DEF SealedResults, Sealed
<1>2. \A l \in Levels : Tally(sealed, l, StartPolicy) = Tally(returned, l, StartPolicy)
  BY SealedTally DEF TypeOK
<1>3. ASSUME NEW l \in Levels, NEW k \in Keys
      PROVE  Row(Owner[k], FactsSeen[<<l, Owner[k]>>][1])
               = Row(Owner[k], producers[<<l, Owner[k]>>][1])
  <2> DEFINE cell == <<l, Owner[k]>>
             fact == producers[cell][1]
             value == FactsSeen[cell][1]
  <2>1. cell \in Cells /\ Len(producers[cell]) = 1
    BY RegistryAssumption DEF Cells, Projectable
  <2>2. /\ value.branch = fact.branch
        /\ value.earned = {Sealed(w) : w \in fact.earned}
        /\ value.counts = fact.counts
    <3> HIDE DEF cell
    <3>1. 1 \in DOMAIN producers[cell]
      BY <2>1, FactsSeenFields
    <3> QED  BY <2>1, <3>1, FactsSeenFields
  <2> HIDE DEF fact, value
  <2>3. {[code |-> w.code, status |-> w.status] : w \in value.earned}
          = {[code |-> w.code, status |-> w.status] : w \in fact.earned}
    <3> DEFINE Seen(w) == [code |-> w.code, status |-> w.status]
    <3>1. \A w : Seen(Sealed(w)) = Seen(w)
      BY DEF Sealed
    <3> HIDE DEF Seen
    <3>2. {Seen(w) : w \in value.earned} = {Seen(w) : w \in fact.earned}
      BY <2>2, <3>1
    <3> QED  BY <3>2 DEF Seen
  <2>4. Row(Owner[k], value) = Row(Owner[k], fact)
    BY <2>2, <2>3 DEF Row
  <2> QED  BY <2>4 DEF fact, value
<1>4. Rows(Levels, FactsSeen) = Rows(Levels, producers)
  BY <1>3 DEF Rows
<1>5. [l \in Levels |-> Tally(sealed, l, StartPolicy)]
        = [l \in Levels |-> Tally(returned, l, StartPolicy)]
  BY <1>2
<1> HIDE DEF sealed
<1> QED  BY <1>1, <1>4, <1>5 DEF Document, sealed

(* A cell that the plan leaves out shows what AtomicRun says it shows.     *)
LEMMA IdleSeen ==
    ASSUME NEW m \in Modules, OnlyOne(SchedulerBranches(m))
    PROVE  FactValues(<<SchedulerFact(m)>>) = <<CHOOSE f \in Atomic!IdleFacts(m) : TRUE>>
<1>1. PICK b : SchedulerBranches(m) = {b}
  BY DEF OnlyOne
<1>2. SchedulerFact(m) = [branch |-> b, earned |-> {}, counts |-> {}]
  BY <1>1 DEF SchedulerFact
<1>3. Atomic!IdleFacts(m) = {SchedulerFact(m)}
  <2>1. \A r \in DOMAIN Rule : r \in Modules \X Branches /\ r = <<r[1], r[2]>>
    BY RegistryAssumption
  <2>2. b \in Branches /\ <<m, b>> \in DOMAIN Rule
        /\ Rule[<<m, b>>].role = "scheduler_nonexecution"
    BY <1>1 DEF SchedulerBranches
  <2>3. \A r \in DOMAIN Rule : r[1] = m /\ Rule[r].role = "scheduler_nonexecution" => r = <<m, b>>
    BY <1>1, <2>1 DEF SchedulerBranches
  <2>4. {r \in DOMAIN Rule : r[1] = m /\ Rule[r].role = "scheduler_nonexecution"} = {<<m, b>>}
    BY <2>2, <2>3
  <2>5. Atomic!IdleFacts(m) =
          {[branch |-> r[2], earned |-> {}, counts |-> {}] : r \in {<<m, b>>}}
    BY <2>4 DEF Atomic!IdleFacts
  <2> QED  BY <1>2, <2>5
<1>4. FactValues(<<SchedulerFact(m)>>) = <<SchedulerFact(m)>>
  <2>1. [SchedulerFact(m) EXCEPT !.earned = {Sealed(w) : w \in @}] = SchedulerFact(m)
    BY <1>2
  <2>2. \A x : DOMAIN <<x>> = {1} /\ <<x>>[1] = x
    OBVIOUS
  <2> QED  BY <2>1, <2>2 DEF FactValues
<1> QED  BY <1>3, <1>4

LEMMA FactsSeenAtEnd ==
    ASSUME TypeOK, FactsOwned, FinalResultsHold, loop \notin Levels,
           NEW cell \in Cells
    PROVE  FactsSeen[cell] =
             IF cell \in DOMAIN DoneValues THEN DoneValues[cell].facts
             ELSE IF PilotCode(cell[2]) = {} THEN <<>>
             ELSE <<CHOOSE f \in Atomic!IdleFacts(cell[2]) : TRUE>>
<1>1. FactsSeen[cell] = FactValues(producers[cell])
  BY DEF FactsSeen
<1>2. CASE cell \in DOMAIN returned
  BY <1>1, <1>2, DoneFields
<1>3. CASE cell \notin DOMAIN returned
  <2>1. cell \notin DOMAIN DoneValues
    BY <1>3 DEF DoneValues
  <2>2. cell[2] \notin Active(cell[1])
    <3>1. cell \notin {Plan[i] : i \in DOMAIN Plan}
      BY <1>3 DEF FinalResultsHold, TypeOK
    <3>2. cell = <<cell[1], cell[2]>>
      BY CellTypes
    <3> QED  BY <3>1, <3>2 DEF Active
  <2>3. cell[1] < loop /\ cell[2] \in Modules
    <3>1. cell[1] \in Levels
      BY CellTypes
    <3>2. \A l \in Levels : l < loop
      BY ExecutionAssumption DEF TypeOK, Levels, PolicyHeld
    <3> QED  BY <3>1, <3>2, CellTypes
  <2>4. /\ producers[cell] = IdleFact(cell)
        /\ PilotCode(cell[2]) # {} => OnlyOne(SchedulerBranches(cell[2]))
    BY <2>2, <2>3 DEF FactsOwned, IdleAccounted
  <2>5. CASE PilotCode(cell[2]) = {}
    <3>1. producers[cell] = <<>>
      BY <2>4, <2>5 DEF IdleFact
    <3>2. FactValues(<<>>) = <<>>
      BY DEF FactValues
    <3> QED  BY <1>1, <2>1, <2>5, <3>1, <3>2
  <2>6. CASE PilotCode(cell[2]) # {}
    <3>1. producers[cell] = <<SchedulerFact(cell[2])>>
      BY <2>3, <2>4, <2>6 DEF IdleFact
    <3> QED  BY <1>1, <2>1, <2>3, <2>4, <2>6, <3>1, IdleSeen
  <2> QED  BY <2>5, <2>6
<1> QED  BY <1>2, <1>3

LEMMA CompletePublishes ==
    ASSUME TypeOK, FactsOwned, Complete, outcome' = "completed"
    PROVE  Atomic!Publish
<1>1. /\ outcome = "running" /\ loop \notin Levels
      /\ FinalResultsHold
      /\ Projectable(Levels, producers, returned, StartPolicy)
      /\ document' = {Document(Levels, producers, returned, StartPolicy)}
      /\ outcome' = "completed"
      /\ UNCHANGED <<returned, producers>>
  <2>1. loop \notin Levels
    <3>1. loop = PolicyHeld /\ MaxLevel \in 0..2
      BY ExecutionAssumption DEF Complete
    <3> QED  BY <3>1 DEF PolicyHeld, Levels
  <2> QED  BY <2>1 DEF Complete, Payload, Reject, TypeOK, capture
<1>2. OutcomeValue = "running" /\ OutcomeValue' = "completed"
  BY <1>1 DEF OutcomeValue
<1>3. DOMAIN DoneValues = Atomic!Scheduled
  BY <1>1 DEF DoneValues, TypeOK, FinalResultsHold, Atomic!Scheduled
<1>4. UNCHANGED DoneValues
  BY <1>1, DoneKept
<1> DEFINE facts == [cell \in Atomic!Levels \X Modules |->
                       IF cell \in DOMAIN DoneValues THEN DoneValues[cell].facts
                       ELSE IF Atomic!PilotCode(cell[2]) = {} THEN <<>>
                       ELSE <<CHOOSE f \in Atomic!IdleFacts(cell[2]) : TRUE>>]
           findings == [cell \in DOMAIN DoneValues |-> DoneValues[cell].findings]
<1>5. facts = FactsSeen
  <2>1. Atomic!Levels \X Modules = Cells
    BY SameOperators DEF Cells
  <2>2. \A cell \in Cells : FactsSeen[cell] =
             IF cell \in DOMAIN DoneValues THEN DoneValues[cell].facts
             ELSE IF Atomic!PilotCode(cell[2]) = {} THEN <<>>
             ELSE <<CHOOSE f \in Atomic!IdleFacts(cell[2]) : TRUE>>
    BY <1>1, FactsSeenAtEnd, SameOperators
  <2>3. FactsSeen = [cell \in Cells |-> FactsSeen[cell]]
    BY DEF FactsSeen
  <2> QED  BY <2>1, <2>2, <2>3
<1>6. findings = SealedResults(returned)
  BY DoneFields DEF DoneValues, SealedResults
<1> HIDE DEF facts, findings
<1>7. Atomic!Projectable(Atomic!Levels, facts, findings, StartPolicy)
  BY <1>1, <1>5, <1>6, SealedProjectable, SameOperators
<1>8. document' = {Atomic!Document(Atomic!Levels, facts, findings, StartPolicy)}
  BY <1>1, <1>5, <1>6, SealedDocument, SameOperators
<1> USE DEF facts, findings
<1> QED  BY <1>2, <1>3, <1>4, <1>7, <1>8, Zenon DEF Atomic!Publish

LEMMA RejectAbandons ==
    ASSUME NEW why \in Outcomes \ {"running", "completed"}, outcome = "running", Reject(why)
    PROVE  Atomic!Abandon
<1>1. OutcomeValue = "running" /\ OutcomeValue' = "rejected"
  BY DEF Reject, OutcomeValue
<1>2. DOMAIN returned' = {} /\ UNCHANGED document
  BY DEF Reject
<1>3. DoneValues' = [cell \in {} |-> <<>>]
  BY <1>2 DEF DoneValues
<1> QED  BY <1>1, <1>2, <1>3 DEF Atomic!Abandon

AtomicStutters == UNCHANGED <<OutcomeValue, DoneValues, document>>

(* Recording a fact touches the cell that runs, which has not returned.    *)
LEMMA RecordStutters ==
    ASSUME TypeOK, Progress, NEW fact, Record(fact)
    PROVE  AtomicStutters
<1>1. /\ currentModule # NoModule /\ outcome = "running"
      /\ producers' = [producers EXCEPT ![Here] = Append(@, fact)]
      /\ UNCHANGED <<outcome, returned, document>>
  BY DEF Record, InChecker
<1>2. Here \notin DOMAIN returned
  BY <1>1, HereIsNext
<1>3. \A cell \in DOMAIN returned : producers'[cell] = producers[cell]
  BY <1>1, <1>2 DEF TypeOK
<1> QED  BY <1>1, <1>3, DoneKept DEF AtomicStutters, OutcomeValue

(* So does what _end_level writes for the owners that had no turn.         *)
LEMMA EndLevelStutters ==
    ASSUME TypeOK, Progress, EndLevel, ~ Reject("level not as planned")
    PROVE  AtomicStutters
<1> DEFINE idle == {m \in {Owner[k] : k \in Keys} : m \notin Active(currentLevel)}
<1>1. /\ producers' = [cell \in Cells |->
            IF cell[1] = currentLevel /\ cell[2] \in idle
            THEN Append(producers[cell], SchedulerFact(cell[2]))
            ELSE producers[cell]]
      /\ UNCHANGED <<outcome, returned, document>>
  BY DEF EndLevel
<1>2. ASSUME NEW cell \in DOMAIN returned PROVE producers'[cell] = producers[cell]
  <2>1. cell \in Cells /\ cell[2] \in Active(cell[1])
    BY ReturnedIsActive DEF TypeOK
  <2>2. ~ (cell[1] = currentLevel /\ cell[2] \in idle)
    BY <2>1
  <2> HIDE DEF idle
  <2> QED  BY <1>1, <2>1, <2>2
<1> QED  BY <1>1, <1>2, DoneKept DEF AtomicStutters, OutcomeValue

LEMMA StepRefines ==
    TypeOK /\ InProgress /\ FactsOwned /\ FactsWeighed /\ [Next]_vars
      => [Atomic!Next]_<<OutcomeValue, DoneValues, document>>
<1> SUFFICES ASSUME TypeOK, InProgress, FactsOwned, FactsWeighed, [Next]_vars
             PROVE  Atomic!Next \/ AtomicStutters
  BY DEF AtomicStutters
<1>1. ASSUME UNCHANGED <<outcome, returned, producers, document>> PROVE AtomicStutters
  BY <1>1, DoneKept DEF AtomicStutters, OutcomeValue
<1>2. ASSUME NEW why \in Outcomes \ {"running", "completed"}, outcome = "running", Reject(why)
      PROVE  Atomic!Next
  BY <1>2, RejectAbandons DEF Atomic!Next
<1>3. ASSUME BeginLevel PROVE AtomicStutters
  BY <1>1, <1>3 DEF BeginLevel
<1>4. ASSUME NEW m \in Modules, Invoke(m) PROVE Atomic!Next \/ AtomicStutters
  <2>1. CASE Reject("unexpected cell")
    BY <1>2, <1>4, <2>1 DEF Invoke, Outcomes, ScheduleErrors
  <2>2. CASE ~ Reject("unexpected cell")
    BY <1>1, <1>4, <2>2 DEF Invoke
  <2> QED  BY <2>1, <2>2
<1>5. ASSUME EndLevel PROVE Atomic!Next \/ AtomicStutters
  <2>1. outcome = "running"
    BY <1>5 DEF EndLevel
  <2>2. CASE Reject("level not as planned")
    BY <1>2, <2>1, <2>2 DEF Outcomes, ScheduleErrors
  <2>3. CASE ~ Reject("level not as planned")
    BY <1>5, <2>1, <2>3, EndLevelStutters DEF InProgress
  <2> QED  BY <2>2, <2>3
<1>6. ASSUME Complete PROVE Atomic!Next
  <2>1. CASE outcome' = "completed"
    BY <1>6, <2>1, CompletePublishes DEF Atomic!Next
  <2>2. CASE outcome' # "completed"
    <3>1. outcome = "running" /\ \E why \in Outcomes \ {"running", "completed"} : Reject(why)
      BY <1>6, <2>2 DEF Complete, Outcomes, ScheduleErrors
    <3> QED  BY <1>2, <3>1
  <2> QED  BY <2>1, <2>2
<1>7. ASSUME NEW list \in ReturnedLists, CheckerReturns(list) PROVE Atomic!Next
  <2>1. outcome = "running" /\ Progress
    BY <1>7 DEF CheckerReturns, InProgress
  <2>2. CASE Reject("not as earned")
    BY <1>2, <2>1, <2>2 DEF Outcomes
  <2>3. CASE ~ Reject("not as earned")
    <3>1. Atomic!RunCell(Here) /\ Here \in Atomic!Scheduled
      BY <1>7, <2>1, <2>3, ReturnRunsCell DEF Atomic!Scheduled
    <3> QED  BY <3>1 DEF Atomic!Next
  <2> QED  BY <2>2, <2>3
<1>8. ASSUME CheckerRaises PROVE Atomic!Next
  BY <1>2, <1>8 DEF CheckerRaises, Outcomes
<1>9. ASSUME NEW fact, Record(fact) PROVE AtomicStutters
  BY <1>9, RecordStutters DEF Record, InChecker, InProgress
<1>10. ASSUME CheckerWorks PROVE AtomicStutters
  BY <1>1, <1>9, <1>10 DEF CheckerWorks, BuildFinding, Observe, ObserveNothing,
                          RewriteFinding, RewriteList, capture
<1>11. ASSUME NEW p \in OtherPolicies \cup {StartPolicy}, ChangeLivePolicy(p)
       PROVE  AtomicStutters
  BY <1>1, <1>11 DEF ChangeLivePolicy, capture
<1>12. CASE UNCHANGED vars
  BY <1>1, <1>12 DEF vars
<1>13. ASSUME CheckPolicy PROVE Atomic!Next \/ AtomicStutters
  <2>1. CASE Reject("policy changed")
    BY <1>2, <1>13, <2>1 DEF CheckPolicy, Outcomes
  <2>2. CASE ~ Reject("policy changed")
    BY <1>1, <1>13, <2>2 DEF CheckPolicy, capture
  <2> QED  BY <2>1, <2>2
<1> QED  BY <1>3, <1>4, <1>5, <1>6, <1>7, <1>8, <1>10, <1>11, <1>12, <1>13
         DEF Next, RunnerStep, CheckerLeaves

(* Every run, seen through the sealed values of its finished cells, is a   *)
(* run of AtomicRun: identity checks, callbacks, mutable objects and the   *)
(* live policy make no difference that shows.                              *)
THEOREM Refinement == Spec => RefinesAtomicRun
<1>1. Init => Atomic!Init
  <2> SUFFICES ASSUME Init PROVE Atomic!Init
    OBVIOUS
  <2>1. DoneValues = [cell \in {} |-> <<>>]
    BY DEF Init, DoneValues
  <2> QED  BY <2>1 DEF Init, OutcomeValue, Atomic!Init
<1> QED  BY <1>1, StepRefines, TypeCorrect, RunsMakeProgress, FactsAreOwned,
            ContributionsAreFrozen, PTL DEF Spec, RefinesAtomicRun, Atomic!Spec
=============================================================================
