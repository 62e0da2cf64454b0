------------------------------ MODULE AtomicRun -----------------------------
(***************************************************************************)
(* What an accounted execution promises, without findings as objects,      *)
(* callbacks or a mutable policy: each planned cell is one step that       *)
(* yields values, and publication is one step that seals a function of     *)
(* all of them.  Execution implements this with identity checks on         *)
(* mutable objects; PilotRun implements it with the shipped checkers.      *)
(***************************************************************************)
EXTENDS Obligations

CONSTANTS MaxLevel, Plan, StartPolicy

VARIABLES outcome,   \* "running", "completed" or "rejected"
          done,      \* the planned cells that ran, with [facts, findings]
          document   \* the sealed document, once there is one

Levels == 0..MaxLevel

Scheduled == {Plan[i] : i \in DOMAIN Plan}

Init ==
    /\ outcome = "running"
    /\ done = [cell \in {} |-> <<>>]
    /\ document = {}

(* The values a cell may yield: its facts earned exactly the findings it   *)
(* returned under the pilot code, in order, and each carries the frozen    *)
(* policy's verdict on it.                                                 *)
Conforms(cell, result) ==
    LET pilot  == {p \in DOMAIN result.findings :
                     result.findings[p].code \in PilotCode(cell[2])}
        earned == {i \in DOMAIN result.facts : result.facts[i].earned # {}}
    IN  /\ \E match \in InOrder(earned, pilot) : \A i \in earned :
             result.facts[i].earned = {result.findings[match[i]]}
        /\ \A i \in DOMAIN result.facts :
             result.facts[i].counts =
               {CountsAsLevelFailure(StartPolicy, f, cell[1]) : f \in result.facts[i].earned}

(* The next planned cell runs. *)
RunCell(cell) ==
    /\ outcome = "running"
    /\ Cardinality(DOMAIN done) < Len(Plan)
    /\ cell = Plan[Cardinality(DOMAIN done) + 1]
    /\ DOMAIN done' = DOMAIN done \cup {cell}
    /\ \A c \in DOMAIN done : done'[c] = done[c]
    /\ Conforms(cell, done'[cell])
    /\ UNCHANGED <<outcome, document>>

(* The fact that stands for an owner the level does not schedule. *)
IdleFacts(module) ==
    {[branch |-> b[2], earned |-> {}, counts |-> {}] :
       b \in {r \in DOMAIN Rule : r[1] = module /\ Rule[r].role = "scheduler_nonexecution"}}

Publish ==
    LET facts    == [cell \in Levels \X Modules |->
                       IF cell \in DOMAIN done THEN done[cell].facts
                       ELSE IF PilotCode(cell[2]) = {} THEN <<>>
                       ELSE <<CHOOSE f \in IdleFacts(cell[2]) : TRUE>>]
        findings == [cell \in DOMAIN done |-> done[cell].findings]
    IN  /\ outcome = "running"
        /\ DOMAIN done = Scheduled
        /\ Projectable(Levels, facts, findings, StartPolicy)
        /\ document' = {Document(Levels, facts, findings, StartPolicy)}
        /\ outcome' = "completed"
        /\ UNCHANGED done

(* The run fails and leaves nothing. *)
Abandon ==
    /\ outcome = "running"
    /\ outcome' = "rejected"
    /\ done' = [cell \in {} |-> <<>>]
    /\ UNCHANGED document

Next == (\E cell \in Scheduled : RunCell(cell)) \/ Publish \/ Abandon

Spec == Init /\ [][Next]_<<outcome, done, document>>
=============================================================================
