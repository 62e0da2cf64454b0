---------------------------- MODULE MCExecution -----------------------------
(***************************************************************************)
(* Small instances of Execution.  Two modules own an obligation.  At       *)
(* Level 0 only TR-POL is scheduled; in the two-level instance it runs     *)
(* twice and TR-SCA joins it at Level 1.  The rules are one of each kind:  *)
(* completed, unresolved, blocked by a prerequisite without a finding of   *)
(* its own, and the scheduler's.                                           *)
(***************************************************************************)
EXTENDS Execution

MCModules == {"TR-POL", "TR-SCA"}

OneLevelPlan == <<<<0, "TR-POL">>>>

TwoLevelPlan == <<<<0, "TR-POL">>, <<1, "TR-POL">>, <<1, "TR-SCA">>>>

MCCoreOrder == [m \in Modules |-> IF m = "TR-POL" THEN 3 ELSE 6]

KeyOf(m) == IF m = "TR-POL" THEN "TR-POL-003" ELSE "TR-SCA-002"

MCKeys == {KeyOf(m) : m \in Modules}

MCOwner == [k \in MCKeys |-> CHOOSE m \in Modules : KeyOf(m) = k]

MCCodes == MCKeys \cup {"TR-POL-001"}

MCTexts == {"missing", "other"}

MCBranches == {"completed", "unresolved", "missing", "unscheduled"}

TwoLevelBranches == MCBranches \ {"completed"}

RuleOf(m, b) ==
    LET none == [role |-> "target_completed", finding |-> {}, statuses |-> {},
                 blocker |-> {}, blockerStatuses |-> {}, blockerTexts |-> {}]
    IN  CASE b = "completed" ->
               [none EXCEPT !.finding = {KeyOf(m)}, !.statuses = {"pass"}]
          [] b = "unresolved" ->
               [none EXCEPT !.role = "target_attempted_unresolved",
                            !.finding = {KeyOf(m)}, !.statuses = {"unverified"}]
          [] b = "missing" ->
               [none EXCEPT !.role = "prerequisite", !.blocker = {"TR-POL-001"},
                            !.blockerStatuses = {"fail"}, !.blockerTexts = {"missing"}]
          [] b = "unscheduled" -> [none EXCEPT !.role = "scheduler_nonexecution"]

MCRule ==
    [r \in {<<m, b>> \in Modules \X Branches :
              /\ b = "missing" => m = "TR-POL"
              /\ b = "unscheduled" => m = "TR-SCA"} |-> RuleOf(r[1], r[2])]

Value(code, status, text) == [code |-> code, status |-> status, text |-> text]

OneLevelValues ==
    [m \in Modules |->
       {Value(KeyOf(m), "pass", "other")} \cup
       IF m = "TR-POL"
       THEN {Value("TR-POL-003", "unverified", "other"), Value("TR-POL-001", "fail", "missing")}
       ELSE {}]

TwoLevelValues ==
    [m \in Modules |->
       {Value(KeyOf(m), "unverified", "other")} \cup
       IF m = "TR-POL" THEN {Value("TR-POL-001", "fail", "missing")} ELSE {}]

MCStartPolicy == ShippedPolicy([c \in {"TR-POL-003"} |-> 2])

MCOtherPolicies == {ShippedPolicy([c \in {"TR-POL-003"} |-> 0])}

(* Both plans are in the order of the if-chain, as the shipped table is.   *)
ASSUME InstanceAgrees == ScheduleAgrees
=============================================================================
