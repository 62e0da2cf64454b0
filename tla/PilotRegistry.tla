---------------------------- MODULE PilotRegistry ---------------------------
(***************************************************************************)
(* The shipped values of what Obligations takes as constants: the modules  *)
(* of each level (runner.py), the three pilot obligations with their       *)
(* twenty-one branches (the _ACCOUNTING_SPEC of tr_apr, tr_pol and         *)
(* tr_sca), the message prefixes their blockers are recognised by, and the *)
(* unverified thresholds (modules/unverified.py).                          *)
(***************************************************************************)
EXTENDS Naturals, Sequences

LevelModules ==
    <<<<"TR-ENV", "TR-SIG", "TR-POL", "TR-APR">>,
      <<"TR-ENV", "TR-SIG", "TR-POL", "TR-APR", "TR-RTE", "TR-SCA">>,
      <<"TR-ENV", "TR-SIG", "TR-POL", "TR-APR", "TR-RTE", "TR-SCA", "TR-TXN", "TR-ANC">>>>

(* The order in which _run_core goes through the modules, at any level. *)
CoreChain ==
    <<"TR-ENV", "TR-SIG", "TR-POL", "TR-APR", "TR-RTE", "TR-SCA", "TR-TXN", "TR-ANC">>

PilotModules == {LevelModules[3][i] : i \in DOMAIN LevelModules[3]}

LevelCells(level) ==
    LET modules == LevelModules[level + 1] IN
    [i \in 1..Len(modules) |-> <<level, modules[i]>>]

(* planned_schedule for the attempted levels 0..max. *)
PilotPlan(max) ==
    CASE max = 0 -> LevelCells(0)
      [] max = 1 -> LevelCells(0) \o LevelCells(1)
      [] max = 2 -> LevelCells(0) \o LevelCells(1) \o LevelCells(2)

PilotCodes ==
    {"TR-ENV-001", "TR-ENV-002", "TR-ENV-003", "TR-ENV-004", "TR-ENV-005",
     "TR-SIG-001", "TR-SIG-002", "TR-SIG-004", "TR-SIG-005",
     "TR-POL-001", "TR-POL-002", "TR-POL-003",
     "TR-APR-001", "TR-APR-002", "TR-APR-003", "TR-APR-004", "TR-APR-005",
     "TR-RTE-001", "TR-RTE-002", "TR-RTE-003", "TR-RTE-004",
     "TR-SCA-001", "TR-SCA-002", "TR-TXN-001", "TR-TXN-002",
     "TR-ANC-001", "TR-ANC-002"}

(* What a message says, up to the prefixes the registry compares. *)
PilotTexts == {"policy field is missing", "bundle_hash must match",
               "build_provenance is required", "build_provenance must be an object",
               "other"}

PilotKeys == {"TR-APR-001", "TR-POL-003", "TR-SCA-002"}

PilotOwner ==
    [k \in PilotKeys |-> CASE k = "TR-APR-001" -> "TR-APR"
                           [] k = "TR-POL-003" -> "TR-POL"
                           [] k = "TR-SCA-002" -> "TR-SCA"]

-----------------------------------------------------------------------------
(* What a rule requires: nothing, its own finding, or another's.           *)
Bare(role) ==
    [role |-> role, finding |-> {}, statuses |-> {},
     blocker |-> {}, blockerStatuses |-> {}, blockerTexts |-> {}]

Reports(role, code, status) ==
    [Bare(role) EXCEPT !.finding = {code}, !.statuses = {status}]

Blocked(code, text) ==
    [Bare("prerequisite") EXCEPT
       !.blocker = {code}, !.blockerStatuses = {"fail"}, !.blockerTexts = {text}]

AprBranches ==
    [b \in {"appraisal_missing", "appraisal_not_object", "status_valid", "status_invalid"} |->
       Reports("target_completed", "TR-APR-001", IF b = "status_valid" THEN "pass" ELSE "fail")]

PolBranches ==
    [b \in {"policy_missing", "policy_not_object", "policy_uri_absent",
            "policy_uri_explicit_null", "policy_uri_non_string", "policy_uri_malformed",
            "bundle_hash_malformed", "no_resolver", "resolver_exception",
            "resolver_non_bytes", "resolved_match", "resolved_mismatch"} |->
       LET reports(role, status) == Reports(role, "TR-POL-003", status) IN
       CASE b \in {"policy_missing", "policy_not_object"} ->
              Blocked("TR-POL-001", "policy field is missing")
         [] b \in {"policy_uri_absent", "policy_uri_explicit_null"} ->
              reports("not_applicable", "skip")
         [] b \in {"policy_uri_non_string", "policy_uri_malformed", "resolved_mismatch"} ->
              reports("target_completed", "fail")
         [] b = "bundle_hash_malformed" ->
              [Blocked("TR-POL-001", "bundle_hash must match") EXCEPT
                 !.finding = {"TR-POL-003"}, !.statuses = {"skip"}]
         [] b = "no_resolver" -> reports("not_attempted", "skip")
         [] b \in {"resolver_exception", "resolver_non_bytes"} ->
              reports("target_attempted_unresolved", "unverified")
         [] b = "resolved_match" -> reports("target_completed", "pass")]

ScaBranches ==
    [b \in {"build_provenance_missing", "build_provenance_not_object", "digest_valid",
            "digest_invalid", "level0_scheduler_nonexecution"} |->
       CASE b = "build_provenance_missing" ->
              Blocked("TR-SCA-001", "build_provenance is required")
         [] b = "build_provenance_not_object" ->
              Blocked("TR-SCA-001", "build_provenance must be an object")
         [] b = "digest_valid" -> Reports("target_completed", "TR-SCA-002", "pass")
         [] b = "digest_invalid" -> Reports("target_completed", "TR-SCA-002", "fail")
         [] b = "level0_scheduler_nonexecution" -> Bare("scheduler_nonexecution")]

PilotBranches == DOMAIN AprBranches \cup DOMAIN PolBranches \cup DOMAIN ScaBranches

(* The rules _project looks up, by owner and branch. *)
PilotRule ==
    [b \in ({"TR-APR"} \X DOMAIN AprBranches) \cup ({"TR-POL"} \X DOMAIN PolBranches)
             \cup ({"TR-SCA"} \X DOMAIN ScaBranches) |->
       CASE b[1] = "TR-APR" -> AprBranches[b[2]]
         [] b[1] = "TR-POL" -> PolBranches[b[2]]
         [] b[1] = "TR-SCA" -> ScaBranches[b[2]]]

PilotThresholds ==
    [c \in {"TR-SIG-005", "TR-POL-003"} |-> IF c = "TR-SIG-005" THEN 1 ELSE 2]
=============================================================================
