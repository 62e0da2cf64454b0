----------------------------- MODULE MCPilotRun -----------------------------
(***************************************************************************)
(* Instances of PilotRun with the shipped registry.  The records are those *)
(* that differ from a record conformant at Level 2 in one field, or in two *)
(* that one checker weighs against each other; a field has one value per   *)
(* case its checker tells apart.  Times are scaled down: one tick is one   *)
(* second of the skew.                                                     *)
(***************************************************************************)
EXTENDS PilotRun, SampleRecords

(* The level tables, by which _end_level judges the cells that ran, are in *)
(* the order of the if-chain that runs them (what Execution assumes as     *)
(* ScheduleAgrees, for the shipped pair).                                  *)
ASSUME ShippedTablesAgree ==
    \A l \in DOMAIN LevelModules :
      LET modules == LevelModules[l]
          Active(m) == \E i \in DOMAIN modules : modules[i] = m
      IN  modules = SelectSeq(CoreChain, Active)

(* The fields that may deviate, with the values they may then take.       *)
(*  StartTime is 5, Skew 1 and MaxAge 2.    *)
Choices ==
    [eat_profile |-> {"other"}, iat |-> {BadTime, 2, 3, 6, 7}, subject |-> {"other"},
     jwk |-> {"absent", "no kty", "other kty", "other curve", "OKP without x"},
     private |-> {"d", "other"}, canonical |-> {FALSE}, signature |-> {"absent", "invalid"},
     format |-> {"cmcp-runtime"},
     policy |-> {"missing", "not object"}, bundle_hash |-> {"malformed"},
     enforcement_mode |-> {"other"},
     policy_uri |-> {"absent", "null", "non string", "malformed"},
     appraisal |-> {"missing", "not object"}, status |-> {"none", "unknown"},
     verifier |-> {"absent", "other"}, policy_ref |-> {"uri", "other"},
     timestamp |-> {BadTime, 5, 7},
     runtime |-> {"not object"}, platform |-> {"software-only", "unregistered"},
     measurement |-> {"zero", "malformed"}, rim_uri |-> {"https", "other"},
     nonce |-> {"absent", "another"},
     build_provenance |-> {"missing", "not object"}, slsa_level |-> {"other"},
     digest |-> {"malformed"},
     tool_transcript |-> {"missing", "not object"}, hash |-> {"malformed"},
     call_count |-> {"natural", "other"},
     transparency |-> {"absent", "other"}]

Deviate(records, fields) ==
    UNION {{[r EXCEPT ![f] = v] : r \in records, v \in Choices[f]} : f \in fields}

(* The fields of which a checker reads one before another: the signature,  *)
(* the policy, the appraisal and the provenance.                           *)
Weighed ==
    {{"format", "jwk", "private", "canonical", "signature"},
     {"policy", "bundle_hash", "enforcement_mode", "policy_uri"},
     {"appraisal", "status", "timestamp"},
     {"build_provenance", "slsa_level", "digest"}}

OneAway == Deviate({Conformant}, DOMAIN Choices)

TwoAway ==
    UNION {Deviate(Deviate({Conformant}, fields), fields) : fields \in Weighed}

MCRecords == ({Conformant} \cup OneAway \cup TwoAway) \cap Record

MCOptionSets ==
    {[nonce |-> "challenge", receipt |-> "proves", resolver |-> TRUE],
     [nonce |-> "challenge", receipt |-> "other", resolver |-> TRUE],
     [nonce |-> "absent", receipt |-> "absent", resolver |-> FALSE]}
=============================================================================
