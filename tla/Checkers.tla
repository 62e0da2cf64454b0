------------------------------ MODULE Checkers ------------------------------
(***************************************************************************)
(* The eight shipped checkers, src/trace_tests/modules/tr_*.py: what each  *)
(* returns for a record, a level, the caller's options and what it reads   *)
(* while it runs (the clock, the policy resolver's answer), and what the   *)
(* three that own an obligation hand to accounting._observe on the way.    *)
(*                                                                         *)
(* A record keeps, per field, which of the cases the checkers tell apart   *)
(* it falls in; times are small integers.  A finding is a record           *)
(* [code, status, text].                                                   *)
(***************************************************************************)
EXTENDS Integers, Sequences

CONSTANTS IatMin,  \* _IAT_MIN
          MaxAge,  \* max_age_seconds
          Skew     \* the tolerance of TR-ENV-002 and TR-APR-004

NoTime  == -1  \* the field is absent
BadTime == -2  \* the field is not an integer

(* The records there are; a JWK that is not there has no members.          *)
Record ==
    {r \in [format : {"trace", "cmcp-runtime"}, eat_profile : {"trace-v0.2", "other"},
            iat : Int, subject : {"uri", "other"},
            jwk : {"absent", "no kty", "other kty", "other curve", "OKP without x", "Ed25519"},
            private : {"none", "d", "other"}, canonical : BOOLEAN,
            signature : {"absent", "invalid", "valid"},
            policy : {"missing", "not object", "object"},
            bundle_hash : {"malformed", "digest"}, enforcement_mode : {"valid", "other"},
            policy_uri : {"absent", "null", "non string", "malformed", "absolute"},
            appraisal : {"missing", "not object", "object"},
            status : {"none", "unknown", "affirming"}, verifier : {"absent", "uri", "other"},
            policy_ref : {"absent", "uri", "other"}, timestamp : Int,
            runtime : {"not object", "object"},
            platform : {"tee", "software-only", "unregistered"},
            measurement : {"zero", "malformed", "digest"}, rim_uri : {"absent", "https", "other"},
            nonce : {"absent", "challenge", "another"},
            build_provenance : {"missing", "not object", "object"},
            slsa_level : {"valid", "other"}, digest : {"malformed", "digest"},
            tool_transcript : {"missing", "not object", "object"},
            hash : {"malformed", "digest"}, call_count : {"absent", "natural", "other"},
            transparency : {"absent", "https", "other"}] :
       r.jwk = "absent" => r.private = "none"}

Says(code, status, text) == [code |-> code, status |-> status, text |-> text]

Verdict(code, holds) == Says(code, IF holds THEN "pass" ELSE "fail", "other")

Fails(code, text) == Says(code, "fail", text)

Skips(code) == Says(code, "skip", "other")

Unverified(code) == Says(code, "unverified", "other")

-----------------------------------------------------------------------------
(* tr_env.check.  The clock is read once, for TR-ENV-002. *)
EnvFindings(r, now) ==
    <<Verdict("TR-ENV-001", r.eat_profile = "trace-v0.2"),
      Verdict("TR-ENV-002", r.iat >= IatMin /\ r.iat <= now + Skew /\ now - r.iat <= MaxAge),
      Verdict("TR-ENV-003", r.subject = "uri"),
      Verdict("TR-ENV-004", r.jwk \notin {"absent", "no kty"})>>
    \o (IF r.jwk = "absent" THEN <<>>
        ELSE <<Verdict("TR-ENV-005", r.private = "none")>>)

(* Mutant: an unsigned envelope is unverified, as an unsigned record is. *)
CmcpSigUnverified(r) ==
    IF r.signature = "absent" THEN <<Unverified("TR-SIG-001")>>
    ELSE IF r.jwk # "Ed25519" THEN <<Fails("TR-SIG-002", "other")>>
    ELSE <<Verdict("TR-SIG-001", r.canonical /\ r.signature = "valid")>>

(* tr_sig.check_cmcp_runtime.  A record without a canonical form has no    *)
(* bytes a signature could be taken over.                                  *)
CmcpSigFindings(r) ==
    IF r.signature = "absent" THEN <<Fails("TR-SIG-001", "other")>>
    ELSE IF r.jwk # "Ed25519" THEN <<Fails("TR-SIG-002", "other")>>
    ELSE <<Verdict("TR-SIG-001", r.canonical /\ r.signature = "valid")>>

(* tr_sig.check. *)
SigFindings(r, level) ==
    IF r.format = "cmcp-runtime" THEN CmcpSigFindings(r)
    ELSE IF r.private = "d" THEN <<Fails("TR-SIG-004", "other"), Unverified("TR-SIG-005")>>
    ELSE <<Verdict("TR-SIG-004", r.jwk \in {"Ed25519", "OKP without x", "other curve"}),
           IF r.signature # "absent"
             THEN Verdict("TR-SIG-005", r.jwk = "Ed25519" /\ r.canonical /\ r.signature = "valid")
           ELSE IF level >= 1 THEN Fails("TR-SIG-005", "other")
           ELSE Unverified("TR-SIG-005")>>

-----------------------------------------------------------------------------
(* What the resolver of _load_policy_resolver, or a library caller's, does *)
(* when it is asked for the bundle.                                        *)
Answers == {"raises", "non bytes", "the bundle", "other bytes"}

AsksResolver(r, options) ==
    /\ r.policy = "object" /\ r.policy_uri = "absolute" /\ r.bundle_hash = "digest"
    /\ options.resolver

(* The branch tr_pol.check and _resolution_finding take, in the order of   *)
(* their early returns.                                                    *)
PolBranch(r, options, answer) ==
    IF r.policy = "missing" THEN "policy_missing"
    ELSE IF r.policy = "not object" THEN "policy_not_object"
    ELSE IF r.policy_uri = "absent" THEN "policy_uri_absent"
    ELSE IF r.policy_uri = "null" THEN "policy_uri_explicit_null"
    ELSE IF r.policy_uri = "non string" THEN "policy_uri_non_string"
    ELSE IF r.policy_uri = "malformed" THEN "policy_uri_malformed"
    ELSE IF r.bundle_hash = "malformed" THEN "bundle_hash_malformed"
    ELSE IF ~options.resolver THEN "no_resolver"
    ELSE CASE answer = "raises"      -> "resolver_exception"
           [] answer = "non bytes"   -> "resolver_non_bytes"
           [] answer = "the bundle"  -> "resolved_match"
           [] answer = "other bytes" -> "resolved_mismatch"

ResolutionFinding(branch) ==
    Says("TR-POL-003",
        CASE branch \in {"policy_uri_absent", "policy_uri_explicit_null",
                         "bundle_hash_malformed", "no_resolver"} -> "skip"
          [] branch \in {"policy_uri_non_string", "policy_uri_malformed",
                         "resolved_mismatch"} -> "fail"
          [] branch \in {"resolver_exception", "resolver_non_bytes"} -> "unverified"
          [] branch = "resolved_match" -> "pass",
        "other")

(* The calls of _observe on one way through a checker: one, which names a  *)
(* branch and hands over a finding or none.                                *)
Calls(branch, handed) == <<[branch |-> branch, earned |-> handed]>>

(* Those of tr_pol.check, given the branch it took. *)
PolObserved(branch) ==
    Calls(branch, IF branch \in {"policy_missing", "policy_not_object"} THEN {}
                  ELSE {ResolutionFinding(branch)})

(* tr_pol.check, given the branch it took. *)
PolFindings(r, branch) ==
    IF branch \in {"policy_missing", "policy_not_object"}
    THEN <<Fails("TR-POL-001", "policy field is missing")>>
    ELSE <<IF r.bundle_hash = "digest" THEN Verdict("TR-POL-001", TRUE)
           ELSE Fails("TR-POL-001", "bundle_hash must match"),
           Verdict("TR-POL-002", r.enforcement_mode = "valid"),
           ResolutionFinding(branch)>>

-----------------------------------------------------------------------------
AprBranch(r) ==
    CASE r.appraisal = "missing"    -> "appraisal_missing"
      [] r.appraisal = "not object" -> "appraisal_not_object"
      [] r.appraisal = "object"     -> IF r.status = "unknown" THEN "status_invalid"
                                       ELSE "status_valid"

(* Mutant: the early returns name their branch and hand over no finding. *)
AprObservedBare(r) ==
    Calls(AprBranch(r), IF r.appraisal # "object" THEN {}
                        ELSE {Verdict("TR-APR-001", r.status # "unknown")})

(* The calls of _observe by tr_apr.check. *)
AprObserved(r) ==
    Calls(AprBranch(r), {Verdict("TR-APR-001", AprBranch(r) = "status_valid")})

(* Mutant: the affirming requirement is dropped from Level 1 on. *)
AprGateInverted(r, level, now) ==
    IF r.appraisal # "object" THEN <<Fails("TR-APR-001", "other")>>
    ELSE <<Verdict("TR-APR-001", r.status # "unknown"),
           Verdict("TR-APR-002", r.verifier = "uri"),
           IF level >= 1 THEN Skips("TR-APR-005")
           ELSE Verdict("TR-APR-005", r.status = "affirming")>>

(* tr_apr.check.  The clock is read once, for a present timestamp. *)
AprFindings(r, level, now) ==
    IF r.appraisal # "object" THEN <<Fails("TR-APR-001", "other")>>
    ELSE <<Verdict("TR-APR-001", r.status # "unknown"),
           Verdict("TR-APR-002", r.verifier = "uri"),
           IF r.policy_ref = "absent" THEN Skips("TR-APR-003")
           ELSE Verdict("TR-APR-003", r.policy_ref = "uri"),
           IF r.timestamp = NoTime THEN Skips("TR-APR-004")
           ELSE Verdict("TR-APR-004", r.timestamp # BadTime /\ r.timestamp <= now + Skew),
           IF level < 1 THEN Skips("TR-APR-005")
           ELSE Verdict("TR-APR-005", r.status = "affirming")>>

-----------------------------------------------------------------------------
(* Mutant: a challenge that neither side gave is a challenge met. *)
RteNonceUnasked(r, level, options) ==
    IF r.runtime # "object" THEN <<Fails("TR-RTE-001", "other")>>
    ELSE <<Verdict("TR-RTE-001", r.platform = "tee"),
           Verdict("TR-RTE-002", r.measurement # "malformed"),
           Verdict("TR-RTE-003", r.rim_uri # "other"),
           Verdict("TR-RTE-004", r.nonce = options.nonce)>>

(* tr_rte.check.  The runner passes the level; TR-RTE is scheduled from    *)
(* Level 1, but the checker can be called at Level 0.                      *)
RteFindings(r, level, options) ==
    IF r.runtime # "object" THEN <<Fails("TR-RTE-001", "other")>>
    ELSE <<Verdict("TR-RTE-001", \/ r.platform = "tee"
                                 \/ (r.platform = "software-only" /\ level = 0)),
           Verdict("TR-RTE-002", r.measurement # "malformed"),
           IF r.rim_uri = "absent" THEN Skips("TR-RTE-003")
           ELSE Verdict("TR-RTE-003", r.rim_uri = "https")>>
         \o (IF level < 1 THEN <<>>
             ELSE <<Verdict("TR-RTE-004", /\ "absent" \notin {options.nonce, r.nonce}
                                          /\ r.nonce = options.nonce)>>)

ScaBranch(r) ==
    CASE r.build_provenance = "missing"    -> "build_provenance_missing"
      [] r.build_provenance = "not object" -> "build_provenance_not_object"
      [] r.build_provenance = "object"     -> IF r.digest = "digest" THEN "digest_valid"
                                              ELSE "digest_invalid"

(* The calls of _observe by tr_sca.check, given the branch it took. *)
ScaObserved(branch) ==
    Calls(branch, IF branch \in {"digest_valid", "digest_invalid"}
                  THEN {Verdict("TR-SCA-002", branch = "digest_valid")} ELSE {})

(* Mutant: what is no object is reported with the words for what is missing. *)
ScaFindingsInOtherWords(r, branch) ==
    IF branch \in {"digest_valid", "digest_invalid"}
    THEN <<Verdict("TR-SCA-001", r.slsa_level = "valid"),
           Verdict("TR-SCA-002", branch = "digest_valid")>>
    ELSE <<Fails("TR-SCA-001", "build_provenance is required")>>

(* tr_sca.check, given the branch it took. *)
ScaFindings(r, branch) ==
    CASE branch = "build_provenance_missing" ->
           <<Fails("TR-SCA-001", "build_provenance is required")>>
      [] branch = "build_provenance_not_object" ->
           <<Fails("TR-SCA-001", "build_provenance must be an object")>>
      [] branch \in {"digest_valid", "digest_invalid"} ->
           <<Verdict("TR-SCA-001", r.slsa_level = "valid"),
             Verdict("TR-SCA-002", branch = "digest_valid")>>

(* tr_txn.check. *)
TxnFindings(r) ==
    IF r.tool_transcript # "object" THEN <<Fails("TR-TXN-001", "other")>>
    ELSE <<Verdict("TR-TXN-001", r.hash = "digest"),
           IF r.call_count = "absent" THEN Skips("TR-TXN-002")
           ELSE Verdict("TR-TXN-002", r.call_count = "natural")>>

(* tr_anc.check.  Whether the receipt proves inclusion is what Inclusion   *)
(* models; every other receipt, absent or malformed, fails.                *)
AncFindings(r, options) ==
    IF r.transparency # "https" THEN <<Fails("TR-ANC-001", "other")>>
    ELSE <<Verdict("TR-ANC-001", TRUE),
           Verdict("TR-ANC-002", options.receipt = "proves")>>

-----------------------------------------------------------------------------
(* The call of one checker by _run_core: the findings it returns, and      *)
(* before that what it observes.  `answer' is what the policy resolver     *)
(* does when it is asked.                                                  *)
FindingsOf(module, r, options, level, now, answer) ==
    CASE module = "TR-ENV" -> EnvFindings(r, now)
      [] module = "TR-SIG" -> SigFindings(r, level)
      [] module = "TR-POL" -> PolFindings(r, PolBranch(r, options, answer))
      [] module = "TR-APR" -> AprFindings(r, level, now)
      [] module = "TR-RTE" -> RteFindings(r, level, options)
      [] module = "TR-SCA" -> ScaFindings(r, ScaBranch(r))
      [] module = "TR-TXN" -> TxnFindings(r)
      [] module = "TR-ANC" -> AncFindings(r, options)

Observed(module, r, options, answer) ==
    CASE module = "TR-POL" -> PolObserved(PolBranch(r, options, answer))
      [] module = "TR-APR" -> AprObserved(r)
      [] module = "TR-SCA" -> ScaObserved(ScaBranch(r))
      [] OTHER -> <<>>
=============================================================================
