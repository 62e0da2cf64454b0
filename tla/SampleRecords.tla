---------------------------- MODULE SampleRecords ---------------------------
(***************************************************************************)
(* Records for the instances of PilotRun and ReportCommand.                *)
(***************************************************************************)
EXTENDS Checkers

(* A record that reaches Level 2. *)
Conformant ==
    [format |-> "trace", eat_profile |-> "trace-v0.2", iat |-> 5, subject |-> "uri",
     jwk |-> "Ed25519", private |-> "none", canonical |-> TRUE, signature |-> "valid",
     policy |-> "object", bundle_hash |-> "digest", enforcement_mode |-> "valid",
     policy_uri |-> "absolute",
     appraisal |-> "object", status |-> "affirming", verifier |-> "uri",
     policy_ref |-> "absent", timestamp |-> NoTime,
     runtime |-> "object", platform |-> "tee", measurement |-> "digest",
     rim_uri |-> "absent", nonce |-> "challenge",
     build_provenance |-> "object", slsa_level |-> "valid", digest |-> "digest",
     tool_transcript |-> "object", hash |-> "digest", call_count |-> "absent",
     transparency |-> "https"]

(* A JSON object with none of the members a TRACE record has. *)
NoClaims ==
    [Conformant EXCEPT
       !.eat_profile = "other", !.iat = BadTime, !.subject = "other",
       !.jwk = "absent", !.signature = "absent",
       !.policy = "missing", !.bundle_hash = "malformed", !.enforcement_mode = "other",
       !.policy_uri = "absent",
       !.appraisal = "missing", !.status = "none", !.verifier = "absent",
       !.runtime = "not object", !.platform = "unregistered", !.measurement = "malformed",
       !.nonce = "absent",
       !.build_provenance = "missing", !.slsa_level = "other", !.digest = "malformed",
       !.tool_transcript = "missing", !.hash = "malformed",
       !.transparency = "absent"]
=============================================================================
