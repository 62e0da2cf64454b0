------------------------------ MODULE Findings ------------------------------
(***************************************************************************)
(* Conformance findings and the policy that decides which of them fail a   *)
(* level: src/trace_tests/result.py and modules/unverified.py.             *)
(*                                                                         *)
(* A finding is a record [code, status, text].  Of its message only the    *)
(* `text' is kept that some branch rule compares against a declared        *)
(* prefix.  An optional value (None, or a value) is a set with at most one *)
(* member throughout the project.                                          *)
(***************************************************************************)
EXTENDS Integers, FiniteSets

CONSTANTS Codes,  \* the finding codes
          Texts   \* what the messages say, up to the prefixes rules compare

Status == {"pass", "fail", "skip", "unverified"}

Finding == [code : Codes, status : Status, text : Texts]

Option(S) == {{}} \cup {{s} : s \in S}

(***************************************************************************)
(* The contribution policy: a table from codes to the lowest level at      *)
(* which an unverified finding under the code fails, and the threshold of  *)
(* the codes the table does not name.                                      *)
(***************************************************************************)
IsPolicy(policy) ==
    /\ DOMAIN policy.thresholds \subseteq Codes
    /\ \A c \in DOMAIN policy.thresholds : policy.thresholds[c] \in Nat
    /\ policy.default \in Nat

ShippedPolicy(table) == [thresholds |-> table, default |-> 1]

UnverifiedFails(policy, code, level) ==
    level >= IF code \in DOMAIN policy.thresholds
             THEN policy.thresholds[code]
             ELSE policy.default

CountsAsLevelFailure(policy, finding, level) ==
    \/ finding.status = "fail"
    \/ /\ finding.status = "unverified"
       /\ UnverifiedFails(policy, finding.code, level)
=============================================================================
