-------------------------- MODULE MCMutationHarness -------------------------
(* Three sites in two files: two sites of one check in one file, and a     *)
(* check with one site in another; every assignment of sites to two tests. *)
EXTENDS MutationHarness, TLC

MCSites == {"pol missing", "pol malformed", "txn missing"}

MCPlace == ("pol missing" :> 1) @@ ("pol malformed" :> 2) @@ ("txn missing" :> 3)

MCFileOf == [s \in MCSites |-> IF s = "txn missing" THEN "tr_txn" ELSE "tr_pol"]

MCCodeOf == [s \in MCSites |-> IF s = "txn missing" THEN "TR-TXN-001" ELSE "TR-POL-001"]
=============================================================================
