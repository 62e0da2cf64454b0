----------------------------- MODULE MCInclusion ----------------------------
(***************************************************************************)
(* Instances of Inclusion.  The logs are built from their size; their      *)
(* roots and audit paths are compared with the recursive definitions of    *)
(* RFC 9162, section 2.1 (the largest power of two smaller than the size). *)
(***************************************************************************)
EXTENDS Inclusion, FiniteSets

LOCAL INSTANCE FiniteSetsExt
LOCAL INSTANCE Functions

CONSTANTS Sizes,      \* the sizes of the logs
          MadeUpSize  \* the one that receipts are made up about

(* Leaf k is claim k, and from MadeUpSize on the claims come round again;  *)
(* the last claim is in no log.                                            *)
MCClaims == 0..MadeUpSize

Log(n) ==
    LET top == CHOOSE h \in 0..n : 2^h >= n /\ (h = 0 \/ 2^(h - 1) < n)
        width[h \in 0..top] == IF h = 0 THEN n ELSE (width[h - 1] + 1) \div 2
        level[h \in 0..top] ==
          [k \in 0..(width[h] - 1) |->
             IF h = 0 THEN Leaf(k % MadeUpSize)
             ELSE IF 2 * k + 1 < width[h - 1]
             THEN Node(level[h - 1][2 * k], level[h - 1][2 * k + 1])
             ELSE level[h - 1][2 * k]]
        place[h \in 0..top] ==
          [k \in 0..(n - 1) |-> IF h = 0 THEN k ELSE place[h - 1][k] \div 2]
    IN  [top |-> top, width |-> width, level |-> level, place |-> place,
         leaves |-> [k \in 0..(n - 1) |-> k % MadeUpSize]]

MCLogs == {Log(n) : n \in Sizes}

-----------------------------------------------------------------------------
SplitAt(n) == Max({2^h : h \in {i \in 0..n : 2^i < n}})

(* MTH and PATH for the leaves from..(from + n - 1). *)
RECURSIVE TreeHash(_, _)
TreeHash(from, n) ==
    IF n = 1 THEN Leaf(from % MadeUpSize)
    ELSE Node(TreeHash(from, SplitAt(n)), TreeHash(from + SplitAt(n), n - SplitAt(n)))

RECURSIVE AuditPath(_, _, _)
AuditPath(k, from, n) ==
    IF n = 1 THEN <<>>
    ELSE IF k < SplitAt(n)
    THEN Append(AuditPath(k, from, SplitAt(n)),
                TreeHash(from + SplitAt(n), n - SplitAt(n)))
    ELSE Append(AuditPath(k - SplitAt(n), from + SplitAt(n), n - SplitAt(n)),
                TreeHash(from, SplitAt(n)))

ASSUME LogsAreMerkleTrees ==
    \A n \in Sizes :
      /\ Root(Log(n)) = TreeHash(0, n)
      /\ \A k \in 0..(n - 1) : HonestPath(Log(n), k) = AuditPath(k, 0, n)

-----------------------------------------------------------------------------
(* The receipts a log hands out, and each of them with another index or    *)
(* another count.                                                          *)
HonestReceipts ==
    LET honest == UNION {{HonestReceipt(t, k) : k \in DOMAIN t.leaves} : t \in MCLogs} IN
    UNION {{p, [p EXCEPT !.index = @ + 1], [p EXCEPT !.count = @ + 1],
            [p EXCEPT !.form = "malformed"], [p EXCEPT !.form = "no numbers"]} : p \in honest}

(* Receipts with the root of one log and any index, any count around the   *)
(* real one, and any path of up to three of the log's nodes and a hash it  *)
(* lacks.                                                                  *)
MadeUpReceipts ==
    LET t     == Log(MadeUpSize)
        nodes == UNION {Range(t.level[h]) : h \in 0..(t.top - 1)} \cup {Leaf(MadeUpSize)}
        paths == UNION {[1..n -> nodes] : n \in 0..3}
    IN  [form : {"proof"}, index : -1..MadeUpSize, count : {0, 1} \cup (MadeUpSize - 1)..(MadeUpSize + 1),
         path : paths, root : {Root(t)}]

MCReceipts == HonestReceipts \cup MadeUpReceipts
=============================================================================
