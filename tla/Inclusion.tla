------------------------------ MODULE Inclusion -----------------------------
(***************************************************************************)
(* The inclusion proof behind TR-ANC-002: src/trace_tests/inclusion.py and *)
(* _check_inclusion of modules/tr_anc.py.  A claim and an anchor receipt   *)
(* go in; the receipt is parsed, the hash of the claim's leaf is carried   *)
(* up along the audit path, and the result is compared with the root the   *)
(* receipt names.                                                          *)
(*                                                                         *)
(* SHA-256 is taken to be free of collisions: a hash is the tagged tuple   *)
(* of what was hashed, with the prefix that tells a leaf from a node.      *)
(***************************************************************************)
EXTENDS Integers, Sequences, FiniteSets

CONSTANTS Logs,           \* the transparency logs receipts may speak of
          Claims,         \* the signed claims
          OutsideProfile, \* the claims that have no anchor-leaf form
          Receipts        \* the receipts

Leaf(claim) == <<0, claim>>

Node(left, right) == <<1, left, right>>

(***************************************************************************)
(* A log, by RFC 6962: a row of leaves; on each level two neighbours are   *)
(* hashed into their parent, and a last node without a neighbour is moved  *)
(* up as it is.  `level[h]' numbers the nodes of height h from 0, and      *)
(* `place[h][k]' is the number of the one the k-th leaf is under.          *)
(***************************************************************************)
IsLog(t) ==
    /\ t.top \in Nat
    /\ t.width \in [0..t.top -> Nat \ {0}]
    /\ t.width[t.top] = 1
    /\ t.leaves \in [0..(t.width[0] - 1) -> Claims]
    /\ \A k \in 0..(t.width[0] - 1) : t.level[0][k] = Leaf(t.leaves[k]) /\ t.place[0][k] = k
    /\ \A h \in 0..(t.top - 1) :
         /\ t.width[h] > 1
         /\ t.width[h + 1] = (t.width[h] + 1) \div 2
         /\ \A k \in 0..(t.width[h + 1] - 1) :
              t.level[h + 1][k] =
                IF 2 * k + 1 < t.width[h]
                THEN Node(t.level[h][2 * k], t.level[h][2 * k + 1])
                ELSE t.level[h][2 * k]
         /\ \A k \in 0..(t.width[0] - 1) : t.place[h + 1][k] = t.place[h][k] \div 2

Root(t) == t.level[t.top][0]

Forms == {"malformed", "no numbers", "proof"}

ASSUME InclusionAssumption ==
    /\ \A t \in Logs : IsLog(t)
    /\ OutsideProfile \subseteq Claims
    /\ \A p \in Receipts :
         /\ p.form \in Forms
         /\ p.index \in Int /\ p.count \in Int
         /\ Len(p.path) \in Nat /\ p.path = [i \in 1..Len(p.path) |-> p.path[i]]

VARIABLES claim,    \* the claim whose inclusion is to be proven
          receipt,  \* what the receipt file holds
          phase,    \* "parse", "climb", "skip" (the inner loop) or "done"
          verdict,  \* "none" until done
          r,        \* the hash carried up
          fn, sn,   \* the position of r and of the last node on its level
          used,     \* how many elements of the audit path were consumed
          height    \* how often fn and sn were halved (not in the code)

vars == <<claim, receipt, phase, verdict, r, fn, sn, used, height>>

Init ==
    /\ claim \in Claims
    /\ receipt \in Receipts
    /\ phase = "parse"
    /\ verdict = "none"
    /\ r = Leaf(claim)
    /\ fn = 0 /\ sn = 0
    /\ used = 0
    /\ height = 0

Finish(v) ==
    /\ phase' = "done"
    /\ verdict' = v
    /\ UNCHANGED <<claim, receipt, r, fn, sn, used, height>>

(* Mutant: the last index is one too large. *)
InRangeInclusive == 0 <= receipt.index /\ receipt.index <= receipt.count

InRange == 0 <= receipt.index /\ receipt.index < receipt.count

(* parse_receipt, and verify_inclusion up to its loop.                     *)
Start ==
    /\ phase = "parse"
    /\ \/ /\ receipt.form = "malformed"
          /\ Finish("malformed")
       \/ /\ receipt.form # "malformed"
          /\ receipt.form = "no numbers" \/ ~InRange
          /\ Finish("not proven")
       \/ /\ receipt.form = "proof" /\ InRange
          /\ claim \in OutsideProfile
          /\ Finish("unverifiable")
       \/ /\ receipt.form = "proof" /\ InRange
          /\ claim \notin OutsideProfile
          /\ phase' = "climb"
          /\ fn' = receipt.index
          /\ sn' = receipt.count - 1
          /\ UNCHANGED <<claim, receipt, verdict, r, used, height>>

Odd(n) == n % 2 = 1

Halve ==
    /\ fn' = fn \div 2
    /\ sn' = sn \div 2
    /\ height' = height + 1

(* Mutant: the right edge of the tree is not told apart. *)
ClimbByParity ==
    /\ phase = "climb"
    /\ used < Len(receipt.path)
    /\ \/ /\ sn = 0
          /\ Finish("not proven")
       \/ /\ sn # 0
          /\ used' = used + 1
          /\ r' = IF Odd(fn) THEN Node(receipt.path[used + 1], r)
                             ELSE Node(r, receipt.path[used + 1])
          /\ Halve
          /\ UNCHANGED <<claim, receipt, phase, verdict>>

(* Mutant: a path that is too long is not noticed. *)
ClimbPastTheRoot ==
    /\ phase = "climb"
    /\ used < Len(receipt.path)
    /\ used' = used + 1
    /\ \/ /\ Odd(fn) \/ fn = sn
          /\ r' = IF sn = 0 THEN r ELSE Node(receipt.path[used + 1], r)
          /\ \/ Odd(fn) /\ Halve /\ UNCHANGED phase
             \/ ~Odd(fn) /\ phase' = "skip" /\ UNCHANGED <<fn, sn, height>>
       \/ /\ ~Odd(fn) /\ fn # sn
          /\ r' = Node(r, receipt.path[used + 1])
          /\ Halve /\ UNCHANGED phase
    /\ UNCHANGED <<claim, receipt, verdict>>

(* One element of the audit path.  On an odd position, and for the last    *)
(* node of a level, it is the left neighbour; that node may have been      *)
(* moved up several levels, which the inner loop then skips.               *)
Climb ==
    /\ phase = "climb"
    /\ used < Len(receipt.path)
    /\ \/ /\ sn = 0
          /\ Finish("not proven")
       \/ /\ sn # 0
          /\ Odd(fn)
          /\ r' = Node(receipt.path[used + 1], r)
          /\ used' = used + 1
          /\ Halve
          /\ UNCHANGED <<claim, receipt, phase, verdict>>
       \/ /\ sn # 0
          /\ ~Odd(fn) /\ fn = sn
          /\ r' = Node(receipt.path[used + 1], r)
          /\ used' = used + 1
          /\ phase' = "skip"
          /\ UNCHANGED <<claim, receipt, verdict, fn, sn, height>>
       \/ /\ sn # 0
          /\ ~Odd(fn) /\ fn # sn
          /\ r' = Node(r, receipt.path[used + 1])
          /\ used' = used + 1
          /\ Halve
          /\ UNCHANGED <<claim, receipt, phase, verdict>>

(* Mutant: the inner loop has lost its test for zero and for odd. *)
SkipForever ==
    /\ phase = "skip"
    /\ fn' = fn \div 2 /\ sn' = sn \div 2
    /\ UNCHANGED <<claim, receipt, phase, verdict, r, used, height>>

(* The inner loop, and the halving that follows it.                        *)
Skip ==
    /\ phase = "skip"
    /\ phase' = IF fn # 0 /\ ~Odd(fn) THEN "skip" ELSE "climb"
    /\ Halve
    /\ UNCHANGED <<claim, receipt, verdict, r, used>>

(* Mutant: only the root is compared. *)
ConcludeByRoot ==
    /\ phase = "climb"
    /\ used = Len(receipt.path)
    /\ Finish(IF r = receipt.root THEN "proven" ELSE "not proven")

(* Mutant: only the height is compared. *)
ConcludeByHeight ==
    /\ phase = "climb"
    /\ used = Len(receipt.path)
    /\ Finish(IF sn = 0 THEN "proven" ELSE "not proven")

Conclude ==
    /\ phase = "climb"
    /\ used = Len(receipt.path)
    /\ Finish(IF sn = 0 /\ r = receipt.root THEN "proven" ELSE "not proven")

Next == Start \/ Climb \/ Skip \/ Conclude

Spec == Init /\ [][Next]_vars

(* The function runs to its end. *)
FairSpec == Spec /\ WF_vars(Next)

-----------------------------------------------------------------------------
TypeOK ==
    /\ claim \in Claims /\ receipt \in Receipts
    /\ phase \in {"parse", "climb", "skip", "done"}
    /\ verdict \in {"none", "malformed", "unverifiable", "not proven", "proven"}
    /\ phase = "done" <=> verdict # "none"
    /\ fn \in Nat /\ sn \in Nat /\ height \in Nat
    /\ fn <= sn
    /\ phase = "skip" => fn = sn /\ fn # 0
    /\ used \in 0..Len(receipt.path)

Proven(t) == verdict = "proven" /\ receipt.root = Root(t)

(* TR-ANC-002 passes only for a claim that is in the log whose root the    *)
(* receipt names, whatever index, count and path the receipt makes up.     *)
ProvenIsAnchored ==
    \A t \in Logs : Proven(t) => \E k \in DOMAIN t.leaves : t.leaves[k] = claim

(* If the receipt states the log's real size, the claim is also where the  *)
(* receipt says.                                                           *)
ProvenAtItsIndex ==
    \A t \in Logs : Proven(t) /\ receipt.count = t.width[0] =>
      t.leaves[receipt.index] = claim

(***************************************************************************)
(* The audit path of the k-th leaf: its sibling on every level it has one. *)
(***************************************************************************)
Sibling(k) == IF Odd(k) THEN k - 1 ELSE k + 1

(* The heights at which something is hashed with what the leaf is under,   *)
(* and how many of them are below a height.                                *)
Joined(t, k) == {h \in 0..(t.top - 1) : Sibling(t.place[h][k]) < t.width[h]}

JoinedBelow(t, k, h) == Cardinality({g \in Joined(t, k) : g < h})

HonestPath(t, k) ==
    [i \in 1..JoinedBelow(t, k, t.top) |->
       LET h == CHOOSE g \in Joined(t, k) : JoinedBelow(t, k, g) = i - 1
       IN  t.level[h][Sibling(t.place[h][k])]]

HonestReceipt(t, k) ==
    [form |-> "proof", index |-> k, count |-> t.width[0],
     path |-> HonestPath(t, k), root |-> Root(t)]

(* Every claim a log holds, and that has an anchor-leaf form, is proven by *)
(* the receipt the log gives for it: for every size of the log and every   *)
(* position in it, the right edge included.                                *)
HonestIsProven ==
    phase = "done" /\ verdict # "proven" =>
      \A t \in {u \in Logs : u.width[0] = receipt.count} :
        receipt.index \in DOMAIN t.leaves /\ claim = t.leaves[receipt.index] =>
          claim \in OutsideProfile \/ receipt # HonestReceipt(t, receipt.index)

(* With the log's size in it, a receipt proves a leaf with its audit path  *)
(* and with no other: neither a shorter nor a longer nor a rearranged one. *)
OnlyTheHonestPath ==
    \A t \in Logs : Proven(t) /\ receipt.count = t.width[0] =>
      receipt.path = HonestPath(t, receipt.index)

(* Both loops end, for every receipt. *)
Decides == <>(phase = "done")
=============================================================================
