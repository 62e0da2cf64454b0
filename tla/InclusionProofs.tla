--------------------------- MODULE InclusionProofs --------------------------
(***************************************************************************)
(* What an accepted inclusion proof shows, for every log, claim and        *)
(* receipt.  The argument runs forwards.  A hash that is not in the tree   *)
(* stays outside when it is hashed with anything, because hashing is       *)
(* injective and the children of a tree's node are in the tree; so a claim *)
(* that is not in the log never reaches the root.  With the real size, the *)
(* machine also knows the row and the column it is at, and a hash that     *)
(* differs from the node there differs from its parent one row up.  So an  *)
(* accepted path is the log's own, element by element, and the log's own   *)
(* path is accepted.                                                       *)
(***************************************************************************)
EXTENDS Inclusion, LeastNumbers, FiniteSetTheorems, TLAPS

(* Hashes are injective, and a leaf is never a node. *)
LEMMA HashesAreFree ==
    /\ \A a, b : Leaf(a) = Leaf(b) => a = b
    /\ \A a, b, c, d : Node(a, b) = Node(c, d) => a = c /\ b = d
    /\ \A a, b, c : Leaf(a) # Node(b, c)
BY DEF Leaf, Node

Rows(t) == 0..t.top

Row(t, h) == 0..(t.width[h] - 1)

Nodes(t) == UNION {{t.level[h][k] : k \in Row(t, h)} : h \in Rows(t)}

Holds(t) == \E k \in Row(t, 0) : t.leaves[k] = claim

-----------------------------------------------------------------------------
(* The parts of IsLog the proofs use. *)
LEMMA LogShape ==
    ASSUME NEW t \in Logs
    PROVE  /\ t.top \in Nat
           /\ \A h \in Rows(t) : t.width[h] \in Nat /\ t.width[h] > 0
           /\ t.width[t.top] = 1
           /\ DOMAIN t.leaves = Row(t, 0)
           /\ \A k \in Row(t, 0) : t.level[0][k] = Leaf(t.leaves[k])
<1>1. IsLog(t)
  BY InclusionAssumption
<1>2. t.top \in Nat /\ t.width \in [Rows(t) -> Nat \ {0}]
  BY <1>1 DEF IsLog, Rows
<1>3. \A h \in Rows(t) : t.width[h] \in Nat /\ t.width[h] > 0
  BY <1>2
<1>4. t.width[t.top] = 1 /\ DOMAIN t.leaves = Row(t, 0)
  BY <1>1 DEF IsLog, Row
<1>5. \A k \in Row(t, 0) : t.level[0][k] = Leaf(t.leaves[k])
  BY <1>1 DEF IsLog, Row
<1> QED BY <1>2, <1>3, <1>4, <1>5

(* One row up: half as many nodes, each hashed or moved up. *)
LEMMA RowAbove ==
    ASSUME NEW t \in Logs, NEW h \in Rows(t), h # t.top
    PROVE  /\ h + 1 \in Rows(t)
           /\ t.width[h] > 1
           /\ t.width[h + 1] = (t.width[h] + 1) \div 2
           /\ \A k \in Row(t, h + 1) :
                t.level[h + 1][k] = IF 2 * k + 1 < t.width[h]
                                    THEN Node(t.level[h][2 * k], t.level[h][2 * k + 1])
                                    ELSE t.level[h][2 * k]
<1>1. IsLog(t)
  BY InclusionAssumption
<1>2. t.top \in Nat
  BY <1>1 DEF IsLog
<1>3. h \in 0..(t.top - 1) /\ h + 1 \in Rows(t)
  BY <1>2 DEF Rows
<1> QED BY <1>1, <1>3 DEF IsLog, Row

(* A node of the tree is a leaf of the log or has its children in the tree. *)
LEMMA NodesAreClosed ==
    ASSUME NEW t \in Logs, NEW x \in Nodes(t)
    PROVE  \/ \E k \in Row(t, 0) : x = Leaf(t.leaves[k])
           \/ \E a \in Nodes(t), b \in Nodes(t) : x = Node(a, b)
<1> DEFINE At == {h \in Rows(t) : \E k \in Row(t, h) : x = t.level[h][k]}
<1>1. At # {} /\ At \subseteq Nat
  BY LogShape DEF Nodes, Rows
<1>2. PICK m \in At : \A n \in At : m <= n
  <2> HIDE DEF At
  <2> QED BY <1>1, LeastElement
<1>3. m \in Rows(t) /\ m \in Nat
  BY <1>1
<1>4. PICK k \in Row(t, m) : x = t.level[m][k]
  OBVIOUS
<1>5. CASE m = 0
  BY <1>4, <1>5, LogShape
<1>6. CASE m # 0
  <2> DEFINE g == m - 1
  <2>1. g \in Rows(t) /\ g # t.top /\ g + 1 = m /\ ~(m <= g)
    BY <1>3, <1>6, LogShape DEF Rows
  <2>2. g \notin At
    BY <2>1, <1>2
  <2>3. /\ t.width[m] = (t.width[g] + 1) \div 2
        /\ t.level[m][k] = IF 2 * k + 1 < t.width[g]
                           THEN Node(t.level[g][2 * k], t.level[g][2 * k + 1])
                           ELSE t.level[g][2 * k]
    <3> HIDE DEF g
    <3> QED BY <2>1, <1>4, RowAbove
  <2>4. t.width[g] \in Nat /\ k \in Nat /\ k <= t.width[m] - 1
    BY <2>1, <1>3, LogShape DEF Row
  <2>5. 2 * k \in Row(t, g)
    BY <2>3, <2>4 DEF Row
  <2>6. x # t.level[g][2 * k]
    BY <2>1, <2>2, <2>5
  <2>7. 2 * k + 1 < t.width[g] /\ x = Node(t.level[g][2 * k], t.level[g][2 * k + 1])
    BY <1>4, <2>3, <2>6
  <2>8. 2 * k + 1 \in Row(t, g)
    BY <2>4, <2>7 DEF Row
  <2>9. t.level[g][2 * k] \in Nodes(t) /\ t.level[g][2 * k + 1] \in Nodes(t)
    BY <2>1, <2>5, <2>8 DEF Nodes
  <2> QED BY <2>7, <2>9
<1> QED BY <1>5, <1>6

(* So hashing something outside the tree with anything stays outside. *)
LEMMA OutsideStaysOutside ==
    ASSUME NEW t \in Logs, NEW x, NEW y, x \notin Nodes(t) \/ y \notin Nodes(t)
    PROVE  Node(x, y) \notin Nodes(t)
BY NodesAreClosed, HashesAreFree

LEMMA OtherLeavesAreOutside ==
    ASSUME NEW t \in Logs, ~Holds(t)
    PROVE  Leaf(claim) \notin Nodes(t)
BY NodesAreClosed, HashesAreFree DEF Holds

LEMMA RootIsANode ==
    ASSUME NEW t \in Logs
    PROVE  Root(t) \in Nodes(t)
<1>1. t.top \in Rows(t) /\ 0 \in Row(t, t.top)
  BY LogShape DEF Rows, Row
<1> QED BY <1>1 DEF Root, Nodes

-----------------------------------------------------------------------------
LEMMA Halving ==
    ASSUME NEW n \in Nat
    PROVE  /\ n \div 2 \in Nat
           /\ Odd(n) => n = 2 * (n \div 2) + 1
           /\ ~Odd(n) => n = 2 * (n \div 2)
BY DEF Odd

LEMMA HalvingIsMonotone ==
    ASSUME NEW m \in Nat, NEW n \in Nat, m <= n
    PROVE  m \div 2 <= n \div 2
OBVIOUS

(* Types; the climb stays inside the tree (fn <= sn); the inner loop is    *)
(* entered on the last node of a level, and never with zero, on which it   *)
(* would not end.                                                          *)
THEOREM InclusionTypeCorrect == Spec => []TypeOK
<1>1. Init => TypeOK
  BY InclusionAssumption DEF Init, TypeOK
<1>2. TypeOK /\ [Next]_vars => TypeOK'
  <2> SUFFICES ASSUME TypeOK, [Next]_vars PROVE TypeOK'
    OBVIOUS
  <2>0. /\ claim \in Claims /\ receipt \in Receipts
        /\ phase = "done" <=> verdict # "none"
        /\ fn \in Nat /\ sn \in Nat /\ height \in Nat
        /\ fn <= sn
        /\ phase = "skip" => fn = sn /\ fn # 0
        /\ used \in 0..Len(receipt.path)
    BY DEF TypeOK
  <2>1. receipt.index \in Int /\ receipt.count \in Int /\ Len(receipt.path) \in Nat
    BY <2>0, InclusionAssumption
  <2>2. \A v \in {"malformed", "unverifiable", "not proven", "proven"} :
          Finish(v) => TypeOK'
    BY <2>0 DEF Finish, TypeOK
  <2>3. /\ fn \div 2 <= sn \div 2 /\ fn \div 2 \in Nat /\ sn \div 2 \in Nat
        /\ fn # 0 /\ ~Odd(fn) => fn \div 2 # 0
        /\ fn = 0 => ~Odd(fn)
    <3>1. fn \div 2 <= sn \div 2
      BY <2>0, HalvingIsMonotone
    <3>2. /\ fn \div 2 \in Nat /\ sn \div 2 \in Nat
          /\ ~Odd(fn) => fn = 2 * (fn \div 2)
      BY <2>0, Halving
    <3>3. fn # 0 /\ ~Odd(fn) => fn \div 2 # 0
      BY <3>2
    <3>4. fn = 0 => ~Odd(fn)
      BY DEF Odd
    <3> QED BY <3>1, <3>2, <3>3, <3>4
  <2>4. CASE Start
    <3>1. CASE /\ phase = "parse" /\ phase' = "climb" /\ InRange
               /\ fn' = receipt.index /\ sn' = receipt.count - 1
               /\ UNCHANGED <<claim, receipt, verdict, r, used, height>>
      BY <2>0, <2>1, <3>1 DEF TypeOK, InRange
    <3> QED BY <2>2, <2>4, <3>1 DEF Start
  <2>5. CASE Climb
    <3>1. CASE \E v \in {"not proven"} : Finish(v)
      BY <2>2, <3>1
    <3>2. CASE /\ phase = "climb" /\ used < Len(receipt.path) /\ used' = used + 1
               /\ UNCHANGED <<claim, receipt, verdict>>
               /\ \/ Halve /\ UNCHANGED phase
                  \/ /\ phase' = "skip" /\ fn = sn /\ fn # 0
                     /\ UNCHANGED <<fn, sn, height>>
      BY <2>0, <2>1, <2>3, <3>2 DEF TypeOK, Halve
    <3> QED BY <2>5, <3>1, <3>2 DEF Climb
  <2>6. CASE Skip
    BY <2>0, <2>1, <2>3, <2>6 DEF Skip, Halve, TypeOK
  <2>7. CASE Conclude
    BY <2>2, <2>7 DEF Conclude
  <2>8. CASE UNCHANGED vars
    BY <2>8 DEF vars, TypeOK
  <2> QED BY <2>4, <2>5, <2>6, <2>7, <2>8 DEF Next
<1> QED BY <1>1, <1>2, PTL DEF Spec

-----------------------------------------------------------------------------
(* A claim that is not in the log has not got into its tree. *)
OffTheTree ==
    \A t \in Logs : ~Holds(t) /\ phase # "done" => r \notin Nodes(t)

TreeInv == OffTheTree /\ ProvenIsAnchored

LEMMA OffTheTreeInitially == Init => TreeInv
BY OtherLeavesAreOutside DEF Init, TreeInv, OffTheTree, ProvenIsAnchored, Proven

LEMMA OffTheTreeAlways == TypeOK /\ TreeInv /\ [Next]_vars => TreeInv'
<1> SUFFICES ASSUME TypeOK, TreeInv, [Next]_vars PROVE TreeInv'
  OBVIOUS
<1> USE DEF TreeInv
<1>1. claim' = claim /\ receipt' = receipt
  BY DEF Next, Start, Climb, Skip, Conclude, Finish, vars
<1>2. \A t \in Logs : (Holds(t))' <=> Holds(t)
  BY <1>1 DEF Holds
<1>3. OffTheTree'
  <2> SUFFICES ASSUME NEW t \in Logs, ~Holds(t), phase' # "done"
               PROVE  r' \notin Nodes(t)
    BY <1>2 DEF OffTheTree, Nodes, Rows, Row
  <2>1. phase # "done"
    BY DEF Next, Start, Climb, Skip, Conclude, Finish, vars
  <2>2. r \notin Nodes(t)
    BY <2>1 DEF OffTheTree
  <2>3. r' = r \/ \E p : r' = Node(p, r) \/ r' = Node(r, p)
    BY DEF Next, Start, Climb, Skip, Conclude, Finish, vars
  <2> QED BY <2>2, <2>3, OutsideStaysOutside
<1>4. ProvenIsAnchored'
  <2> SUFFICES ASSUME NEW t \in Logs, verdict' = "proven", receipt.root = Root(t)
               PROVE  Holds(t)
    BY <1>1, LogShape DEF ProvenIsAnchored, Proven, Holds, Root
  <2>1. CASE verdict = "proven"
    BY <2>1, LogShape DEF ProvenIsAnchored, Proven, Holds
  <2>2. CASE verdict # "proven"
    <3>1. phase = "climb" /\ r = receipt.root
      BY <2>2 DEF Next, Start, Climb, Skip, Conclude, Finish, vars
    <3> QED BY <3>1, RootIsANode DEF OffTheTree
  <2> QED BY <2>1, <2>2
<1> QED BY <1>3, <1>4

(* TR-ANC-002 never passes for a claim outside the log whose root the      *)
(* receipt names, for any log, any claim and any receipt.                  *)
THEOREM AcceptedIsAnchored == Spec => []ProvenIsAnchored
<1> QED BY InclusionTypeCorrect, OffTheTreeInitially, OffTheTreeAlways, PTL
       DEF Spec, TreeInv

-----------------------------------------------------------------------------
(* With the real size, fn and sn are a position and the last position of a *)
(* row of the tree; and if the leaf at the stated index is another claim's, *)
(* r is not the node at that position, nor, while the inner loop runs, a   *)
(* parent of it.                                                           *)
Misplaced(t) ==
    \/ phase = "climb" /\ r # t.level[height][fn]
    \/ phase = "skip" /\ \E p, q : r = Node(p, q) /\ q # t.level[height][fn]

OnTheRow(t) ==
    /\ height \in Rows(t)
    /\ sn = t.width[height] - 1
    /\ t.leaves[receipt.index] # claim => Misplaced(t)

OnTheRows ==
    \A t \in Logs :
      receipt.count = t.width[0] /\ phase \in {"climb", "skip"} => OnTheRow(t)

AtStart == phase = "parse" => height = 0 /\ r = Leaf(claim)

RowInv == AtStart /\ OnTheRows /\ ProvenAtItsIndex

LEMMA RowInvInitially == Init => RowInv
BY DEF Init, RowInv, AtStart, OnTheRows, ProvenAtItsIndex, Proven

(* Halving both positions climbs one row. *)
LEMMA OneRowUp ==
    ASSUME TypeOK, NEW t \in Logs, height \in Rows(t), sn = t.width[height] - 1, sn # 0
    PROVE  /\ height + 1 \in Rows(t)
           /\ sn \div 2 = t.width[height + 1] - 1
           /\ Odd(fn) => t.level[height + 1][fn \div 2] =
                            Node(t.level[height][fn - 1], t.level[height][fn])
           /\ ~Odd(fn) /\ fn # sn => t.level[height + 1][fn \div 2] =
                            Node(t.level[height][fn], t.level[height][fn + 1])
           /\ ~Odd(fn) /\ fn = sn => t.level[height + 1][fn \div 2] = t.level[height][fn]
<1>1. height # t.top /\ t.width[height] \in Nat
  BY LogShape
<1>2. /\ height + 1 \in Rows(t)
      /\ t.width[height + 1] = (t.width[height] + 1) \div 2
      /\ \A k \in Row(t, height + 1) :
           t.level[height + 1][k] = IF 2 * k + 1 < t.width[height]
                            THEN Node(t.level[height][2 * k], t.level[height][2 * k + 1])
                            ELSE t.level[height][2 * k]
  BY <1>1, RowAbove
<1>3. fn \in Nat /\ sn \in Nat /\ fn <= sn
  BY DEF TypeOK
<1>4. /\ fn \div 2 \in Nat
      /\ Odd(fn) => fn = 2 * (fn \div 2) + 1
      /\ ~Odd(fn) => fn = 2 * (fn \div 2)
      /\ fn \div 2 <= sn \div 2
  BY <1>3, Halving, HalvingIsMonotone
<1>5. sn \div 2 = t.width[height + 1] - 1
  BY <1>1, <1>2, <1>3
<1>6. fn \div 2 \in Row(t, height + 1)
  BY <1>3, <1>4, <1>5, Halving DEF Row
<1>7. t.level[height + 1][fn \div 2] =
        IF 2 * (fn \div 2) + 1 <= sn
        THEN Node(t.level[height][2 * (fn \div 2)], t.level[height][2 * (fn \div 2) + 1])
        ELSE t.level[height][2 * (fn \div 2)]
  BY <1>1, <1>2, <1>3, <1>4, <1>6
<1>8. ASSUME Odd(fn)
      PROVE  t.level[height + 1][fn \div 2] =
               Node(t.level[height][fn - 1], t.level[height][fn])
  <2>1. 2 * (fn \div 2) + 1 = fn /\ 2 * (fn \div 2) = fn - 1
    BY <1>3, <1>4, <1>8
  <2> QED BY <1>3, <1>7, <2>1
<1>9. ASSUME ~Odd(fn)
      PROVE  t.level[height + 1][fn \div 2] =
               IF fn + 1 <= sn THEN Node(t.level[height][fn], t.level[height][fn + 1])
               ELSE t.level[height][fn]
  <2>1. 2 * (fn \div 2) = fn
    BY <1>3, <1>4, <1>9
  <2> QED BY <1>3, <1>7, <2>1
<1> QED BY <1>2, <1>3, <1>5, <1>8, <1>9

LEMMA RowInvAlways == TypeOK /\ RowInv /\ [Next]_vars => RowInv'
<1> SUFFICES ASSUME TypeOK, RowInv, [Next]_vars PROVE RowInv'
  OBVIOUS
<1>1. claim' = claim /\ receipt' = receipt
  BY DEF Next, Start, Climb, Skip, Conclude, Finish, vars
<1>2. AtStart'
  BY DEF RowInv, AtStart, Next, Start, Climb, Skip, Conclude, Finish, vars
<1>3. OnTheRows'
  <2> SUFFICES ASSUME NEW t \in Logs, receipt.count = t.width[0],
                      phase' \in {"climb", "skip"}
               PROVE  OnTheRow(t)'
    BY <1>1 DEF OnTheRows
  <2>1. CASE Start
    <3>1. /\ fn' = receipt.index /\ sn' = receipt.count - 1 /\ phase' = "climb"
          /\ r' = Leaf(claim) /\ height' = 0 /\ InRange
      BY <2>1 DEF Start, Finish, RowInv, AtStart
    <3>2. receipt.index \in Row(t, 0) /\ 0 \in Rows(t)
      <4>1. receipt.index \in Int /\ receipt \in Receipts
        BY InclusionAssumption DEF TypeOK
      <4>2. t.top \in Nat /\ 0 \in Rows(t)
        BY LogShape DEF Rows
      <4>3. t.width[0] \in Nat
        BY <4>2, LogShape
      <4> QED BY <3>1, <4>1, <4>2, <4>3 DEF InRange, Row
    <3>3. t.leaves[receipt.index] # claim => r' # t.level[0][receipt.index]
      BY <3>1, <3>2, LogShape, HashesAreFree
    <3> QED BY <1>1, <3>1, <3>2, <3>3 DEF OnTheRow, Misplaced, Rows
  <2>2. ASSUME Climb \/ Skip
        PROVE  OnTheRow(t)'
    <3>1. phase \in {"climb", "skip"} /\ OnTheRow(t)
      BY <2>2 DEF RowInv, OnTheRows, Climb, Skip
    <3>2. sn # 0
      BY <2>2 DEF Climb, Skip, Finish, TypeOK
    <3>3. /\ height + 1 \in Rows(t)
          /\ sn \div 2 = t.width[height + 1] - 1
          /\ Odd(fn) => t.level[height + 1][fn \div 2] =
                           Node(t.level[height][fn - 1], t.level[height][fn])
          /\ ~Odd(fn) /\ fn # sn => t.level[height + 1][fn \div 2] =
                           Node(t.level[height][fn], t.level[height][fn + 1])
          /\ ~Odd(fn) /\ fn = sn => t.level[height + 1][fn \div 2] = t.level[height][fn]
      BY <3>1, <3>2, OneRowUp DEF OnTheRow
    <3>4. /\ height' \in Rows(t)
          /\ sn' = t.width[height'] - 1
      BY <2>2, <3>1, <3>2, <3>3 DEF OnTheRow, Climb, Skip, Halve, Finish
    <3>5. ASSUME t.leaves[receipt.index] # claim
          PROVE  Misplaced(t)'
      <4>1. Misplaced(t)
        BY <3>1, <3>5 DEF OnTheRow
      <4>2. CASE Climb
        <5>1. phase = "climb" /\ r # t.level[height][fn]
          BY <4>1, <4>2 DEF Climb, Misplaced
        <5>2. PICK p : p = receipt.path[used + 1]
          OBVIOUS
        <5>3. CASE Odd(fn)
          <6>1. r' = Node(p, r) /\ Halve /\ phase' = "climb"
            BY <3>2, <4>2, <5>1, <5>2, <5>3 DEF Climb, Finish
          <6> QED BY <3>3, <5>1, <5>3, <6>1, HashesAreFree DEF Misplaced, Halve
        <5>4. CASE ~Odd(fn) /\ fn # sn
          <6>1. r' = Node(r, p) /\ Halve /\ phase' = "climb"
            BY <3>2, <4>2, <5>1, <5>2, <5>4 DEF Climb, Finish
          <6> QED BY <3>3, <5>1, <5>4, <6>1, HashesAreFree DEF Misplaced, Halve
        <5>5. CASE ~Odd(fn) /\ fn = sn
          <6>1. r' = Node(p, r) /\ phase' = "skip" /\ UNCHANGED <<fn, height>>
            BY <3>2, <4>2, <5>1, <5>2, <5>5 DEF Climb, Finish
          <6> QED BY <5>1, <6>1 DEF Misplaced
        <5> QED BY <5>3, <5>4, <5>5
      <4>3. CASE Skip
        <5>1. PICK p, q : r = Node(p, q) /\ q # t.level[height][fn]
          BY <4>1, <4>3 DEF Skip, Misplaced
        <5>2. fn = sn /\ fn # 0 /\ r' = r /\ Halve
          BY <4>3 DEF Skip, TypeOK
        <5>3. CASE Odd(fn)
          <6>1. phase' = "climb"
            BY <4>3, <5>3 DEF Skip
          <6> QED BY <3>3, <5>1, <5>2, <5>3, <6>1, HashesAreFree DEF Misplaced, Halve
        <5>4. CASE ~Odd(fn)
          <6>1. phase' = "skip"
            BY <4>3, <5>2, <5>4 DEF Skip
          <6> QED BY <3>3, <5>1, <5>2, <5>4, <6>1 DEF Misplaced, Halve
        <5> QED BY <5>3, <5>4
      <4> QED BY <2>2, <4>2, <4>3
    <3>6. t.leaves[receipt'.index] # claim' => Misplaced(t)'
      BY <1>1, <3>5
    <3> QED BY <3>4, <3>6 DEF OnTheRow, Rows
  <2>3. CASE Conclude
    BY <2>3 DEF Conclude, Finish
  <2>4. CASE UNCHANGED vars
    BY <2>4 DEF vars, RowInv, OnTheRows, OnTheRow, Misplaced, Rows
  <2> QED BY <2>1, <2>2, <2>3, <2>4 DEF Next
<1>4. ProvenAtItsIndex'
  <2> SUFFICES ASSUME NEW t \in Logs, verdict' = "proven", receipt.root = Root(t),
                      receipt.count = t.width[0]
               PROVE  t.leaves[receipt.index] = claim
    BY <1>1 DEF ProvenAtItsIndex, Proven, Root
  <2>1. CASE verdict = "proven"
    BY <2>1 DEF RowInv, ProvenAtItsIndex, Proven
  <2>2. CASE verdict # "proven"
    <3>1. phase = "climb" /\ sn = 0 /\ r = receipt.root
      BY <2>2 DEF Next, Start, Climb, Skip, Conclude, Finish, vars
    <3>2. OnTheRow(t) /\ fn = 0
      BY <3>1 DEF RowInv, OnTheRows, TypeOK
    <3>3. t.width[height] = 1
      BY <3>1, <3>2, LogShape DEF OnTheRow
    <3>4. height = t.top
      BY <3>2, <3>3, RowAbove DEF OnTheRow
    <3> QED BY <3>1, <3>2, <3>4 DEF OnTheRow, Misplaced, Root
  <2> QED BY <2>1, <2>2
<1> QED BY <1>2, <1>3, <1>4 DEF RowInv

(* A receipt that states the log's size and root proves a claim only at    *)
(* the index where the log has it.                                         *)
THEOREM AcceptedIsAtItsIndex == Spec => []ProvenAtItsIndex
<1> QED BY InclusionTypeCorrect, RowInvInitially, RowInvAlways, PTL DEF Spec, RowInv
-----------------------------------------------------------------------------
(***************************************************************************)
(* The audit path of a leaf.                                               *)
(***************************************************************************)
LEMMA LogPlaces ==
    ASSUME NEW t \in Logs, NEW k \in Row(t, 0)
    PROVE  /\ t.place[0][k] = k
           /\ \A h \in Rows(t) : h # t.top => t.place[h + 1][k] = t.place[h][k] \div 2
<1>1. IsLog(t)
  BY InclusionAssumption
<1>2. t.top \in Nat
  BY LogShape
<1>3. \A h \in Rows(t) : h # t.top => h \in 0..(t.top - 1)
  BY <1>2 DEF Rows
<1> QED BY <1>1, <1>3 DEF IsLog, Row

(* A leaf is under one node of every row. *)
LEMMA PlacesAreInRows ==
    ASSUME NEW t \in Logs, NEW k \in Row(t, 0), NEW h \in Rows(t)
    PROVE  t.place[h][k] \in Row(t, h)
<1> DEFINE Bad == {g \in Rows(t) : t.place[g][k] \notin Row(t, g)}
<1> SUFFICES ASSUME Bad # {} PROVE FALSE
  OBVIOUS
<1>1. Bad \subseteq Nat
  BY LogShape DEF Rows
<1>2. PICK m \in Bad : \A n \in Bad : m <= n
  <2> HIDE DEF Bad
  <2> QED BY <1>1, LeastElement
<1>3. m \in Rows(t) /\ m \in Nat
  BY <1>1
<1>4. m # 0
  BY LogPlaces
<1> DEFINE g == m - 1
<1>5. g \in Rows(t) /\ g # t.top /\ g + 1 = m /\ ~(m <= g)
  BY <1>3, <1>4, LogShape DEF Rows
<1>6. g \notin Bad
  BY <1>2, <1>5
<1>7. t.place[g][k] \in Row(t, g)
  BY <1>5, <1>6
<1>8. t.width[m] = (t.width[g] + 1) \div 2 /\ t.place[m][k] = t.place[g][k] \div 2
  <2> HIDE DEF g
  <2> QED BY <1>5, RowAbove, LogPlaces
<1>9. t.width[g] \in Nat
  BY <1>5, LogShape
<1>10. t.place[m][k] \in Row(t, m)
  BY <1>7, <1>8, <1>9 DEF Row
<1> QED BY <1>10

(* How the number of joined heights grows from height to height. *)
LEMMA JoinedCounts ==
    ASSUME NEW t \in Logs, NEW k
    PROVE  /\ Joined(t, k) \subseteq 0..(t.top - 1)
           /\ \A h \in Nat : JoinedBelow(t, k, h) \in Nat
           /\ JoinedBelow(t, k, 0) = 0
           /\ \A h \in Nat : JoinedBelow(t, k, h + 1)
                = IF h \in Joined(t, k) THEN JoinedBelow(t, k, h) + 1 ELSE JoinedBelow(t, k, h)
           /\ \A g, h \in Nat : g <= h => JoinedBelow(t, k, g) <= JoinedBelow(t, k, h)
<1> DEFINE J == Joined(t, k)
           B(h) == {g \in J : g < h}
<1>1. J \subseteq 0..(t.top - 1) /\ t.top \in Nat
  BY LogShape DEF Joined
<1>2. J \subseteq Nat /\ IsFiniteSet(J)
  <2>1. IsFiniteSet(0..(t.top - 1))
    BY <1>1, FS_Interval
  <2> QED BY <1>1, <2>1, FS_Subset
<1> HIDE DEF J
<1>3. \A h : IsFiniteSet(B(h)) /\ Cardinality(B(h)) \in Nat
  <2> TAKE h
  <2>1. B(h) \in SUBSET J
    OBVIOUS
  <2> HIDE DEF B
  <2>2. IsFiniteSet(B(h))
    BY <1>2, <2>1, FS_Subset
  <2> QED BY <2>2, FS_CardinalityType
<1>4. /\ \A g \in J : ~(g < 0)
      /\ \A g \in J, h \in Nat : g < h + 1 <=> g < h \/ g = h
      /\ \A g \in J : \A f, h \in Nat : g < f /\ f <= h => g < h
  <2>1. \A g \in J : g \in Nat
    BY <1>2
  <2> QED BY <2>1
<1>5. B(0) = {}
  BY <1>4
<1>6. ASSUME NEW h \in Nat
      PROVE  B(h + 1) = IF h \in J THEN B(h) \cup {h} ELSE B(h)
  BY <1>4
<1>7. \A h \in Nat : h \notin B(h)
  OBVIOUS
<1>8. ASSUME NEW g \in Nat, NEW h \in Nat, g <= h PROVE B(g) \in SUBSET B(h)
  BY <1>4, <1>8
<1>9. \A h : JoinedBelow(t, k, h) = Cardinality(B(h))
  BY DEF JoinedBelow, J
<1> HIDE DEF B
<1>10. Cardinality(B(0)) = 0
  BY <1>5, FS_EmptySet
<1>11. ASSUME NEW h \in Nat
       PROVE  Cardinality(B(h + 1)) = IF h \in J THEN Cardinality(B(h)) + 1 ELSE Cardinality(B(h))
  <2>1. Cardinality(B(h) \cup {h}) = Cardinality(B(h)) + 1
    BY <1>3, <1>7, FS_AddElement
  <2> QED BY <1>6, <2>1
<1>12. ASSUME NEW g \in Nat, NEW h \in Nat, g <= h PROVE Cardinality(B(g)) <= Cardinality(B(h))
  BY <1>3, <1>8, <1>12, FS_Subset
<1> QED BY <1>1, <1>3, <1>9, <1>10, <1>11, <1>12 DEF J

(* So every joined height has its own place on the path. *)
LEMMA HonestPathAt ==
    ASSUME NEW t \in Logs, NEW k, NEW h \in Joined(t, k)
    PROVE  LET i == JoinedBelow(t, k, h) + 1 IN
           /\ i \in 1..JoinedBelow(t, k, t.top)
           /\ HonestPath(t, k)[i] = t.level[h][Sibling(t.place[h][k])]
<1> DEFINE J == Joined(t, k)
           C(g) == JoinedBelow(t, k, g)
           i == C(h) + 1
           Height(j) == CHOOSE g \in J : C(g) = j - 1
<1>1. J \subseteq 0..(t.top - 1) /\ t.top \in Nat
  BY JoinedCounts, LogShape
<1>2. /\ \A g \in Nat : C(g) \in Nat
      /\ \A g \in Nat : C(g + 1) = IF g \in J THEN C(g) + 1 ELSE C(g)
      /\ \A g, f \in Nat : g <= f => C(g) <= C(f)
  BY JoinedCounts
<1>3. J \subseteq Nat /\ h \in J /\ h + 1 <= t.top /\ h \in Nat
  BY <1>1
<1>4. HonestPath(t, k) = [j \in 1..C(t.top) |-> t.level[Height(j)][Sibling(t.place[Height(j)][k])]]
  BY DEF HonestPath
<1> HIDE DEF J, C
<1>5. i \in 1..C(t.top)
  <2>1. C(h + 1) = C(h) + 1 /\ C(h + 1) <= C(t.top)
    BY <1>1, <1>2, <1>3
  <2> QED BY <1>1, <1>2, <1>3, <2>1
<1>6. ASSUME NEW g \in J, C(g) = C(h) PROVE g = h
  <2>1. ~(g < h)
    <3> SUFFICES ASSUME g < h PROVE FALSE
      OBVIOUS
    <3>1. g \in Nat /\ g + 1 <= h
      BY <1>3
    <3>2. C(g + 1) = C(g) + 1 /\ C(g + 1) <= C(h)
      BY <1>2, <1>3, <3>1
    <3> QED BY <1>2, <1>3, <1>6, <3>1, <3>2
  <2>2. ~(h < g)
    <3> SUFFICES ASSUME h < g PROVE FALSE
      OBVIOUS
    <3>1. g \in Nat /\ h + 1 <= g
      BY <1>3
    <3>2. C(h + 1) = C(h) + 1 /\ C(h + 1) <= C(g)
      BY <1>2, <1>3, <3>1
    <3> QED BY <1>2, <1>3, <1>6, <3>1, <3>2
  <2> QED BY <1>3, <2>1, <2>2
<1>7. Height(i) = h
  <2>1. i - 1 = C(h)
    BY <1>2, <1>3
  <2>2. Height(i) \in J /\ C(Height(i)) = i - 1
    <3>1. \E g \in J : C(g) = i - 1
      BY <1>3, <2>1
    <3> QED BY <3>1
  <2> HIDE DEF Height, i
  <2> QED BY <1>6, <2>1, <2>2
<1>8. HonestPath(t, k)[i] = t.level[h][Sibling(t.place[h][k])]
  <2> HIDE DEF i, Height
  <2> QED BY <1>4, <1>5, <1>7
<1> QED BY <1>5, <1>8 DEF C

(* The two nodes under the root are always joined. *)
LEMMA LastIsJoined ==
    ASSUME NEW t \in Logs, NEW k \in Row(t, 0), t.top # 0
    PROVE  t.top - 1 \in Joined(t, k)
<1> DEFINE h == t.top - 1
<1>1. h \in Rows(t) /\ h # t.top /\ h + 1 = t.top /\ h \in 0..(t.top - 1)
  BY LogShape DEF Rows
<1>2. t.width[h + 1] = 1
  BY <1>1, LogShape
<1> HIDE DEF h
<1>3. t.width[h] > 1 /\ 1 = (t.width[h] + 1) \div 2 /\ t.width[h] \in Nat
  BY <1>1, <1>2, RowAbove, LogShape
<1>4. t.width[h] = 2
  BY <1>3
<1>5. t.place[h][k] \in {0, 1}
  BY <1>1, <1>4, PlacesAreInRows DEF Row
<1>6. Sibling(t.place[h][k]) < t.width[h]
  BY <1>4, <1>5 DEF Sibling, Odd
<1> QED BY <1>1, <1>6 DEF Joined, h
(***************************************************************************)
(* Where the climb is above the leaf at the stated index, and how much of  *)
(* that leaf's audit path it has used up.  If it is at the node of the     *)
(* log, every element so far was the right one, since another one gives    *)
(* another hash; and with the log's own receipt it is at that node.        *)
(***************************************************************************)
Consumed(t, n) == \A i \in 1..n : receipt.path[i] = HonestPath(t, receipt.index)[i]

Honest(t) ==
    receipt = HonestReceipt(t, receipt.index) /\ claim = t.leaves[receipt.index]

OnTheWay(t) ==
    /\ receipt.index \in Row(t, 0)
    /\ fn = t.place[height][receipt.index]
    /\ phase = "climb" =>
         /\ used = JoinedBelow(t, receipt.index, height)
         /\ r = t.level[height][fn] => Consumed(t, used)
         /\ Honest(t) => r = t.level[height][fn]
    /\ phase = "skip" =>
         /\ used = JoinedBelow(t, receipt.index, height) + 1
         /\ \E q : r = Node(receipt.path[used], q)
         /\ r = Node(receipt.path[used], t.level[height][fn]) => Consumed(t, used - 1)
         /\ Honest(t) => r = Node(receipt.path[used], t.level[height][fn])

OnTheirWay ==
    \A t \in Logs :
      receipt.count = t.width[0] /\ phase \in {"climb", "skip"} => OnTheWay(t)

(* What is to the side of the node the climb is at. *)
LEMMA BesideTheWay ==
    ASSUME TypeOK, NEW t \in Logs, OnTheRow(t), OnTheWay(t), sn # 0
    PROVE  /\ height \in Nat
           /\ JoinedBelow(t, receipt.index, height) \in Nat
           /\ t.place[height + 1][receipt.index] = fn \div 2
           /\ Odd(fn) \/ fn # sn =>
                /\ JoinedBelow(t, receipt.index, height + 1)
                     = JoinedBelow(t, receipt.index, height) + 1
                /\ HonestPath(t, receipt.index)[JoinedBelow(t, receipt.index, height) + 1]
                     = t.level[height][IF Odd(fn) THEN fn - 1 ELSE fn + 1]
           /\ ~Odd(fn) /\ fn = sn =>
                JoinedBelow(t, receipt.index, height + 1) = JoinedBelow(t, receipt.index, height)
<1> DEFINE k == receipt.index
           J == Joined(t, k)
<1>1. /\ k \in Row(t, 0) /\ fn = t.place[height][k]
      /\ height \in Rows(t) /\ sn = t.width[height] - 1
      /\ fn \in Nat /\ sn \in Nat /\ fn <= sn
  BY DEF OnTheRow, OnTheWay, TypeOK
<1>2. /\ height # t.top /\ t.width[height] \in Nat /\ t.top \in Nat
      /\ height \in Nat /\ height \in 0..(t.top - 1)
  BY <1>1, LogShape DEF Rows
<1> HIDE DEF k
<1>3. t.place[height + 1][k] = fn \div 2
  BY <1>1, <1>2, LogPlaces
<1>4. /\ JoinedBelow(t, k, height) \in Nat
      /\ JoinedBelow(t, k, height + 1)
           = IF height \in J THEN JoinedBelow(t, k, height) + 1 ELSE JoinedBelow(t, k, height)
  BY <1>2, JoinedCounts
<1>5. height \in J <=> Sibling(fn) <= sn
  <2>1. height \in J <=> Sibling(fn) < t.width[height]
    BY <1>1, <1>2 DEF Joined
  <2>2. Sibling(fn) \in Int
    BY <1>1 DEF Sibling
  <2> QED BY <1>1, <1>2, <2>1, <2>2
<1>6. Odd(fn) \/ fn # sn => Sibling(fn) <= sn
  BY <1>1 DEF Sibling
<1>7. ~Odd(fn) /\ fn = sn => ~(Sibling(fn) <= sn)
  BY <1>1 DEF Sibling
<1>8. ASSUME height \in J
      PROVE  HonestPath(t, k)[JoinedBelow(t, k, height) + 1] = t.level[height][Sibling(fn)]
  BY <1>1, <1>8, HonestPathAt
<1> HIDE DEF J
<1> QED BY <1>2, <1>3, <1>4, <1>5, <1>6, <1>7, <1>8 DEF k, Sibling

LEMMA OnTheWayUp ==
    ASSUME TypeOK, NEW t \in Logs, OnTheRow(t), OnTheWay(t), Climb \/ Skip,
           phase' \in {"climb", "skip"}
    PROVE  OnTheWay(t)'
<1> DEFINE k == receipt.index
           B(h) == JoinedBelow(t, k, h)
           p == receipt.path
           H == HonestPath(t, k)
           at == t.level[height][fn]
           above == t.level[height + 1][fn \div 2]
<1>1. claim' = claim /\ receipt' = receipt /\ k \in Row(t, 0)
  BY DEF Climb, Skip, Finish, OnTheWay
<1>2. sn # 0
  BY DEF Climb, Skip, Finish, TypeOK
<1>3. /\ B(height) \in Nat
      /\ t.place[height + 1][k] = fn \div 2
      /\ Odd(fn) \/ fn # sn =>
           /\ B(height + 1) = B(height) + 1
           /\ H[B(height) + 1] = t.level[height][IF Odd(fn) THEN fn - 1 ELSE fn + 1]
      /\ ~Odd(fn) /\ fn = sn => B(height + 1) = B(height)
  BY <1>2, BesideTheWay
<1>4. /\ Odd(fn) => above = Node(t.level[height][fn - 1], at)
      /\ ~Odd(fn) /\ fn # sn => above = Node(at, t.level[height][fn + 1])
      /\ ~Odd(fn) /\ fn = sn => above = at
  BY <1>2, OneRowUp DEF OnTheRow
<1>5. Honest(t)' <=> Honest(t)
  BY <1>1 DEF Honest
<1>6. Honest(t) => p = H
  BY DEF Honest, HonestReceipt
<1>7. \A n : Consumed(t, n)' <=> Consumed(t, n)
  BY <1>1 DEF Consumed
<1>8. \A n \in Nat : Consumed(t, n) /\ p[n + 1] = H[n + 1] => Consumed(t, n + 1)
  <2> SUFFICES ASSUME NEW n \in Nat, Consumed(t, n), p[n + 1] = H[n + 1],
                      NEW i \in 1..(n + 1)
               PROVE  p[i] = H[i]
    BY DEF Consumed
  <2>1. i \in 1..n \/ i = n + 1
    OBVIOUS
  <2> QED BY <2>1 DEF Consumed
<1>9. ASSUME phase' = "climb", fn' = t.place[height'][k], used' = B(height'),
              r' = t.level[height'][fn'] => Consumed(t, used'),
              Honest(t) => r' = t.level[height'][fn']
       PROVE  OnTheWay(t)'
  BY <1>1, <1>5, <1>7, <1>9 DEF OnTheWay
<1>10. ASSUME phase' = "skip", fn' = t.place[height'][k], used' = B(height') + 1,
              \E q : r' = Node(p[used'], q),
              r' = Node(p[used'], t.level[height'][fn']) => Consumed(t, used' - 1),
              Honest(t) => r' = Node(p[used'], t.level[height'][fn'])
       PROVE  OnTheWay(t)'
  BY <1>1, <1>5, <1>7, <1>10 DEF OnTheWay
<1>11. CASE Climb
  <2> DEFINE x == p[used + 1]
  <2>1. /\ phase = "climb" /\ used = B(height)
        /\ r = at => Consumed(t, used)
        /\ Honest(t) => r = at
    BY <1>11 DEF Climb, OnTheWay
  <2>2. CASE Odd(fn)
    <3>1. /\ r' = Node(x, r) /\ used' = used + 1 /\ phase' = "climb"
          /\ fn' = fn \div 2 /\ height' = height + 1
      BY <1>2, <1>11, <2>2 DEF Climb, Halve, Finish
    <3>2. used' = B(height') /\ H[used + 1] = t.level[height][fn - 1]
      BY <1>3, <2>1, <2>2, <3>1
    <3>3. r' = above => x = H[used + 1] /\ r = at
      <4> SUFFICES ASSUME r' = above PROVE x = H[used + 1] /\ r = at
        OBVIOUS
      <4>1. Node(x, r) = Node(t.level[height][fn - 1], at)
        BY <1>4, <2>2, <3>1
      <4>2. x = t.level[height][fn - 1] /\ r = at
        BY <4>1, HashesAreFree
      <4> QED BY <3>2, <4>2
    <3>4. r' = above => Consumed(t, used')
      BY <1>3, <1>8, <2>1, <3>1, <3>3
    <3>5. Honest(t) => r' = above
      BY <1>4, <1>6, <2>1, <2>2, <3>1, <3>2
    <3> QED BY <1>3, <1>9, <3>1, <3>2, <3>4, <3>5
  <2>3. CASE ~Odd(fn) /\ fn # sn
    <3>1. /\ r' = Node(r, x) /\ used' = used + 1 /\ phase' = "climb"
          /\ fn' = fn \div 2 /\ height' = height + 1
      BY <1>2, <1>11, <2>3 DEF Climb, Halve, Finish
    <3>2. used' = B(height') /\ H[used + 1] = t.level[height][fn + 1]
      BY <1>3, <2>1, <2>3, <3>1
    <3>3. r' = above => x = H[used + 1] /\ r = at
      <4> SUFFICES ASSUME r' = above PROVE x = H[used + 1] /\ r = at
        OBVIOUS
      <4>1. Node(r, x) = Node(at, t.level[height][fn + 1])
        BY <1>4, <2>3, <3>1
      <4>2. x = t.level[height][fn + 1] /\ r = at
        BY <4>1, HashesAreFree
      <4> QED BY <3>2, <4>2
    <3>4. r' = above => Consumed(t, used')
      BY <1>3, <1>8, <2>1, <3>1, <3>3
    <3>5. Honest(t) => r' = above
      BY <1>4, <1>6, <2>1, <2>3, <3>1, <3>2
    <3> QED BY <1>3, <1>9, <3>1, <3>2, <3>4, <3>5
  <2>4. CASE ~Odd(fn) /\ fn = sn
    <3>1. /\ r' = Node(x, r) /\ used' = used + 1 /\ phase' = "skip"
          /\ fn' = fn /\ height' = height
      BY <1>2, <1>11, <2>4 DEF Climb, Finish
    <3>2. used' = B(height') + 1 /\ used' - 1 = used
      BY <1>3, <2>1, <3>1
    <3>3. r' = Node(p[used'], at) => r = at
      <4> SUFFICES ASSUME r' = Node(p[used'], at) PROVE r = at
        OBVIOUS
      <4>1. Node(x, r) = Node(p[used'], at)
        BY <3>1
      <4> QED BY <4>1, HashesAreFree
    <3>4. Honest(t) => r' = Node(p[used'], at)
      BY <2>1, <3>1
    <3>5. fn' = t.place[height'][k]
      BY <3>1 DEF OnTheWay
    <3>6. \E q : r' = Node(p[used'], q)
      BY <3>1
    <3> QED BY <1>10, <2>1, <3>1, <3>2, <3>3, <3>4, <3>5, <3>6
  <2> QED BY <2>2, <2>3, <2>4
<1>12. CASE Skip
  <2>1. /\ phase = "skip" /\ fn = sn /\ fn # 0
        /\ r' = r /\ used' = used /\ fn' = fn \div 2 /\ height' = height + 1
        /\ phase' = IF ~Odd(fn) THEN "skip" ELSE "climb"
    BY <1>12 DEF Skip, Halve, TypeOK
  <2>2. /\ used = B(height) + 1
        /\ \E q : r = Node(p[used], q)
        /\ r = Node(p[used], at) => Consumed(t, used - 1)
        /\ Honest(t) => r = Node(p[used], at)
    BY <2>1 DEF OnTheWay
  <2>3. CASE Odd(fn)
    <3>1. used' = B(height') /\ H[used] = t.level[height][fn - 1] /\ used - 1 \in Nat
          /\ (used - 1) + 1 = used
      BY <1>3, <2>1, <2>2, <2>3
    <3>2. r' = above => p[used] = H[used] /\ r = Node(p[used], at)
      BY <1>4, <2>1, <2>2, <2>3, <3>1, HashesAreFree
    <3>3. r' = above => Consumed(t, used')
      BY <1>8, <2>1, <2>2, <3>1, <3>2
    <3>4. Honest(t) => r' = above
      BY <1>4, <1>6, <2>1, <2>2, <2>3, <3>1
    <3> QED BY <1>3, <1>9, <2>1, <2>3, <3>1, <3>3, <3>4
  <2>4. CASE ~Odd(fn)
    <3>1. B(height') = B(height) /\ above = at /\ phase' = "skip"
      BY <1>3, <1>4, <2>1, <2>4
    <3> QED BY <1>3, <1>10, <2>1, <2>2, <3>1
  <2> QED BY <2>3, <2>4
<1> QED BY <1>11, <1>12
(* The root is reached exactly when the path is used up. *)
LEMMA AtTheRoot ==
    ASSUME TypeOK, NEW t \in Logs, OnTheRow(t), OnTheWay(t)
    PROVE  /\ JoinedBelow(t, receipt.index, t.top) \in Nat
           /\ sn = 0 => height = t.top /\ fn = 0
           /\ phase = "climb" /\ used = JoinedBelow(t, receipt.index, t.top) => sn = 0
<1> DEFINE k == receipt.index
           B(h) == JoinedBelow(t, k, h)
           last == t.top - 1
<1>1. /\ k \in Row(t, 0) /\ height \in Rows(t) /\ sn = t.width[height] - 1
      /\ phase = "climb" => used = B(height)
      /\ fn \in Nat /\ sn \in Nat /\ fn <= sn
  BY DEF OnTheRow, OnTheWay, TypeOK
<1>2. t.top \in Nat /\ height \in Nat /\ height <= t.top /\ t.width[t.top] = 1
      /\ t.width[height] \in Nat
  BY <1>1, LogShape DEF Rows
<1>3. /\ \A h \in Nat : B(h) \in Nat
      /\ \A h \in Nat : B(h + 1) = IF h \in Joined(t, k) THEN B(h) + 1 ELSE B(h)
      /\ \A g, h \in Nat : g <= h => B(g) <= B(h)
  BY JoinedCounts
<1>4. sn = 0 => height = t.top /\ fn = 0
  BY <1>1, <1>2, RowAbove
<1> HIDE DEF k, B
<1>5. ASSUME phase = "climb", used = B(t.top), height # t.top PROVE FALSE
  <2>1. last \in Nat /\ height <= last /\ last + 1 = t.top /\ t.top # 0
    BY <1>2, <1>5
  <2>2. last \in Joined(t, k)
    BY <1>1, <2>1, LastIsJoined
  <2> HIDE DEF last
  <2>3. B(t.top) = B(last) + 1 /\ B(height) <= B(last)
    BY <1>2, <1>3, <2>1, <2>2
  <2> QED BY <1>1, <1>2, <1>3, <1>5, <2>1, <2>3
<1>6. height = t.top => sn = 0
  BY <1>1, <1>2
<1> QED BY <1>2, <1>3, <1>4, <1>5, <1>6 DEF B, k

LEMMA HonestPathLength ==
    ASSUME NEW t \in Logs, NEW k
    PROVE  Len(HonestPath(t, k)) = JoinedBelow(t, k, t.top)
<1>1. JoinedBelow(t, k, t.top) \in Nat
  BY JoinedCounts, LogShape
<1> DEFINE H == HonestPath(t, k)
           n == JoinedBelow(t, k, t.top)
           S == {H[i] : i \in 1..n}
<1>2. H = [i \in 1..n |-> H[i]]
  BY DEF HonestPath
<1> HIDE DEF H, n
<1>3. H \in [1..n -> S]
  BY <1>2
<1> HIDE DEF S
<1>4. n \in Nat
  BY <1>1 DEF n
<1>5. H \in Seq(S)
  BY <1>3, <1>4
<1>6. Len(H) = n
  BY <1>3, <1>4, <1>5
<1> QED BY <1>6 DEF H, n

Untouched == phase = "parse" => used = 0

PathInv == Untouched /\ OnTheirWay /\ OnlyTheHonestPath /\ HonestIsProven

LEMMA PathInvInitially == Init => PathInv
BY DEF Init, PathInv, Untouched, OnTheirWay, OnlyTheHonestPath, HonestIsProven, Proven

(* The first position: the leaf itself, with nothing used. *)
LEMMA SetsOut ==
    ASSUME TypeOK, AtStart, Untouched, NEW t \in Logs, receipt.count = t.width[0],
           Start, phase' = "climb"
    PROVE  OnTheWay(t)'
<1> DEFINE k == receipt.index
<1>1. /\ phase = "parse" /\ InRange /\ fn' = k /\ used' = 0 /\ height' = 0 /\ r' = Leaf(claim)
      /\ claim' = claim /\ receipt' = receipt
  BY DEF Start, Finish, AtStart, Untouched
<1>2. k \in Row(t, 0) /\ 0 \in Rows(t)
  <2>1. receipt.index \in Int /\ receipt \in Receipts
    BY InclusionAssumption DEF TypeOK
  <2>2. t.top \in Nat /\ 0 \in Rows(t)
    BY LogShape DEF Rows
  <2>3. t.width[0] \in Nat
    BY <2>2, LogShape
  <2> QED BY <1>1, <2>1, <2>2, <2>3 DEF InRange, Row
<1>3. t.place[0][k] = k /\ JoinedBelow(t, k, 0) = 0 /\ t.level[0][k] = Leaf(t.leaves[k])
  BY <1>2, LogPlaces, JoinedCounts, LogShape
<1>4. Consumed(t, 0)'
  BY DEF Consumed
<1>5. Honest(t)' => r' = t.level[0][k]
  BY <1>1, <1>3 DEF Honest
<1> QED BY <1>1, <1>2, <1>3, <1>4, <1>5 DEF OnTheWay

LEMMA PathInvAlways == TypeOK /\ RowInv /\ PathInv /\ [Next]_vars => PathInv'
<1> SUFFICES ASSUME TypeOK, RowInv, PathInv, [Next]_vars PROVE PathInv'
  OBVIOUS
<1>1. claim' = claim /\ receipt' = receipt
  BY DEF Next, Start, Climb, Skip, Conclude, Finish, vars
<1>2. Untouched'
  BY DEF PathInv, Untouched, Next, Start, Climb, Skip, Conclude, Finish, vars
<1>3. ASSUME NEW t \in Logs, receipt.count = t.width[0], phase \in {"climb", "skip"}
      PROVE  OnTheRow(t) /\ OnTheWay(t)
  BY <1>3 DEF RowInv, OnTheRows, PathInv, OnTheirWay
<1>4. OnTheirWay'
  <2> SUFFICES ASSUME NEW t \in Logs, receipt.count = t.width[0],
                      phase' \in {"climb", "skip"}
               PROVE  OnTheWay(t)'
    BY <1>1 DEF OnTheirWay
  <2>1. CASE Start
    BY <2>1, SetsOut DEF RowInv, PathInv, Start, Finish
  <2>2. CASE Climb \/ Skip
    <3>1. phase \in {"climb", "skip"}
      BY <2>2 DEF Climb, Skip
    <3> QED BY <1>3, <2>2, <3>1, OnTheWayUp
  <2>3. CASE Conclude
    BY <2>3 DEF Conclude, Finish
  <2>4. CASE UNCHANGED vars
    <3>1. OnTheWay(t)
      BY <1>3, <2>4 DEF vars
    <3> QED BY <2>4, <3>1 DEF vars, OnTheWay, Consumed, Honest
  <2> QED BY <2>1, <2>2, <2>3, <2>4 DEF Next
<1>5. OnlyTheHonestPath'
  <2> SUFFICES ASSUME NEW t \in Logs, verdict' = "proven", receipt.root = Root(t),
                      receipt.count = t.width[0]
               PROVE  receipt.path = HonestPath(t, receipt.index)
    BY <1>1 DEF OnlyTheHonestPath, Proven, Root
  <2>1. CASE verdict = "proven"
    BY <2>1 DEF PathInv, OnlyTheHonestPath, Proven
  <2>2. CASE verdict # "proven"
    <3> DEFINE H == HonestPath(t, receipt.index)
               n == JoinedBelow(t, receipt.index, t.top)
    <3>1. phase = "climb" /\ sn = 0 /\ r = receipt.root /\ used = Len(receipt.path)
      BY <2>2 DEF Next, Start, Climb, Skip, Conclude, Finish, vars
    <3>2. OnTheRow(t) /\ OnTheWay(t)
      BY <1>3, <3>1
    <3>3. height = t.top /\ fn = 0 /\ n \in Nat
      BY <3>1, <3>2, AtTheRoot
    <3>4. used = n /\ Consumed(t, used)
      BY <3>1, <3>2, <3>3 DEF OnTheWay, Root
    <3>5. receipt.path = [i \in 1..n |-> receipt.path[i]]
      BY <3>1, <3>4, InclusionAssumption DEF TypeOK
    <3>6. H = [i \in 1..n |-> H[i]]
      BY DEF HonestPath
    <3>7. \A i \in 1..n : receipt.path[i] = H[i]
      BY <3>4 DEF Consumed
    <3> HIDE DEF H, n
    <3>8. receipt.path = H
      BY <3>5, <3>6, <3>7
    <3> QED BY <3>8 DEF H
  <2> QED BY <2>1, <2>2
<1>6. HonestIsProven'
  <2> SUFFICES ASSUME phase' = "done", verdict' # "proven",
                      NEW t \in Logs, t.width[0] = receipt.count,
                      receipt.index \in DOMAIN t.leaves, claim = t.leaves[receipt.index],
                      claim \notin OutsideProfile, receipt = HonestReceipt(t, receipt.index)
               PROVE  FALSE
    BY <1>1 DEF HonestIsProven
  <2>1. Honest(t) /\ receipt.form = "proof" /\ receipt.root = Root(t)
        /\ receipt.path = HonestPath(t, receipt.index)
    BY DEF Honest, HonestReceipt
  <2>2. InRange
    <3>1. receipt.index \in Row(t, 0)
      BY LogShape
    <3>2. t.width[0] \in Nat
      BY LogShape DEF Rows
    <3> QED BY <3>1, <3>2 DEF Row, InRange
  <2>3. phase # "done"
    BY DEF PathInv, HonestIsProven, Next, Start, Climb, Skip, Conclude, Finish, vars
  <2>4. ~Start
    BY <2>1, <2>2 DEF Start, Finish
  <2>5. phase = "climb" /\ used \in 0..Len(receipt.path)
    BY <2>3, <2>4 DEF TypeOK, Next, Start, Climb, Skip, Conclude, Finish, vars
  <2>6. OnTheRow(t) /\ OnTheWay(t)
    BY <1>3, <2>5
  <2>7. Len(receipt.path) = JoinedBelow(t, receipt.index, t.top)
    BY <2>1, HonestPathLength
  <2>8. sn = 0 => used = Len(receipt.path)
    BY <2>5, <2>6, <2>7, AtTheRoot DEF OnTheWay
  <2>9. ~Climb
    <3> SUFFICES ASSUME Climb PROVE FALSE
      OBVIOUS
    <3>1. used < Len(receipt.path) /\ sn = 0
      BY DEF Climb
    <3>2. Len(receipt.path) \in Nat
      BY InclusionAssumption DEF TypeOK
    <3> QED BY <2>8, <3>1, <3>2
  <2>10. Conclude
    BY <2>3, <2>4, <2>9 DEF Next, Skip, vars
  <2>11. used = Len(receipt.path) /\ (sn # 0 \/ r # receipt.root)
    BY <2>10 DEF Conclude, Finish
  <2>12. sn = 0 /\ height = t.top /\ fn = 0
    BY <2>5, <2>6, <2>7, <2>11, AtTheRoot
  <2>13. r = t.level[height][fn]
    BY <2>1, <2>5, <2>6 DEF OnTheWay
  <2> QED BY <2>1, <2>11, <2>12, <2>13 DEF Root
<1> QED BY <1>2, <1>4, <1>5, <1>6 DEF PathInv

LEMMA PathInvHolds == Spec => []PathInv
<1> QED BY InclusionTypeCorrect, RowInvInitially, RowInvAlways, PathInvInitially, PathInvAlways,
       PTL DEF Spec

(* With the log's size in it, a receipt proves a leaf by its audit path    *)
(* and by no other, for logs of every size and paths of every length.      *)
THEOREM AcceptedPathIsHonest == Spec => []OnlyTheHonestPath
<1> QED BY PathInvHolds, PTL DEF PathInv

(* The verification never refuses the receipt that a log of any size gives *)
(* for one of its leaves.                                                  *)
THEOREM HonestIsAccepted == Spec => []HonestIsProven
<1> QED BY PathInvHolds, PTL DEF PathInv
=============================================================================
