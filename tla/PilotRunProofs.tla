--------------------------- MODULE PilotRunProofs --------------------------
(***************************************************************************)
(* Proofs about PilotRun: for every set of records of the shape Record,    *)
(* every set of caller options, every clock and tolerance, and the levels  *)
(* 0..MaxLevel for MaxLevel up to 2, with the shipped tables.              *)
(***************************************************************************)
EXTENDS PilotRun, FiniteSetTheorems, TLAPS

(***************************************************************************)
(* The schedule.                                                           *)
(***************************************************************************)
AllModules == {"TR-ENV", "TR-SIG", "TR-POL", "TR-APR", "TR-RTE", "TR-SCA", "TR-TXN", "TR-ANC"}

(* The place of a module among those of its level, which is the same at    *)
(* every level that schedules it.                                          *)
Place == [m \in AllModules |->
            CASE m = "TR-ENV" -> 1 [] m = "TR-SIG" -> 2 [] m = "TR-POL" -> 3
              [] m = "TR-APR" -> 4 [] m = "TR-RTE" -> 5 [] m = "TR-SCA" -> 6
              [] m = "TR-TXN" -> 7 [] m = "TR-ANC" -> 8]

Size(level) == IF level = 0 THEN 4 ELSE IF level = 1 THEN 6 ELSE 8

LEMMA Places ==
    /\ \A i \in 1..8 : LevelModules[3][i] \in AllModules /\ Place[LevelModules[3][i]] = i
    /\ \A m \in AllModules : Place[m] \in 1..8 /\ LevelModules[3][Place[m]] = m
<1>1. \A i \in 1..8 : LevelModules[3][i] \in AllModules /\ Place[LevelModules[3][i]] = i
  BY DEF LevelModules, Place, AllModules
<1>2. \A m \in AllModules : Place[m] \in 1..8
  BY DEF Place, AllModules
<1>3. \A m \in AllModules : LevelModules[3][Place[m]] = m
  BY DEF LevelModules, Place, AllModules
<1> QED  BY <1>1, <1>2, <1>3

LEMMA ModulesAre == Modules = AllModules
<1>1. DOMAIN LevelModules[3] = 1..8
  BY DEF LevelModules
<1>2. \A m : m \in PilotModules <=> m \in AllModules
  BY <1>1, Places DEF PilotModules
<1> QED  BY <1>2, PilotRunTables

LEMMA LevelPrefixes ==
    ASSUME NEW l \in 0..2
    PROVE  /\ Len(LevelModules[l + 1]) = Size(l) /\ Size(l) \in 1..8
           /\ DOMAIN LevelModules[l + 1] = 1..Size(l)
           /\ \A i \in 1..Size(l) : LevelModules[l + 1][i] = LevelModules[3][i]
<1>1. CASE l = 0
  BY <1>1 DEF LevelModules, Size
<1>2. CASE l = 1
  BY <1>2 DEF LevelModules, Size
<1>3. CASE l = 2
  BY <1>3 DEF LevelModules, Size
<1> QED  BY <1>1, <1>2, <1>3

AnyCell == (0..2) \X AllModules

LEMMA CellsOfLevel ==
    ASSUME NEW l \in 0..2
    PROVE  /\ LevelCells(l) \in Seq(AnyCell) /\ Len(LevelCells(l)) = Size(l)
           /\ \A i \in 1..Size(l) : LevelCells(l)[i] = <<l, LevelModules[3][i]>>
<1>1. LevelCells(l) = [i \in 1..Size(l) |-> <<l, LevelModules[3][i]>>]
  BY LevelPrefixes DEF LevelCells
<1>2. Size(l) \in Nat /\ \A i \in 1..Size(l) : i \in 1..8
  BY LevelPrefixes
<1>3. \A i \in 1..Size(l) : <<l, LevelModules[3][i]>> \in AnyCell
  BY <1>2, Places DEF AnyCell
<1> HIDE DEF AnyCell
<1> QED  BY <1>1, <1>2, <1>3

(* Where the level starts in the plan. *)
Before(l) == IF l = 0 THEN 0 ELSE IF l = 1 THEN 4 ELSE 10

LEMMA Sizes ==
    /\ \A l \in 0..2 : Before(l) \in Nat /\ Size(l) \in Nat
    /\ Before(0) = 0 /\ Before(1) = Size(0) /\ Before(2) = Before(1) + Size(1)
    /\ \A l \in 0..2 : \A j \in 0..2 : j < l => Before(j) + Size(j) <= Before(l)
  BY DEF Before, Size

(* A level occupies the places of the plan from its first on. *)
Holds(plan, l) ==
    \A i \in 1..Size(l) : plan[Before(l) + i] = <<l, LevelModules[3][i]>>

LEMMA LevelAppended ==
    ASSUME NEW l \in 1..2, NEW s \in Seq(AnyCell), Len(s) = Before(l),
           \A j \in 0..(l - 1) : Holds(s, j)
    PROVE  /\ s \o LevelCells(l) \in Seq(AnyCell)
           /\ Len(s \o LevelCells(l)) = Before(l) + Size(l)
           /\ \A j \in 0..l : Holds(s \o LevelCells(l), j)
<1> DEFINE plan == s \o LevelCells(l)
<1>1. l \in 0..2 /\ \A j \in 0..l : j \in 0..2 /\ (j = l \/ (j < l /\ j \in 0..(l - 1)))
  OBVIOUS
<1>2. Before(l) \in Nat /\ Size(l) \in Nat
  BY <1>1, Sizes
<1>3. /\ LevelCells(l) \in Seq(AnyCell) /\ Len(LevelCells(l)) = Size(l)
      /\ \A i \in 1..Size(l) : LevelCells(l)[i] = <<l, LevelModules[3][i]>>
  BY <1>1, CellsOfLevel
<1>4. /\ plan \in Seq(AnyCell) /\ Len(plan) = Before(l) + Size(l)
      /\ \A i \in 1..Before(l) : plan[i] = s[i]
      /\ \A i \in 1..Size(l) : plan[Before(l) + i] = LevelCells(l)[i]
  <2> DEFINE r == LevelCells(l)
  <2>1. r \in Seq(AnyCell) /\ Len(r) = Size(l)
    BY <1>3
  <2> HIDE DEF r
  <2>2. /\ s \o r \in Seq(AnyCell) /\ Len(s \o r) = Len(s) + Len(r)
        /\ \A i \in 1..Len(s) : (s \o r)[i] = s[i]
        /\ \A i \in 1..Len(r) : (s \o r)[Len(s) + i] = r[i]
    BY ONLY <2>1, s \in Seq(AnyCell)
  <2>3. /\ s \o r \in Seq(AnyCell) /\ Len(s \o r) = Before(l) + Size(l)
        /\ \A i \in 1..Before(l) : (s \o r)[i] = s[i]
        /\ \A i \in 1..Size(l) : (s \o r)[Before(l) + i] = r[i]
    BY <2>1, <2>2, Zenon
  <2> QED  BY <2>3 DEF r
<1> HIDE DEF plan
<1>5. Holds(plan, l)
  BY <1>3, <1>4 DEF Holds
<1>6. ASSUME NEW j \in 0..l, j < l PROVE Holds(plan, j)
  <2>1. j \in 0..2 /\ Holds(s, j)
    BY <1>1, <1>6
  <2>2. Before(j) \in Nat /\ Size(j) \in Nat /\ Before(j) + Size(j) <= Before(l)
    BY <1>1, <1>6, <2>1, Sizes
  <2>3. \A i \in 1..Size(j) : Before(j) + i \in 1..Before(l)
    BY <1>2, <2>2
  <2> QED  BY <1>4, <2>1, <2>3 DEF Holds
<1>7. \A j \in 0..l : Holds(plan, j)
  BY <1>1, <1>5, <1>6
<1> QED  BY <1>4, <1>7 DEF plan

LEMMA PlanIs ==
    /\ Plan \in Seq(AnyCell)
    /\ Len(Plan) = Before(MaxLevel) + Size(MaxLevel)
    /\ \A l \in Levels : Holds(Plan, l)
<1> DEFINE one == LevelCells(0) \o LevelCells(1)
<1>1. 0 \in 0..2 /\ 1 \in 1..2 /\ 2 \in 1..2 /\ 0..(1 - 1) = {0} /\ 0..(2 - 1) = 0..1
  OBVIOUS
<1>2. /\ LevelCells(0) \in Seq(AnyCell) /\ Len(LevelCells(0)) = Size(0)
      /\ \A i \in 1..Size(0) : LevelCells(0)[i] = <<0, LevelModules[3][i]>>
  BY <1>1, CellsOfLevel
<1>3. Holds(LevelCells(0), 0)
  <2>1. \A i \in 1..Size(0) : Before(0) + i = i
    BY Sizes
  <2> QED  BY <1>2, <2>1 DEF Holds
<1>4. /\ one \in Seq(AnyCell) /\ Len(one) = Before(1) + Size(1)
      /\ \A j \in 0..1 : Holds(one, j)
  BY <1>1, <1>2, <1>3, LevelAppended, Sizes
<1>5. /\ one \o LevelCells(2) \in Seq(AnyCell)
      /\ Len(one \o LevelCells(2)) = Before(2) + Size(2)
      /\ \A j \in 0..2 : Holds(one \o LevelCells(2), j)
  <2> HIDE DEF one
  <2> QED  BY <1>1, <1>4, LevelAppended, Sizes
<1>6. Before(0) + Size(0) = Size(0)
  BY Sizes, <1>1
<1>7. MaxLevel = 0 \/ MaxLevel = 1 \/ MaxLevel = 2
  BY PilotRunAssumption
<1>8. CASE MaxLevel = 0
  <2>1. Plan = LevelCells(0) /\ Levels = {0}
    BY <1>8 DEF Plan, PilotPlan, Levels
  <2> QED  BY <1>2, <1>3, <1>6, <1>8, <2>1, Zenon
<1>9. CASE MaxLevel = 1
  <2>1. Plan = one /\ Levels = 0..1
    BY <1>9 DEF Plan, PilotPlan, Levels
  <2> HIDE DEF one
  <2> QED  BY <1>4, <1>9, <2>1, Zenon
<1>10. CASE MaxLevel = 2
  <2>1. Plan = one \o LevelCells(2) /\ Levels = 0..2
    BY <1>10 DEF Plan, PilotPlan, Levels
  <2> HIDE DEF one
  <2> QED  BY <1>5, <1>10, <2>1, Zenon
<1> QED  BY <1>7, <1>8, <1>9, <1>10

(* Where a cell stands in the plan. *)
Index(cell) == Before(cell[1]) + Place[cell[2]]

Cells == {cell \in Levels \X AllModules : Place[cell[2]] <= Size(cell[1])}

LEMMA PlaceInLevel ==
    ASSUME NEW max \in 0..2, NEW i \in 1..(Before(max) + Size(max))
    PROVE  \E l \in 0..max : \E k \in 1..Size(l) : i = Before(l) + k
<1>1. CASE i <= 4
  <2>1. 0 \in 0..max /\ i \in 1..Size(0) /\ i = Before(0) + i
    BY <1>1 DEF Before, Size
  <2> QED  BY <2>1
<1>2. CASE i > 4 /\ i <= 10
  <2>1. 1 \in 0..max /\ i - 4 \in 1..Size(1) /\ i = Before(1) + (i - 4)
    BY <1>2 DEF Before, Size
  <2> QED  BY <2>1
<1>3. CASE i > 10
  <2>1. 2 \in 0..max /\ i - 10 \in 1..Size(2) /\ i = Before(2) + (i - 10)
    BY <1>3 DEF Before, Size
  <2> QED  BY <2>1
<1> QED  BY <1>1, <1>2, <1>3 DEF Before, Size

(* The plan lists each of its cells once. *)
LEMMA PlanOnce ==
    /\ Len(Plan) \in Nat /\ DOMAIN Plan = 1..Len(Plan)
    /\ \A i \in 1..Len(Plan) : Plan[i] \in Cells /\ Index(Plan[i]) = i
    /\ \A cell \in Cells : \E i \in 1..Len(Plan) : Plan[i] = cell
<1>1. Len(Plan) \in Nat /\ DOMAIN Plan = 1..Len(Plan)
  BY PlanIs
<1>2. MaxLevel \in 0..2 /\ Levels = 0..MaxLevel
  BY PilotRunAssumption DEF Levels
<1>3. ASSUME NEW l \in Levels, NEW k \in 1..Size(l)
      PROVE  /\ Plan[Before(l) + k] = <<l, LevelModules[3][k]>>
             /\ LevelModules[3][k] \in AllModules /\ Place[LevelModules[3][k]] = k
  <2>1. l \in 0..2 /\ k \in 1..8
    BY <1>2, LevelPrefixes
  <2> QED  BY <2>1, PlanIs, Places DEF Holds
<1>4. ASSUME NEW i \in 1..Len(Plan) PROVE Plan[i] \in Cells /\ Index(Plan[i]) = i
  <2>0. PICK l \in Levels : \E k \in 1..Size(l) : i = Before(l) + k
    BY <1>2, PlanIs, PlaceInLevel
  <2>1. PICK k \in 1..Size(l) : i = Before(l) + k
    BY <2>0
  <2>2. Plan[i] = <<l, LevelModules[3][k]>>
    BY <1>3, <2>1
  <2>3. k <= Size(l)
    BY <1>2, LevelPrefixes
  <2> QED  BY <1>3, <2>1, <2>2, <2>3 DEF Cells, Index
<1>5. ASSUME NEW cell \in Cells PROVE \E i \in 1..Len(Plan) : Plan[i] = cell
  <2>1. PICK l \in Levels, m \in AllModules : cell = <<l, m>> /\ Place[m] <= Size(l)
    BY DEF Cells
  <2>2. Place[m] \in 1..8 /\ LevelModules[3][Place[m]] = m
    BY Places
  <2>3. /\ Before(l) \in Nat /\ Size(l) \in Nat
        /\ Before(MaxLevel) \in Nat /\ Size(MaxLevel) \in Nat
        /\ l \in 0..2 /\ l <= MaxLevel
    BY <1>2, Sizes
  <2>4. Place[m] \in 1..Size(l)
    BY <2>1, <2>2, <2>3
  <2>5. Plan[Before(l) + Place[m]] = cell
    BY <1>3, <2>1, <2>2, <2>4
  <2>6. l = MaxLevel \/ Before(l) + Size(l) <= Before(MaxLevel)
    BY <1>2, <2>3, Sizes
  <2>7. Before(l) + Place[m] \in 1..Len(Plan)
    BY <2>3, <2>4, <2>6, PlanIs
  <2> QED  BY <2>5, <2>7
<1> QED  BY <1>1, <1>4, <1>5

(* The cells that ran are as many as the places of the plan they occupy.   *)
LEMMA PlanPrefix ==
    ASSUME NEW n \in 0..Len(Plan), NEW S, S = {Plan[i] : i \in 1..n}
    PROVE  /\ Cardinality(S) = n
           /\ n < Len(Plan) => Plan[n + 1] \notin S
           /\ n = Len(Plan) => S = Cells
<1>1. n \in Nat /\ 1..n \subseteq 1..Len(Plan)
  BY PlanOnce
<1> DEFINE count == [i \in 1..n |-> Plan[i]]
<1>2. count \in Bijection(1..n, S)
  BY <1>1, PlanOnce DEF Bijection, Injection, Surjection, IsInjective
<1>3. Cardinality(S) = n
  <2>1. ExistsBijection(1..n, S)
    BY <1>2 DEF ExistsBijection
  <2> QED  BY <1>1, <2>1, FS_CountingElements
<1>4. ASSUME n < Len(Plan) PROVE Plan[n + 1] \notin S
  <2>1. n + 1 \in 1..Len(Plan) /\ n + 1 \notin 1..n
    BY <1>1, <1>4, PlanOnce
  <2> QED  BY <1>1, <2>1, PlanOnce
<1>5. ASSUME n = Len(Plan) PROVE S = Cells
  BY <1>5, PlanOnce
<1> QED  BY <1>3, <1>4, <1>5

(***************************************************************************)
(* What the checkers return.                                               *)
(***************************************************************************)
LEMMA Concatenated ==
    ASSUME NEW S, NEW s \in Seq(S), NEW r \in Seq(S)
    PROVE  /\ s \o r \in Seq(S) /\ Len(s \o r) = Len(s) + Len(r)
           /\ \A i \in 1..Len(s) : (s \o r)[i] = s[i]
           /\ \A i \in 1..Len(r) : (s \o r)[Len(s) + i] = r[i]
  OBVIOUS

LEMMA AppendedToThree ==
    ASSUME NEW a, NEW b, NEW c, NEW x
    PROVE  /\ <<a, b, c>> \o <<>> = <<a, b, c>>
           /\ <<a, b, c>> \o <<x>> = <<a, b, c, x>>
<1> DEFINE S == {a, b, c, x}
           s == <<a, b, c>>
           none == <<>>
           one == <<x>>
           left == s \o none
           right == s \o one
<1>1. s \in Seq(S) /\ none \in Seq(S) /\ one \in Seq(S)
  OBVIOUS
<1>2. Len(s) = 3 /\ Len(none) = 0 /\ Len(one) = 1 /\ s[1] = a /\ s[2] = b /\ s[3] = c /\ one[1] = x
  OBVIOUS
<1>3. left \in Seq(S) /\ Len(left) = Len(s) + Len(none) /\ \A i \in 1..Len(s) : left[i] = s[i]
  <2> HIDE DEF S, s, none
  <2> QED  BY ONLY <1>1
<1>4. /\ right \in Seq(S) /\ Len(right) = Len(s) + Len(one)
      /\ \A i \in 1..Len(s) : right[i] = s[i]
      /\ \A i \in 1..Len(one) : right[Len(s) + i] = one[i]
  <2> HIDE DEF S, s, one
  <2> QED  BY ONLY <1>1
<1>5. left = <<a, b, c>>
  <2> HIDE DEF S, s, none, left
  <2> QED  BY <1>2, <1>3
<1>6. right = <<a, b, c, x>>
  <2> HIDE DEF S, s, one, right
  <2> QED  BY <1>2, <1>4
<1> QED  BY <1>5, <1>6

LEMMA AppendedToFour ==
    ASSUME NEW a, NEW b, NEW c, NEW d, NEW x
    PROVE  /\ <<a, b, c, d>> \o <<>> = <<a, b, c, d>>
           /\ <<a, b, c, d>> \o <<x>> = <<a, b, c, d, x>>
<1> DEFINE S == {a, b, c, d, x}
           s == <<a, b, c, d>>
           none == <<>>
           one == <<x>>
           left == s \o none
           right == s \o one
<1>1. s \in Seq(S) /\ none \in Seq(S) /\ one \in Seq(S)
  OBVIOUS
<1>2. /\ Len(s) = 4 /\ Len(none) = 0 /\ Len(one) = 1
      /\ s[1] = a /\ s[2] = b /\ s[3] = c /\ s[4] = d /\ one[1] = x
  OBVIOUS
<1>3. left \in Seq(S) /\ Len(left) = Len(s) + Len(none) /\ \A i \in 1..Len(s) : left[i] = s[i]
  <2> HIDE DEF S, s, none
  <2> QED  BY ONLY <1>1
<1>4. /\ right \in Seq(S) /\ Len(right) = Len(s) + Len(one)
      /\ \A i \in 1..Len(s) : right[i] = s[i]
      /\ \A i \in 1..Len(one) : right[Len(s) + i] = one[i]
  <2> HIDE DEF S, s, one
  <2> QED  BY ONLY <1>1
<1>5. left = <<a, b, c, d>>
  <2> HIDE DEF S, s, none, left
  <2> QED  BY <1>2, <1>3
<1>6. right = <<a, b, c, d, x>>
  <2> HIDE DEF S, s, one, right
  <2> QED  BY <1>2, <1>4
<1> QED  BY <1>5, <1>6

(* A checker that appends to what it has found returns a literal list.     *)
LEMMA EnvIs ==
    ASSUME NEW r, NEW t
    PROVE  LET a == Verdict("TR-ENV-001", r.eat_profile = "trace-v0.2")
               b == Verdict("TR-ENV-002",
                            r.iat >= IatMin /\ r.iat <= t + Skew /\ t - r.iat <= MaxAge)
               c == Verdict("TR-ENV-003", r.subject = "uri")
               d == Verdict("TR-ENV-004", r.jwk \notin {"absent", "no kty"})
               x == Verdict("TR-ENV-005", r.private = "none")
           IN  EnvFindings(r, t) = IF r.jwk = "absent" THEN <<a, b, c, d>> ELSE <<a, b, c, d, x>>
<1> DEFINE a == Verdict("TR-ENV-001", r.eat_profile = "trace-v0.2")
           b == Verdict("TR-ENV-002", r.iat >= IatMin /\ r.iat <= t + Skew /\ t - r.iat <= MaxAge)
           c == Verdict("TR-ENV-003", r.subject = "uri")
           d == Verdict("TR-ENV-004", r.jwk \notin {"absent", "no kty"})
           x == Verdict("TR-ENV-005", r.private = "none")
<1>1. <<a, b, c, d>> \o <<>> = <<a, b, c, d>> /\ <<a, b, c, d>> \o <<x>> = <<a, b, c, d, x>>
  <2> HIDE DEF a, b, c, d, x
  <2> QED  BY AppendedToFour
<1>2. EnvFindings(r, t) = IF r.jwk = "absent" THEN <<a, b, c, d>> \o <<>>
                                              ELSE <<a, b, c, d>> \o <<x>>
  BY Zenon DEF EnvFindings
<1> QED  BY <1>1, <1>2, Zenon

LEMMA RteIs ==
    ASSUME NEW r, NEW level, NEW opts
    PROVE  LET a == Verdict("TR-RTE-001", \/ r.platform = "tee"
                                          \/ (r.platform = "software-only" /\ level = 0))
               b == Verdict("TR-RTE-002", r.measurement # "malformed")
               c == IF r.rim_uri = "absent" THEN Skips("TR-RTE-003")
                    ELSE Verdict("TR-RTE-003", r.rim_uri = "https")
               x == Verdict("TR-RTE-004", /\ "absent" \notin {opts.nonce, r.nonce}
                                          /\ r.nonce = opts.nonce)
           IN  RteFindings(r, level, opts)
                 = IF r.runtime # "object" THEN <<Fails("TR-RTE-001", "other")>>
                   ELSE IF level < 1 THEN <<a, b, c>> ELSE <<a, b, c, x>>
<1> DEFINE a == Verdict("TR-RTE-001", \/ r.platform = "tee"
                                      \/ (r.platform = "software-only" /\ level = 0))
           b == Verdict("TR-RTE-002", r.measurement # "malformed")
           c == IF r.rim_uri = "absent" THEN Skips("TR-RTE-003")
                ELSE Verdict("TR-RTE-003", r.rim_uri = "https")
           x == Verdict("TR-RTE-004", /\ "absent" \notin {opts.nonce, r.nonce}
                                      /\ r.nonce = opts.nonce)
<1>1. <<a, b, c>> \o <<>> = <<a, b, c>> /\ <<a, b, c>> \o <<x>> = <<a, b, c, x>>
  <2> HIDE DEF a, b, c, x
  <2> QED  BY AppendedToThree
<1>2. RteFindings(r, level, opts)
        = IF r.runtime # "object" THEN <<Fails("TR-RTE-001", "other")>>
          ELSE <<a, b, c>> \o (IF level < 1 THEN <<>> ELSE <<x>>)
  BY Zenon DEF RteFindings
<1> QED  BY <1>1, <1>2, Zenon

(* A checker's findings are findings, and there are at most five. *)
Reported(findings) == findings \in Seq(Finding) /\ Len(findings) <= 5

LEMMA ListReported ==
    ASSUME NEW a \in Finding, NEW b \in Finding, NEW c \in Finding, NEW d \in Finding,
           NEW x \in Finding
    PROVE  /\ Reported(<<a>>) /\ Reported(<<a, b>>) /\ Reported(<<a, b, c>>)
           /\ Reported(<<a, b, c, d>>) /\ Reported(<<a, b, c, d, x>>)
<1> HIDE DEF Finding
<1> QED  BY DEF Reported

LEMMA SaidIsFinding ==
    ASSUME NEW code \in PilotCodes
    PROVE  /\ Says(code, "pass", "other") \in Finding /\ Says(code, "skip", "other") \in Finding
           /\ Says(code, "unverified", "other") \in Finding
           /\ \A text \in PilotTexts : Says(code, "fail", text) \in Finding
  BY PilotRunTables DEF Says, Finding, Status, PilotTexts

(* An outcome written as a verdict, a skip or a failure is a finding. *)
LEMMA VerdictIsFinding ==
    ASSUME NEW code \in PilotCodes, NEW holds
    PROVE  /\ Verdict(code, holds) \in Finding /\ Skips(code) \in Finding
           /\ Unverified(code) \in Finding /\ Fails(code, "other") \in Finding
  BY SaidIsFinding DEF Verdict, Skips, Fails, Unverified, PilotTexts

LEMMA EnvReported == ASSUME NEW r, NEW t PROVE Reported(EnvFindings(r, t))
<1> DEFINE a == Verdict("TR-ENV-001", r.eat_profile = "trace-v0.2")
           b == Verdict("TR-ENV-002", r.iat >= IatMin /\ r.iat <= t + Skew /\ t - r.iat <= MaxAge)
           c == Verdict("TR-ENV-003", r.subject = "uri")
           d == Verdict("TR-ENV-004", r.jwk \notin {"absent", "no kty"})
           x == Verdict("TR-ENV-005", r.private = "none")
<1>1. {"TR-ENV-001", "TR-ENV-002", "TR-ENV-003", "TR-ENV-004", "TR-ENV-005"} \subseteq PilotCodes
  BY DEF PilotCodes
<1>2. a \in Finding /\ b \in Finding /\ c \in Finding /\ d \in Finding /\ x \in Finding
  BY <1>1, VerdictIsFinding
<1>3. EnvFindings(r, t) = IF r.jwk = "absent" THEN <<a, b, c, d>> ELSE <<a, b, c, d, x>>
  BY EnvIs, Zenon
<1> QED
  <2> HIDE DEF a, b, c, d, x
  <2> QED  BY <1>2, <1>3, ListReported

LEMMA SigReported == ASSUME NEW r, NEW level PROVE Reported(SigFindings(r, level))
<1> DEFINE key == Verdict("TR-SIG-004", r.jwk \in {"Ed25519", "OKP without x", "other curve"})
           sig == Verdict("TR-SIG-005", r.jwk = "Ed25519" /\ r.canonical /\ r.signature = "valid")
           cmcp == Verdict("TR-SIG-001", r.canonical /\ r.signature = "valid")
<1>1. {"TR-SIG-001", "TR-SIG-002", "TR-SIG-004", "TR-SIG-005"} \subseteq PilotCodes
  BY DEF PilotCodes
<1>2. /\ key \in Finding /\ sig \in Finding /\ cmcp \in Finding
      /\ Fails("TR-SIG-001", "other") \in Finding /\ Fails("TR-SIG-002", "other") \in Finding
      /\ Fails("TR-SIG-004", "other") \in Finding /\ Fails("TR-SIG-005", "other") \in Finding
      /\ Unverified("TR-SIG-005") \in Finding
  BY <1>1, VerdictIsFinding
<1>3. SigFindings(r, level) \in
        {<<Fails("TR-SIG-001", "other")>>, <<Fails("TR-SIG-002", "other")>>, <<cmcp>>,
         <<Fails("TR-SIG-004", "other"), Unverified("TR-SIG-005")>>, <<key, sig>>,
         <<key, Fails("TR-SIG-005", "other")>>, <<key, Unverified("TR-SIG-005")>>}
  <2> HIDE DEF Finding
  <2> QED  BY DEF SigFindings, CmcpSigFindings
<1> QED
  <2> HIDE DEF key, sig, cmcp
  <2> QED  BY <1>2, <1>3, ListReported

(* The branches are those of the registry. *)
LEMMA PolBranchIs ==
    ASSUME NEW r, NEW opts, NEW answer \in Answers
    PROVE  PolBranch(r, opts, answer) \in DOMAIN PolBranches
  BY DEF PolBranch, PolBranches, Answers

LEMMA ResolutionIs ==
    ASSUME NEW branch \in DOMAIN PolBranches \ {"policy_missing", "policy_not_object"}
    PROVE  /\ ResolutionFinding(branch).code = "TR-POL-003"
           /\ ResolutionFinding(branch).status \in PolBranches[branch].statuses
           /\ ResolutionFinding(branch).text = "other"
           /\ ResolutionFinding(branch) \in Finding
<1>1. /\ ResolutionFinding(branch).code = "TR-POL-003"
      /\ ResolutionFinding(branch).text = "other"
  BY DEF ResolutionFinding, Says
<1>2. PolBranches[branch].statuses = {ResolutionFinding(branch).status}
  BY DEF PolBranches, ResolutionFinding, Says, Reports, Bare, Blocked
<1>3. ResolutionFinding(branch).status \in Status
  BY DEF PolBranches, ResolutionFinding, Says, Status
<1>4. "TR-POL-003" \in Codes /\ "other" \in Texts
  BY PilotRunTables DEF PilotCodes, PilotTexts
<1>5. ResolutionFinding(branch) \in Finding
  BY <1>1, <1>3, <1>4 DEF ResolutionFinding, Says, Finding
<1> QED  BY <1>1, <1>2, <1>5

LEMMA PolReported ==
    ASSUME NEW r, NEW branch \in DOMAIN PolBranches
    PROVE  Reported(PolFindings(r, branch))
<1> DEFINE bundle == IF r.bundle_hash = "digest" THEN Verdict("TR-POL-001", TRUE)
                     ELSE Fails("TR-POL-001", "bundle_hash must match")
           mode == Verdict("TR-POL-002", r.enforcement_mode = "valid")
<1>1. {"TR-POL-001", "TR-POL-002", "TR-POL-003"} \subseteq PilotCodes
  BY DEF PilotCodes
<1>2. /\ Fails("TR-POL-001", "policy field is missing") \in Finding
      /\ bundle \in Finding /\ mode \in Finding
  BY <1>1, VerdictIsFinding, SaidIsFinding DEF Fails, PilotTexts
<1>3. CASE branch \in {"policy_missing", "policy_not_object"}
  BY <1>2, <1>3, ListReported DEF PolFindings
<1>4. CASE branch \notin {"policy_missing", "policy_not_object"}
  <2>1. ResolutionFinding(branch) \in Finding
    BY <1>4, ResolutionIs
  <2>2. PolFindings(r, branch) = <<bundle, mode, ResolutionFinding(branch)>>
    BY <1>4 DEF PolFindings
  <2> QED
    <3> HIDE DEF bundle, mode
    <3> QED  BY <1>2, <2>1, <2>2, ListReported
<1> QED  BY <1>3, <1>4

LEMMA AprReported ==
    ASSUME NEW r, NEW level, NEW t
    PROVE  Reported(AprFindings(r, level, t))
<1> DEFINE status == Verdict("TR-APR-001", r.status # "unknown")
           verifier == Verdict("TR-APR-002", r.verifier = "uri")
           policy == IF r.policy_ref = "absent" THEN Skips("TR-APR-003")
                     ELSE Verdict("TR-APR-003", r.policy_ref = "uri")
           stamp == IF r.timestamp = NoTime THEN Skips("TR-APR-004")
                    ELSE Verdict("TR-APR-004",
                                 r.timestamp # BadTime /\ r.timestamp <= t + Skew)
           affirmed == IF level < 1 THEN Skips("TR-APR-005")
                       ELSE Verdict("TR-APR-005", r.status = "affirming")
<1>1. {"TR-APR-001", "TR-APR-002", "TR-APR-003", "TR-APR-004", "TR-APR-005"} \subseteq PilotCodes
  BY DEF PilotCodes
<1>2. /\ status \in Finding /\ verifier \in Finding /\ policy \in Finding
      /\ stamp \in Finding /\ affirmed \in Finding /\ Fails("TR-APR-001", "other") \in Finding
  BY <1>1, VerdictIsFinding
<1>3. AprFindings(r, level, t) \in
        {<<Fails("TR-APR-001", "other")>>, <<status, verifier, policy, stamp, affirmed>>}
  BY Zenon DEF AprFindings
<1> QED
  <2> DEFINE alone == Fails("TR-APR-001", "other")
  <2> HIDE DEF status, verifier, policy, stamp, affirmed, alone
  <2>1. Reported(<<alone>>)
    BY <1>2, ListReported DEF alone
  <2>2. Reported(<<status, verifier, policy, stamp, affirmed>>)
    BY <1>2, ListReported
  <2> QED  BY <1>3, <2>1, <2>2 DEF alone

LEMMA RteReported ==
    ASSUME NEW r, NEW level, NEW opts
    PROVE  Reported(RteFindings(r, level, opts))
<1> DEFINE a == Verdict("TR-RTE-001", \/ r.platform = "tee"
                                      \/ (r.platform = "software-only" /\ level = 0))
           b == Verdict("TR-RTE-002", r.measurement # "malformed")
           c == IF r.rim_uri = "absent" THEN Skips("TR-RTE-003")
                ELSE Verdict("TR-RTE-003", r.rim_uri = "https")
           x == Verdict("TR-RTE-004", /\ "absent" \notin {opts.nonce, r.nonce}
                                      /\ r.nonce = opts.nonce)
<1>1. {"TR-RTE-001", "TR-RTE-002", "TR-RTE-003", "TR-RTE-004"} \subseteq PilotCodes
  BY DEF PilotCodes
<1>2. /\ a \in Finding /\ b \in Finding /\ c \in Finding /\ x \in Finding
      /\ Fails("TR-RTE-001", "other") \in Finding
  BY <1>1, VerdictIsFinding
<1>3. RteFindings(r, level, opts)
        = IF r.runtime # "object" THEN <<Fails("TR-RTE-001", "other")>>
          ELSE IF level < 1 THEN <<a, b, c>> ELSE <<a, b, c, x>>
  BY RteIs, Zenon
<1> QED
  <2> HIDE DEF a, b, c, x
  <2> QED  BY <1>2, <1>3, ListReported

LEMMA ScaBranchIs ==
    ASSUME NEW r \in Record
    PROVE  ScaBranch(r) \in DOMAIN ScaBranches \ {"level0_scheduler_nonexecution"}
<1>1. r.build_provenance \in {"missing", "not object", "object"}
  BY DEF Record
<1> QED  BY <1>1 DEF ScaBranch, ScaBranches

LEMMA AprBranchIs ==
    ASSUME NEW r \in Record
    PROVE  AprBranch(r) \in DOMAIN AprBranches
<1>1. r.appraisal \in {"missing", "not object", "object"}
  BY DEF Record
<1> QED  BY <1>1 DEF AprBranch, AprBranches

LEMMA ScaReported ==
    ASSUME NEW r, NEW branch \in DOMAIN ScaBranches \ {"level0_scheduler_nonexecution"}
    PROVE  Reported(ScaFindings(r, branch))
<1> DEFINE slsa == Verdict("TR-SCA-001", r.slsa_level = "valid")
           digest == Verdict("TR-SCA-002", branch = "digest_valid")
<1>1. {"TR-SCA-001", "TR-SCA-002"} \subseteq PilotCodes
  BY DEF PilotCodes
<1>2. /\ slsa \in Finding /\ digest \in Finding
      /\ Fails("TR-SCA-001", "build_provenance is required") \in Finding
      /\ Fails("TR-SCA-001", "build_provenance must be an object") \in Finding
  BY <1>1, VerdictIsFinding, SaidIsFinding DEF Fails, PilotTexts
<1>3. ScaFindings(r, branch) \in
        {<<Fails("TR-SCA-001", "build_provenance is required")>>,
         <<Fails("TR-SCA-001", "build_provenance must be an object")>>, <<slsa, digest>>}
  <2>1. branch \in {"build_provenance_missing", "build_provenance_not_object",
                    "digest_valid", "digest_invalid"}
    BY DEF ScaBranches
  <2> QED  BY <2>1 DEF ScaFindings
<1> QED
  <2> HIDE DEF slsa, digest
  <2> QED  BY <1>2, <1>3, ListReported

LEMMA TxnReported == ASSUME NEW r PROVE Reported(TxnFindings(r))
<1> DEFINE hash == Verdict("TR-TXN-001", r.hash = "digest")
           count == IF r.call_count = "absent" THEN Skips("TR-TXN-002")
                    ELSE Verdict("TR-TXN-002", r.call_count = "natural")
<1>1. {"TR-TXN-001", "TR-TXN-002"} \subseteq PilotCodes
  BY DEF PilotCodes
<1>2. hash \in Finding /\ count \in Finding /\ Fails("TR-TXN-001", "other") \in Finding
  BY <1>1, VerdictIsFinding
<1>3. TxnFindings(r) \in {<<Fails("TR-TXN-001", "other")>>, <<hash, count>>}
  BY DEF TxnFindings
<1> QED
  <2> HIDE DEF hash, count
  <2> QED  BY <1>2, <1>3, ListReported

LEMMA AncReported == ASSUME NEW r, NEW opts PROVE Reported(AncFindings(r, opts))
<1> DEFINE uri == Verdict("TR-ANC-001", TRUE)
           proof == Verdict("TR-ANC-002", opts.receipt = "proves")
<1>1. {"TR-ANC-001", "TR-ANC-002"} \subseteq PilotCodes
  BY DEF PilotCodes
<1>2. uri \in Finding /\ proof \in Finding /\ Fails("TR-ANC-001", "other") \in Finding
  BY <1>1, VerdictIsFinding
<1>3. AncFindings(r, opts) \in {<<Fails("TR-ANC-001", "other")>>, <<uri, proof>>}
  BY DEF AncFindings
<1> QED
  <2> HIDE DEF uri, proof
  <2> QED  BY <1>2, <1>3, ListReported

LEMMA FindingsReported ==
    ASSUME NEW module \in AllModules, NEW r \in Record, NEW opts, NEW level, NEW t,
           NEW answer \in Answers
    PROVE  Reported(FindingsOf(module, r, opts, level, t, answer))
<1> HIDE DEF Reported
<1> QED
  BY EnvReported, SigReported, PolReported, PolBranchIs, AprReported, RteReported, ScaReported,
     ScaBranchIs, TxnReported, AncReported DEF FindingsOf, AllModules

(***************************************************************************)
(* The registry and the checkers agree: whatever branch a checker that     *)
(* owns an obligation takes, what it returns is what the branch declares.  *)
(***************************************************************************)
LEMMA RuleIs ==
    /\ \A b \in DOMAIN AprBranches : /\ <<"TR-APR", b>> \in DOMAIN PilotRule
                                     /\ PilotRule[<<"TR-APR", b>>] = AprBranches[b]
    /\ \A b \in DOMAIN PolBranches : /\ <<"TR-POL", b>> \in DOMAIN PilotRule
                                     /\ PilotRule[<<"TR-POL", b>>] = PolBranches[b]
    /\ \A b \in DOMAIN ScaBranches : /\ <<"TR-SCA", b>> \in DOMAIN PilotRule
                                     /\ PilotRule[<<"TR-SCA", b>>] = ScaBranches[b]
<1>1. DOMAIN PilotRule = ({"TR-APR"} \X DOMAIN AprBranches) \cup ({"TR-POL"} \X DOMAIN PolBranches)
                           \cup ({"TR-SCA"} \X DOMAIN ScaBranches)
  BY DEF PilotRule
<1>2. \A b \in DOMAIN PilotRule :
        PilotRule[b] = CASE b[1] = "TR-APR" -> AprBranches[b[2]]
                         [] b[1] = "TR-POL" -> PolBranches[b[2]]
                         [] b[1] = "TR-SCA" -> ScaBranches[b[2]]
  BY DEF PilotRule
<1> QED  BY <1>1, <1>2

Declared(rule, key, level, findings) ==
    /\ rule.role \in Roles \ {"scheduler_nonexecution"}
    /\ \/ /\ rule.finding = {} /\ rule.blocker # {}
          /\ Positions(findings, key) = {}
       \/ /\ rule.finding = {key}
          /\ \E p \in DOMAIN findings :
               Positions(findings, key) = {p} /\ findings[p].status \in rule.statuses
    /\ IF rule.role = "prerequisite" THEN BlockedBy(rule, findings, StartPolicy, level)
       ELSE rule.blocker = {} /\ rule.blockerStatuses = {} /\ rule.blockerTexts = {}

(* What a rule says that requires its own finding, or another's. *)
LEMMA ReportsIs ==
    ASSUME NEW role, NEW code, NEW status
    PROVE  LET rule == Reports(role, code, status) IN
           /\ rule.role = role /\ rule.finding = {code} /\ rule.statuses = {status}
           /\ rule.blocker = {} /\ rule.blockerStatuses = {} /\ rule.blockerTexts = {}
  BY DEF Reports, Bare

LEMMA BlockedIs ==
    ASSUME NEW code, NEW text
    PROVE  LET rule == Blocked(code, text) IN
           /\ rule.role = "prerequisite" /\ rule.finding = {} /\ rule.statuses = {}
           /\ rule.blocker = {code} /\ rule.blockerStatuses = {"fail"}
           /\ rule.blockerTexts = {text}
  BY DEF Blocked, Bare

(* The rule speaks of its own finding only. *)
LEMMA ReportDeclared ==
    ASSUME NEW role \in Roles \ {"scheduler_nonexecution", "prerequisite"}, NEW key, NEW status,
           NEW level, NEW findings, NEW p \in DOMAIN findings,
           \A q \in DOMAIN findings : findings[q].code = key <=> q = p,
           findings[p].status = status
    PROVE  Declared(Reports(role, key, status), key, level, findings)
<1>1. Positions(findings, key) = {p}
  BY DEF Positions
<1> QED  BY <1>1, ReportsIs DEF Declared

(* The rule speaks of a failure under another code. *)
LEMMA BlockedDeclared ==
    ASSUME NEW code, NEW text, NEW key, NEW level, NEW findings, NEW p \in DOMAIN findings,
           \A q \in DOMAIN findings : findings[q].code = code <=> q = p,
           \A q \in DOMAIN findings : findings[q].code # key,
           findings[p].status = "fail", findings[p].text = text
    PROVE  Declared(Blocked(code, text), key, level, findings)
<1> DEFINE rule == Blocked(code, text)
<1>1. Positions(findings, code) = {p} /\ Positions(findings, key) = {}
  BY DEF Positions
<1>2. CountsAsLevelFailure(StartPolicy, findings[p], level)
  BY DEF CountsAsLevelFailure
<1>3. BlockedBy(rule, findings, StartPolicy, level)
  BY <1>1, <1>2, BlockedIs DEF BlockedBy, OnlyOne
<1>4. "prerequisite" \in Roles \ {"scheduler_nonexecution"} /\ rule.blocker # {}
  BY BlockedIs DEF Roles
<1> QED
  <2> HIDE DEF rule
  <2>1. rule.role = "prerequisite" /\ rule.finding = {}
    BY BlockedIs DEF rule
  <2> QED  BY <1>1, <1>3, <1>4, <2>1 DEF Declared, rule

LEMMA AprDeclared ==
    ASSUME NEW r \in Record, NEW level, NEW t
    PROVE  Declared(PilotRule[<<"TR-APR", AprBranch(r)>>], "TR-APR-001", level,
                    AprFindings(r, level, t))
<1> DEFINE b == AprBranch(r)
           found == AprFindings(r, level, t)
           status == IF b = "status_valid" THEN "pass" ELSE "fail"
<1>1. r.appraisal \in {"missing", "not object", "object"}
  BY DEF Record
<1>2. b \in DOMAIN AprBranches /\ PilotRule[<<"TR-APR", b>>] = AprBranches[b]
  BY AprBranchIs, RuleIs
<1>3. AprBranches[b] = Reports("target_completed", "TR-APR-001", status)
  BY <1>2 DEF AprBranches
<1>4. /\ 1 \in DOMAIN found /\ found[1].status = status
      /\ \A q \in DOMAIN found : found[q].code = "TR-APR-001" <=> q = 1
  <2>1. CASE r.appraisal # "object"
    <3>1. found = <<Fails("TR-APR-001", "other")>> /\ status = "fail"
      BY <1>1, <2>1 DEF AprFindings, AprBranch
    <3> QED  BY <3>1 DEF Fails, Says
  <2>2. CASE r.appraisal = "object"
    <3>1. status = IF r.status # "unknown" THEN "pass" ELSE "fail"
      BY <2>2 DEF AprBranch
    <3> HIDE DEF status
    <3> QED  BY <2>2, <3>1 DEF AprFindings, Verdict, Skips, Says
  <2> QED  BY <2>1, <2>2
<1>5. "target_completed" \in Roles \ {"scheduler_nonexecution", "prerequisite"}
  BY DEF Roles
<1> QED
  <2> HIDE DEF b, found, status
  <2>1. Declared(Reports("target_completed", "TR-APR-001", status), "TR-APR-001", level, found)
    BY <1>4, <1>5, ReportDeclared
  <2> QED  BY <1>2, <1>3, <2>1 DEF b, found

LEMMA AloneInList == ASSUME NEW x PROVE DOMAIN <<x>> = {1} /\ <<x>>[1] = x
  OBVIOUS

LEMMA ScaDeclared ==
    ASSUME NEW r \in Record, NEW level
    PROVE  Declared(PilotRule[<<"TR-SCA", ScaBranch(r)>>], "TR-SCA-002", level,
                    ScaFindings(r, ScaBranch(r)))
<1> DEFINE b == ScaBranch(r)
           found == ScaFindings(r, b)
<1>1. PilotRule[<<"TR-SCA", b>>] = ScaBranches[b]
  BY ScaBranchIs, RuleIs
<1>2. b \in {"build_provenance_missing", "build_provenance_not_object", "digest_valid",
             "digest_invalid"}
  BY ScaBranchIs DEF ScaBranches
<1> SUFFICES Declared(ScaBranches[b], "TR-SCA-002", level, found)
  BY <1>1
<1> HIDE DEF b
<1>3. CASE b \in {"build_provenance_missing", "build_provenance_not_object"}
  <2> DEFINE text == IF b = "build_provenance_missing" THEN "build_provenance is required"
                     ELSE "build_provenance must be an object"
             refusal == Fails("TR-SCA-001", text)
  <2>1. ScaBranches[b] = Blocked("TR-SCA-001", text) /\ found = <<refusal>>
    BY <1>3 DEF ScaBranches, ScaFindings
  <2>2. refusal.code = "TR-SCA-001" /\ refusal.status = "fail" /\ refusal.text = text
    BY DEF Fails, Says
  <2> HIDE DEF found, text, refusal
  <2>3. DOMAIN found = {1} /\ found[1] = refusal
    BY <2>1, AloneInList
  <2>4. /\ \A q \in DOMAIN found : found[q].code = "TR-SCA-001" <=> q = 1
        /\ \A q \in DOMAIN found : found[q].code # "TR-SCA-002"
    BY <2>2, <2>3
  <2> QED  BY <2>1, <2>2, <2>3, <2>4, BlockedDeclared
<1>6. CASE b \in {"digest_valid", "digest_invalid"}
  <2> DEFINE status == IF b = "digest_valid" THEN "pass" ELSE "fail"
  <2>1. ScaBranches[b] = Reports("target_completed", "TR-SCA-002", status)
    BY <1>6 DEF ScaBranches
  <2>2. found = <<Verdict("TR-SCA-001", r.slsa_level = "valid"),
                  Verdict("TR-SCA-002", b = "digest_valid")>>
    BY <1>6 DEF ScaFindings
  <2>3. /\ 2 \in DOMAIN found /\ found[2].status = status
        /\ \A q \in DOMAIN found : found[q].code = "TR-SCA-002" <=> q = 2
    BY <2>2 DEF Verdict, Says
  <2>4. "target_completed" \in Roles \ {"scheduler_nonexecution", "prerequisite"}
    BY DEF Roles
  <2>5. Declared(Reports("target_completed", "TR-SCA-002", status), "TR-SCA-002", level, found)
    <3> HIDE DEF found, status
    <3> QED  BY <2>3, <2>4, ReportDeclared
  <2> QED  BY <2>1, <2>5
<1> QED  BY <1>2, <1>3, <1>6

LEMMA PolDeclared ==
    ASSUME NEW r \in Record, NEW opts, NEW level, NEW answer \in Answers
    PROVE  Declared(PilotRule[<<"TR-POL", PolBranch(r, opts, answer)>>], "TR-POL-003", level,
                    PolFindings(r, PolBranch(r, opts, answer)))
<1> DEFINE b == PolBranch(r, opts, answer)
           found == PolFindings(r, b)
<1>1. b \in DOMAIN PolBranches /\ PilotRule[<<"TR-POL", b>>] = PolBranches[b]
  BY PolBranchIs, RuleIs
<1>2. b = "bundle_hash_malformed" => r.bundle_hash = "malformed"
  BY DEF PolBranch, Answers
<1> SUFFICES Declared(PolBranches[b], "TR-POL-003", level, found)
  BY <1>1
<1> HIDE DEF b
<1>3. CASE b \in {"policy_missing", "policy_not_object"}
  <2> DEFINE missing == Fails("TR-POL-001", "policy field is missing")
  <2>1. found = <<missing>>
    BY <1>3 DEF PolFindings
  <2>a. /\ missing.code = "TR-POL-001" /\ missing.status = "fail"
        /\ missing.text = "policy field is missing"
    BY DEF Fails, Says
  <2> HIDE DEF found, missing
  <2>b. DOMAIN found = {1} /\ found[1] = missing
    BY <2>1, AloneInList
  <2>2. /\ \A q \in DOMAIN found : found[q].code = "TR-POL-001" <=> q = 1
        /\ \A q \in DOMAIN found : found[q].code # "TR-POL-003"
    BY <2>a, <2>b
  <2>3. PolBranches[b] = Blocked("TR-POL-001", "policy field is missing")
    BY <1>3 DEF PolBranches
  <2> QED  BY <2>a, <2>b, <2>2, <2>3, BlockedDeclared
<1>4. CASE b \notin {"policy_missing", "policy_not_object"}
  <2> DEFINE bundle == IF r.bundle_hash = "digest" THEN Verdict("TR-POL-001", TRUE)
                       ELSE Fails("TR-POL-001", "bundle_hash must match")
             mode == Verdict("TR-POL-002", r.enforcement_mode = "valid")
             last == ResolutionFinding(b)
  <2>1. found = <<bundle, mode, last>>
    BY <1>4 DEF PolFindings
  <2>2. bundle.code = "TR-POL-001" /\ mode.code = "TR-POL-002" /\ last.code = "TR-POL-003"
    BY <1>1, <1>4, ResolutionIs DEF Verdict, Fails, Says
  <2>3. last.status \in PolBranches[b].statuses
    BY <1>1, <1>4, ResolutionIs
  <2>4. b = "bundle_hash_malformed" => bundle.status = "fail" /\ bundle.text = "bundle_hash must match"
    BY <1>2 DEF Fails, Says
  <2> HIDE DEF bundle, mode, last
  <2>5. /\ 1 \in DOMAIN found /\ found[1] = bundle /\ 3 \in DOMAIN found /\ found[3] = last
        /\ \A q \in DOMAIN found : found[q].code = "TR-POL-003" <=> q = 3
        /\ \A q \in DOMAIN found : found[q].code = "TR-POL-001" <=> q = 1
    BY <2>1, <2>2
  <2> HIDE DEF found
  <2>6. Positions(found, "TR-POL-003") = {3} /\ Positions(found, "TR-POL-001") = {1}
    BY <2>5 DEF Positions
  <2>7. CASE b = "bundle_hash_malformed"
    <3>1. /\ PolBranches[b].role = "prerequisite" /\ PolBranches[b].finding = {"TR-POL-003"}
          /\ PolBranches[b].blocker = {"TR-POL-001"}
          /\ PolBranches[b].blockerStatuses = {"fail"}
          /\ PolBranches[b].blockerTexts = {"bundle_hash must match"}
      BY <2>7 DEF PolBranches, Blocked, Bare
    <3>2. CountsAsLevelFailure(StartPolicy, found[1], level)
      BY <2>4, <2>5, <2>7 DEF CountsAsLevelFailure
    <3>3. found[1].status = "fail" /\ found[1].text = "bundle_hash must match"
      BY <2>4, <2>5, <2>7
    <3> DEFINE rule == PolBranches[b]
    <3> HIDE DEF rule
    <3>4. OnlyOne(Positions(found, "TR-POL-001"))
      BY <2>6 DEF OnlyOne
    <3>5. /\ rule.role = "prerequisite" /\ rule.finding = {"TR-POL-003"}
          /\ rule.blocker = {"TR-POL-001"} /\ rule.blockerStatuses = {"fail"}
          /\ rule.blockerTexts = {"bundle_hash must match"}
      BY <3>1 DEF rule
    <3>6. BlockedBy(rule, found, StartPolicy, level)
      <4>1. \A p \in Positions(found, "TR-POL-001") :
              /\ found[p].status \in rule.blockerStatuses
              /\ found[p].text \in rule.blockerTexts
              /\ CountsAsLevelFailure(StartPolicy, found[p], level)
        <5> TAKE p \in Positions(found, "TR-POL-001")
        <5>1. p = 1
          BY <2>6
        <5>2. /\ found[p].status = "fail" /\ found[p].text = "bundle_hash must match"
              /\ CountsAsLevelFailure(StartPolicy, found[p], level)
          BY <3>2, <3>3, <5>1
        <5> QED  BY <3>5, <5>2
      <4>2. "TR-POL-001" \in rule.blocker
        BY <3>5
      <4> QED  BY <3>4, <4>1, <4>2, Zenon DEF BlockedBy
    <3>7. found[3].status \in rule.statuses
      BY <2>3, <2>5 DEF rule
    <3>8. Declared(rule, "TR-POL-003", level, found)
      BY <2>5, <2>6, <3>5, <3>6, <3>7 DEF Declared, Roles
    <3> QED  BY <3>8 DEF rule
  <2>8. CASE b # "bundle_hash_malformed"
    <3>1. \E role \in Roles \ {"scheduler_nonexecution", "prerequisite"} : \E status :
            PolBranches[b] = Reports(role, "TR-POL-003", status)
      <4>1. {"not_applicable", "target_completed", "not_attempted", "target_attempted_unresolved"}
              \subseteq Roles \ {"scheduler_nonexecution", "prerequisite"}
        BY DEF Roles
      <4>2. \E role \in {"not_applicable", "target_completed", "not_attempted",
                         "target_attempted_unresolved"} : \E status :
              PolBranches[b] = Reports(role, "TR-POL-003", status)
        BY <1>1, <1>4, <2>8 DEF PolBranches
      <4> QED  BY <4>1, <4>2
    <3>2. PICK role \in Roles \ {"scheduler_nonexecution", "prerequisite"} : \E status :
            PolBranches[b] = Reports(role, "TR-POL-003", status)
      BY <3>1
    <3>3. PICK status : PolBranches[b] = Reports(role, "TR-POL-003", status)
      BY <3>2
    <3>4. found[3].status = status
      BY <2>3, <2>5, <3>3, ReportsIs
    <3> QED  BY <2>5, <3>3, <3>4, ReportDeclared
  <2> QED  BY <2>7, <2>8
<1> QED  BY <1>3, <1>4

(***************************************************************************)
(* From a declared branch to a row: the fact the checker observes is       *)
(* projectable, and its row passes the revalidation.                       *)
(***************************************************************************)
LEMMA KeysAre ==
    /\ \A k \in Keys : /\ Owner[k] \in {"TR-APR", "TR-POL", "TR-SCA"}
                       /\ PilotCode(Owner[k]) = {k}
    /\ \A m \in AllModules \ {"TR-APR", "TR-POL", "TR-SCA"} : PilotCode(m) = {}
<1>1. /\ Owner["TR-APR-001"] = "TR-APR" /\ Owner["TR-POL-003"] = "TR-POL"
      /\ Owner["TR-SCA-002"] = "TR-SCA"
      /\ Keys = {"TR-APR-001", "TR-POL-003", "TR-SCA-002"}
  BY PilotRunTables DEF PilotOwner, PilotKeys
<1> QED  BY <1>1 DEF PilotCode

(* The fact an owner observes on a branch. *)
FactFor(k, level, branch, findings) ==
    LET earned == {findings[p] : p \in Positions(findings, k)} IN
    [branch |-> branch, earned |-> earned,
     counts |-> {CountsAsLevelFailure(StartPolicy, f, level) : f \in earned}]

(* A checker that made one call, and handed over what it returned under    *)
(* its own code.                                                           *)
OneCall(k, branch, findings) ==
    <<[branch |-> branch, earned |-> {findings[p] : p \in Positions(findings, k)}]>>

LEMMA FactsAre ==
    ASSUME NEW k, NEW level, NEW branch, NEW findings
    PROVE  FactsOf(level, OneCall(k, branch, findings)) = <<FactFor(k, level, branch, findings)>>
<1> DEFINE call == [branch |-> branch, earned |-> {findings[p] : p \in Positions(findings, k)}]
           fact == FactFor(k, level, branch, findings)
<1>1. /\ call.branch = branch /\ call.earned = {findings[p] : p \in Positions(findings, k)}
  OBVIOUS
<1>2. [branch |-> call.branch, earned |-> call.earned,
       counts |-> {CountsAsLevelFailure(StartPolicy, f, level) : f \in call.earned}] = fact
  BY <1>1, Zenon DEF FactFor
<1>3. OneCall(k, branch, findings) = <<call>>
  BY Zenon DEF OneCall
<1> HIDE DEF call, fact
<1>4. DOMAIN <<call>> = {1} /\ <<call>>[1] = call
  OBVIOUS
<1>5. FactsOf(level, <<call>>)
        = [i \in DOMAIN <<call>> |->
             [branch |-> <<call>>[i].branch, earned |-> <<call>>[i].earned,
              counts |-> {CountsAsLevelFailure(StartPolicy, f, level) : f \in <<call>>[i].earned}]]
  BY Zenon DEF FactsOf
<1>6. FactsOf(level, <<call>>) = [i \in {1} |-> fact]
  BY <1>2, <1>4, <1>5
<1>7. [i \in {1} |-> fact] = <<fact>>
  OBVIOUS
<1> QED  BY <1>3, <1>6, <1>7 DEF fact

(* Such a checker passes the inspection of what it returned. *)
LEMMA OneCallReturned ==
    ASSUME NEW k \in Keys, NEW branch, NEW findings,
           Positions(findings, k) = {} \/ \E p \in DOMAIN findings : Positions(findings, k) = {p}
    PROVE  ReturnsWhatItObserved(Owner[k], OneCall(k, branch, findings), findings)
<1> DEFINE observed == OneCall(k, branch, findings)
           handed == {findings[p] : p \in Positions(findings, k)}
           earning == {i \in DOMAIN observed : observed[i].earned # {}}
           pilot == {p \in DOMAIN findings : findings[p].code \in PilotCode(Owner[k])}
<1>1. DOMAIN observed = {1} /\ observed[1].earned = handed
  BY DEF OneCall
<1>2. pilot = Positions(findings, k)
  BY KeysAre DEF Positions
<1> HIDE DEF observed, pilot
<1>3. CASE Positions(findings, k) = {}
  <2> DEFINE match == [i \in {} |-> 0]
  <2>1. earning = {}
    BY <1>1, <1>3
  <2>2. match \in InOrder({}, {})
    BY DEF InOrder
  <2> HIDE DEF match, earning
  <2>3. match \in InOrder(earning, pilot)
    BY <1>2, <1>3, <2>1, <2>2
  <2> QED  BY <2>1, <2>3 DEF ReturnsWhatItObserved, observed, earning, pilot
<1>4. ASSUME NEW p \in DOMAIN findings, Positions(findings, k) = {p}
      PROVE  ReturnsWhatItObserved(Owner[k], observed, findings)
  <2> DEFINE match == [i \in {1} |-> p]
  <2>1. handed = {findings[p]} /\ earning = {1} /\ pilot = {p}
    BY <1>1, <1>2, <1>4
  <2>2. match \in InOrder({1}, {p}) /\ match[1] = p
    BY DEF InOrder
  <2>3. findings[p].code = k /\ k \in PilotCode(Owner[k])
    BY <1>4, KeysAre DEF Positions
  <2>4. \A q \in DOMAIN findings : findings[q] = findings[p] => q = p
    BY <1>4, <2>3 DEF Positions
  <2>5. OnlyOne({q \in DOMAIN findings : findings[q] = findings[p]})
    BY <2>4 DEF OnlyOne
  <2> HIDE DEF match, earning, handed
  <2>6. match \in InOrder(earning, pilot) /\ \A i \in earning : findings[match[i]] \in observed[i].earned
    BY <1>1, <2>1, <2>2
  <2>7. \A i \in earning : \A f \in observed[i].earned :
          /\ f.code \in PilotCode(Owner[k])
          /\ OnlyOne({q \in DOMAIN findings : findings[q] = f})
    BY <1>1, <2>1, <2>3, <2>5
  <2> QED  BY <2>6, <2>7, Zenon DEF ReturnsWhatItObserved, earning, pilot
<1> QED  BY <1>3, <1>4 DEF observed

(* What a fact for one finding, or for none, holds. *)
LEMMA FactForOne ==
    ASSUME NEW k, NEW level, NEW branch, NEW findings, NEW p, Positions(findings, k) = {p}
    PROVE  LET fact == FactFor(k, level, branch, findings) IN
           /\ fact.branch = branch /\ fact.earned = {findings[p]}
           /\ fact.counts = {CountsAsLevelFailure(StartPolicy, findings[p], level)}
  BY DEF FactFor

LEMMA FactForNone ==
    ASSUME NEW k, NEW level, NEW branch, NEW findings, Positions(findings, k) = {}
    PROVE  LET fact == FactFor(k, level, branch, findings) IN
           fact.branch = branch /\ fact.earned = {} /\ fact.counts = {}
  BY DEF FactFor

LEMMA CountsIsBoolean ==
    \A policy, f, level : CountsAsLevelFailure(policy, f, level) \in BOOLEAN
  BY DEF CountsAsLevelFailure

LEMMA DeclaredProjects ==
    ASSUME NEW k \in Keys, NEW level, NEW branch, NEW returned, NEW findings,
           returned[<<level, Owner[k]>>] = findings,
           \A p \in DOMAIN findings : findings[p] \in Finding,
           Declared(Rule[<<Owner[k], branch>>], k, level, findings)
    PROVE  ProjectableFact(<<level, Owner[k]>>, FactFor(k, level, branch, findings), returned,
                           StartPolicy)
<1> DEFINE rule == Rule[<<Owner[k], branch>>]
           fact == FactFor(k, level, branch, findings)
<1>1. fact.branch = branch
  BY DEF FactFor
<1>2. rule.finding = {} => fact.earned = {} /\ fact.counts = {}
  BY FactForNone DEF Declared
<1>3. ASSUME rule.finding # {}
      PROVE  \E w \in fact.earned : /\ w.code \in rule.finding /\ w.status \in rule.statuses
                                    /\ \E b \in BOOLEAN : fact.counts = {b}
  <2>1. rule.finding = {k} /\ \E p \in DOMAIN findings :
            Positions(findings, k) = {p} /\ findings[p].status \in rule.statuses
    BY <1>3 DEF Declared
  <2>2. PICK p \in DOMAIN findings :
            Positions(findings, k) = {p} /\ findings[p].status \in rule.statuses
    BY <2>1
  <2>3. findings[p].code = k
    BY <2>2 DEF Positions
  <2>4. /\ fact.earned = {findings[p]}
        /\ fact.counts = {CountsAsLevelFailure(StartPolicy, findings[p], level)}
    BY <2>2, FactForOne
  <2> HIDE DEF rule, fact
  <2> QED  BY <2>1, <2>2, <2>3, <2>4, CountsIsBoolean
<1>4. IF rule.role = "prerequisite" THEN BlockedBy(rule, findings, StartPolicy, level)
      ELSE rule.blocker = {} /\ rule.blockerStatuses = {} /\ rule.blockerTexts = {}
  BY DEF Declared
<1> QED
  <2> HIDE DEF fact
  <2>1. <<level, Owner[k]>>[1] = level /\ <<level, Owner[k]>>[2] = Owner[k]
    OBVIOUS
  <2> QED  BY <1>1, <1>2, <1>3, <1>4, <2>1 DEF ProjectableFact, fact

LEMMA DeclaredMatches ==
    ASSUME NEW k \in Keys, NEW level, NEW branch, NEW results, NEW findings,
           <<level, Owner[k]>> \in DOMAIN results,
           results[<<level, Owner[k]>>] = findings,
           <<Owner[k], branch>> \in DOMAIN Rule,
           \A p \in DOMAIN findings : findings[p] \in Finding,
           Declared(Rule[<<Owner[k], branch>>], k, level, findings)
    PROVE  RowMatchesResults(Row(Owner[k], FactFor(k, level, branch, findings)), level, k,
                             results, StartPolicy)
<1> DEFINE rule == Rule[<<Owner[k], branch>>]
           fact == FactFor(k, level, branch, findings)
           row == Row(Owner[k], fact)
<1>1. fact.branch = branch
  BY DEF FactFor
<1>2. /\ row.branch = branch /\ row.projection = RoleProjection(rule.role)
      /\ row.unscheduled = (rule.role = "scheduler_nonexecution")
      /\ row.blocker = IF rule.role = "prerequisite" THEN rule.blocker ELSE {}
      /\ row.finding = IF rule.finding = {} THEN {}
                       ELSE {[code |-> w.code, status |-> w.status] : w \in fact.earned}
      /\ row.counts = IF rule.finding = {} THEN {} ELSE fact.counts
  <2> HIDE DEF fact
  <2> QED  BY <1>1 DEF Row
<1> HIDE DEF row
<1>3. row.blocker = rule.blocker
  BY <1>2 DEF Declared
<1>4. ASSUME rule.finding = {}
      PROVE  /\ row.finding = {} /\ row.counts = {} /\ row.blocker # {}
             /\ BlockedBy(rule, findings, StartPolicy, level)
  <2>1. rule.blocker # {}
    BY <1>4 DEF Declared
  <2> QED  BY <1>2, <1>3, <1>4, <2>1 DEF Declared
<1>5. ASSUME rule.finding # {}
      PROVE  \E c \in rule.finding :
               /\ OnlyOne(Positions(findings, c))
               /\ \A p \in Positions(findings, c) :
                    /\ row.finding = {[code |-> c, status |-> findings[p].status]}
                    /\ findings[p].status \in rule.statuses
                    /\ row.counts = {CountsAsLevelFailure(StartPolicy, findings[p], level)}
  <2>1. rule.finding = {k} /\ \E p \in DOMAIN findings :
            Positions(findings, k) = {p} /\ findings[p].status \in rule.statuses
    BY <1>5 DEF Declared
  <2>2. PICK p \in DOMAIN findings :
            Positions(findings, k) = {p} /\ findings[p].status \in rule.statuses
    BY <2>1
  <2>3. findings[p].code = k
    BY <2>2 DEF Positions
  <2>4. /\ fact.earned = {findings[p]}
        /\ fact.counts = {CountsAsLevelFailure(StartPolicy, findings[p], level)}
    BY <2>2, FactForOne
  <2> HIDE DEF rule, fact
  <2>5. row.finding = {[code |-> k, status |-> findings[p].status]}
    BY <1>2, <1>5, <2>3, <2>4
  <2>6. OnlyOne(Positions(findings, k))
    BY <2>2 DEF OnlyOne
  <2> QED  BY <1>2, <1>5, <2>1, <2>2, <2>4, <2>5, <2>6
<1> QED
  <2> DEFINE cell == <<level, Owner[k]>>
             found == IF cell \in DOMAIN results THEN results[cell] ELSE <<>>
  <2>1. found = findings
    OBVIOUS
  <2>2. row.branch = branch
    BY <1>2
  <2>3. RowMatchesResults(row, level, k, results, StartPolicy)
          <=> /\ <<Owner[k], row.branch>> \in DOMAIN Rule
              /\ row.projection = RoleProjection(Rule[<<Owner[k], row.branch>>].role)
              /\ row.unscheduled
                   = (Rule[<<Owner[k], row.branch>>].role = "scheduler_nonexecution")
              /\ row.blocker = Rule[<<Owner[k], row.branch>>].blocker
              /\ IF Rule[<<Owner[k], row.branch>>].finding = {}
                   THEN /\ row.finding = {} /\ row.counts = {}
                        /\ IF row.blocker # {}
                             THEN BlockedBy(Rule[<<Owner[k], row.branch>>], found, StartPolicy,
                                            level)
                             ELSE cell \notin DOMAIN results
                   ELSE \E c \in Rule[<<Owner[k], row.branch>>].finding :
                          /\ OnlyOne(Positions(found, c))
                          /\ \A p \in Positions(found, c) :
                               /\ row.finding = {[code |-> c, status |-> found[p].status]}
                               /\ found[p].status \in Rule[<<Owner[k], row.branch>>].statuses
                               /\ row.counts = {CountsAsLevelFailure(StartPolicy, found[p], level)}
    BY DEF RowMatchesResults
  <2> HIDE DEF fact, found, cell
  <2>4. RowMatchesResults(row, level, k, results, StartPolicy)
    BY <1>2, <1>3, <1>4, <1>5, <2>1, <2>2, <2>3
  <2> QED  BY <2>4 DEF row, fact

(* The fact of the level that does not schedule the provenance checker.    *)
IdleFact == [branch |-> "level0_scheduler_nonexecution", earned |-> {}, counts |-> {}]

LEMMA IdleRule ==
    LET rule == Rule[<<"TR-SCA", "level0_scheduler_nonexecution">>] IN
    /\ <<"TR-SCA", "level0_scheduler_nonexecution">> \in DOMAIN Rule
    /\ rule.role = "scheduler_nonexecution" /\ rule.finding = {} /\ rule.blocker = {}
    /\ rule.blockerStatuses = {} /\ rule.blockerTexts = {}
<1>1. "level0_scheduler_nonexecution" \in DOMAIN ScaBranches
  BY DEF ScaBranches
<1>2. ScaBranches["level0_scheduler_nonexecution"] = Bare("scheduler_nonexecution")
  BY DEF ScaBranches
<1> QED  BY <1>1, <1>2, RuleIs, PilotRunTables DEF Bare

LEMMA IdleProjects ==
    ASSUME NEW level, NEW returned
    PROVE  ProjectableFact(<<level, "TR-SCA">>, IdleFact, returned, StartPolicy)
<1>1. IdleFact.branch = "level0_scheduler_nonexecution" /\ IdleFact.earned = {} /\ IdleFact.counts = {}
  BY DEF IdleFact
<1>2. <<level, "TR-SCA">>[1] = level /\ <<level, "TR-SCA">>[2] = "TR-SCA"
  OBVIOUS
<1> QED  BY <1>1, <1>2, IdleRule DEF ProjectableFact

LEMMA IdleMatches ==
    ASSUME NEW k \in Keys, Owner[k] = "TR-SCA", NEW level, NEW results,
           <<level, "TR-SCA">> \notin DOMAIN results
    PROVE  RowMatchesResults(Row("TR-SCA", IdleFact), level, k, results, StartPolicy)
<1> DEFINE row == Row("TR-SCA", IdleFact)
           rule == Rule[<<"TR-SCA", "level0_scheduler_nonexecution">>]
<1>1. IdleFact.branch = "level0_scheduler_nonexecution"
  BY DEF IdleFact
<1>2. /\ row.branch = "level0_scheduler_nonexecution" /\ row.projection = RoleProjection(rule.role)
      /\ row.unscheduled = (rule.role = "scheduler_nonexecution")
      /\ row.blocker = IF rule.role = "prerequisite" THEN rule.blocker ELSE {}
      /\ row.finding = IF rule.finding = {} THEN {}
                       ELSE {[code |-> w.code, status |-> w.status] : w \in IdleFact.earned}
      /\ row.counts = IF rule.finding = {} THEN {} ELSE IdleFact.counts
  BY <1>1 DEF Row
<1>3. /\ <<"TR-SCA", "level0_scheduler_nonexecution">> \in DOMAIN Rule
      /\ rule.role = "scheduler_nonexecution" /\ rule.finding = {} /\ rule.blocker = {}
  BY IdleRule
<1> HIDE DEF row, rule
<1>4. row.blocker = rule.blocker /\ row.finding = {} /\ row.counts = {} /\ row.blocker = {}
  BY <1>2, <1>3
<1>5. rule = Rule[<<Owner[k], row.branch>>]
  BY <1>2 DEF rule
<1>6. <<Owner[k], row.branch>> \in DOMAIN Rule /\ <<level, Owner[k]>> \notin DOMAIN results
  BY <1>2, <1>3
<1>7. RowMatchesResults(row, level, k, results, StartPolicy)
  BY <1>2, <1>3, <1>4, <1>5, <1>6 DEF RowMatchesResults
<1> QED  BY <1>7 DEF row

(***************************************************************************)
(* Every cell that ran holds what its checker returned for the record, the *)
(* options, the clock at some moment of the run and some answer.           *)
(***************************************************************************)
Result(cell, t, answer) ==
    [facts    |-> FactsOf(cell[1], Observed(cell[2], record, options, answer)),
     findings |-> FindingsOf(cell[2], record, options, cell[1], t, answer)]

FromCalls ==
    \A cell \in DOMAIN done :
      \E t \in StartTime..now, answer \in Answers : done[cell] = Result(cell, t, answer)

(* Each owner makes one call, names a declared branch and hands over what  *)
(* it returns under its code: no finding, or the one there is.             *)
LEMMA AprObserves ==
    ASSUME NEW r \in Record, NEW level, NEW t
    PROVE  AprObserved(r) = OneCall("TR-APR-001", AprBranch(r), AprFindings(r, level, t))
<1> DEFINE found == AprFindings(r, level, t)
           status == Verdict("TR-APR-001", r.status # "unknown")
           alone == Fails("TR-APR-001", "other")
<1>1. r.appraisal \in {"missing", "not object", "object"}
  BY DEF Record
<1>2. AprObserved(r) = <<[branch |-> AprBranch(r),
                          earned |-> {Verdict("TR-APR-001", AprBranch(r) = "status_valid")}]>>
  BY DEF AprObserved, Calls
<1>3. CASE r.appraisal = "object"
  <2>1. AprBranch(r) = "status_valid" <=> r.status # "unknown"
    BY <1>3 DEF AprBranch
  <2>2. Verdict("TR-APR-001", AprBranch(r) = "status_valid") = status
    BY <2>1 DEF Verdict
  <2>3. Positions(found, "TR-APR-001") = {1} /\ found[1] = status
    BY <1>3 DEF AprFindings, Positions, Verdict, Skips, Says
  <2> HIDE DEF found, status
  <2>4. {found[p] : p \in Positions(found, "TR-APR-001")} = {status}
    BY <2>3
  <2> QED  BY <1>2, <2>2, <2>4, Zenon DEF OneCall, found
<1>4. CASE r.appraisal # "object"
  <2>1. AprBranch(r) # "status_valid"
    BY <1>1, <1>4 DEF AprBranch
  <2>2. Verdict("TR-APR-001", AprBranch(r) = "status_valid") = alone
    BY <2>1 DEF Verdict, Fails
  <2>3. Positions(found, "TR-APR-001") = {1} /\ found[1] = alone
    BY <1>4 DEF AprFindings, Positions, Fails, Says
  <2> HIDE DEF found, alone
  <2>4. {found[p] : p \in Positions(found, "TR-APR-001")} = {alone}
    BY <2>3
  <2> QED  BY <1>2, <2>2, <2>4, Zenon DEF OneCall, found
<1> QED  BY <1>3, <1>4

LEMMA PolObserves ==
    ASSUME NEW r, NEW b \in DOMAIN PolBranches
    PROVE  PolObserved(b) = OneCall("TR-POL-003", b, PolFindings(r, b))
<1> DEFINE found == PolFindings(r, b)
           last == ResolutionFinding(b)
<1>1. CASE b \in {"policy_missing", "policy_not_object"}
  <2>1. PolObserved(b) = <<[branch |-> b, earned |-> {}]>>
    BY <1>1 DEF PolObserved, Calls
  <2> DEFINE alone == Fails("TR-POL-001", "policy field is missing")
  <2>a. found = <<alone>>
    BY <1>1, Zenon DEF PolFindings
  <2>b. alone.code = "TR-POL-001"
    BY DEF Fails, Says
  <2> HIDE DEF found, alone
  <2>2. Positions(found, "TR-POL-003") = {}
    BY <2>a, <2>b DEF Positions
  <2>3. {found[p] : p \in Positions(found, "TR-POL-003")} = {}
    BY <2>2
  <2> QED  BY <2>1, <2>3, Zenon DEF OneCall, found
<1>2. CASE b \notin {"policy_missing", "policy_not_object"}
  <2>1. PolObserved(b) = <<[branch |-> b, earned |-> {last}]>>
    BY <1>2, Zenon DEF PolObserved, Calls
  <2>2. last.code = "TR-POL-003"
    BY DEF ResolutionFinding, Says
  <2> DEFINE bundle == IF r.bundle_hash = "digest" THEN Verdict("TR-POL-001", TRUE)
                       ELSE Fails("TR-POL-001", "bundle_hash must match")
             mode == Verdict("TR-POL-002", r.enforcement_mode = "valid")
  <2>3. bundle.code = "TR-POL-001" /\ mode.code = "TR-POL-002"
    BY DEF Verdict, Fails, Says
  <2>4. found = <<bundle, mode, last>>
    BY <1>2, Zenon DEF PolFindings
  <2> HIDE DEF found, last, bundle, mode
  <2>5. Positions(found, "TR-POL-003") = {3} /\ found[3] = last
    BY <2>2, <2>3, <2>4 DEF Positions
  <2>6. {found[p] : p \in Positions(found, "TR-POL-003")} = {last}
    BY <2>5
  <2> QED  BY <2>1, <2>6, Zenon DEF OneCall, found
<1> QED  BY <1>1, <1>2

LEMMA ScaObserves ==
    ASSUME NEW r, NEW b \in DOMAIN ScaBranches \ {"level0_scheduler_nonexecution"}
    PROVE  ScaObserved(b) = OneCall("TR-SCA-002", b, ScaFindings(r, b))
<1> DEFINE found == ScaFindings(r, b)
           digest == Verdict("TR-SCA-002", b = "digest_valid")
           slsa == Verdict("TR-SCA-001", r.slsa_level = "valid")
<1>1. b \in {"build_provenance_missing", "build_provenance_not_object", "digest_valid",
             "digest_invalid"}
  BY DEF ScaBranches
<1>2. CASE b \in {"build_provenance_missing", "build_provenance_not_object"}
  <2>1. ScaObserved(b) = <<[branch |-> b, earned |-> {}]>>
    BY <1>2 DEF ScaObserved, Calls
  <2>a. \E text : found = <<Fails("TR-SCA-001", text)>>
    BY <1>2 DEF ScaFindings
  <2>b. \A text : Fails("TR-SCA-001", text).code = "TR-SCA-001"
    BY DEF Fails, Says
  <2> HIDE DEF found
  <2>2. Positions(found, "TR-SCA-002") = {}
    <3>1. PICK text : found = <<Fails("TR-SCA-001", text)>>
      BY <2>a
    <3> DEFINE alone == Fails("TR-SCA-001", text)
    <3>2. alone.code = "TR-SCA-001"
      BY <2>b
    <3> HIDE DEF alone
    <3> QED  BY <3>1, <3>2 DEF Positions, alone
  <2>3. {found[p] : p \in Positions(found, "TR-SCA-002")} = {}
    BY <2>2
  <2> QED  BY <2>1, <2>3, Zenon DEF OneCall, found
<1>3. CASE b \in {"digest_valid", "digest_invalid"}
  <2>1. ScaObserved(b) = <<[branch |-> b, earned |-> {digest}]>>
    BY <1>3, Zenon DEF ScaObserved, Calls
  <2>2. digest.code = "TR-SCA-002" /\ slsa.code = "TR-SCA-001"
    BY DEF Verdict, Says
  <2>3. found = <<slsa, digest>>
    BY <1>3 DEF ScaFindings
  <2> HIDE DEF found, digest, slsa
  <2>4. Positions(found, "TR-SCA-002") = {2} /\ found[2] = digest
    BY <2>2, <2>3 DEF Positions
  <2>5. {found[p] : p \in Positions(found, "TR-SCA-002")} = {digest}
    BY <2>4
  <2> QED  BY <2>1, <2>5, Zenon DEF OneCall, found
<1> QED  BY <1>1, <1>2, <1>3

LEMMA PilotBranchesTaken ==
    ASSUME NEW k \in Keys, NEW r \in Record, NEW opts, NEW level, NEW t, NEW answer \in Answers
    PROVE  LET found == FindingsOf(Owner[k], r, opts, level, t, answer) IN
           \E branch : /\ Observed(Owner[k], r, opts, answer) = OneCall(k, branch, found)
                       /\ <<Owner[k], branch>> \in DOMAIN Rule
                       /\ Declared(Rule[<<Owner[k], branch>>], k, level, found)
<1>1. \/ k = "TR-APR-001" /\ Owner[k] = "TR-APR"
      \/ k = "TR-POL-003" /\ Owner[k] = "TR-POL"
      \/ k = "TR-SCA-002" /\ Owner[k] = "TR-SCA"
  BY PilotRunTables DEF PilotOwner, PilotKeys
<1>2. Rule = PilotRule
  BY PilotRunTables
<1>3. CASE k = "TR-APR-001" /\ Owner[k] = "TR-APR"
  <2>1. /\ FindingsOf("TR-APR", r, opts, level, t, answer) = AprFindings(r, level, t)
        /\ Observed("TR-APR", r, opts, answer) = AprObserved(r)
    BY DEF FindingsOf, Observed
  <2>2. <<"TR-APR", AprBranch(r)>> \in DOMAIN Rule
    BY <1>2, AprBranchIs, RuleIs
  <2>3. Declared(Rule[<<"TR-APR", AprBranch(r)>>], "TR-APR-001", level, AprFindings(r, level, t))
    BY <1>2, AprDeclared
  <2>4. AprObserved(r) = OneCall("TR-APR-001", AprBranch(r), AprFindings(r, level, t))
    BY AprObserves
  <2> QED  BY <1>3, <2>1, <2>2, <2>3, <2>4
<1>4. CASE k = "TR-POL-003" /\ Owner[k] = "TR-POL"
  <2> DEFINE b == PolBranch(r, opts, answer)
  <2>1. /\ FindingsOf("TR-POL", r, opts, level, t, answer) = PolFindings(r, b)
        /\ Observed("TR-POL", r, opts, answer) = PolObserved(b)
    BY DEF FindingsOf, Observed
  <2>2. b \in DOMAIN PolBranches /\ <<"TR-POL", b>> \in DOMAIN Rule
    BY <1>2, PolBranchIs, RuleIs
  <2>3. Declared(Rule[<<"TR-POL", b>>], "TR-POL-003", level, PolFindings(r, b))
    BY <1>2, PolDeclared
  <2> HIDE DEF b
  <2>4. PolObserved(b) = OneCall("TR-POL-003", b, PolFindings(r, b))
    BY <2>2, PolObserves
  <2> QED  BY <1>4, <2>1, <2>2, <2>3, <2>4
<1>5. CASE k = "TR-SCA-002" /\ Owner[k] = "TR-SCA"
  <2> DEFINE b == ScaBranch(r)
  <2>1. /\ FindingsOf("TR-SCA", r, opts, level, t, answer) = ScaFindings(r, b)
        /\ Observed("TR-SCA", r, opts, answer) = ScaObserved(b)
    BY DEF FindingsOf, Observed
  <2>2. /\ b \in DOMAIN ScaBranches \ {"level0_scheduler_nonexecution"}
        /\ <<"TR-SCA", b>> \in DOMAIN Rule
    BY <1>2, ScaBranchIs, RuleIs
  <2>3. Declared(Rule[<<"TR-SCA", b>>], "TR-SCA-002", level, ScaFindings(r, b))
    BY <1>2, ScaDeclared
  <2> HIDE DEF b
  <2>4. ScaObserved(b) = OneCall("TR-SCA-002", b, ScaFindings(r, b))
    BY <2>2, ScaObserves
  <2> QED  BY <1>5, <2>1, <2>2, <2>3, <2>4
<1> QED  BY <1>1, <1>3, <1>4, <1>5

LEMMA NoCalls ==
    ASSUME NEW m \in AllModules \ {"TR-APR", "TR-POL", "TR-SCA"}, NEW r, NEW opts, NEW answer
    PROVE  Observed(m, r, opts, answer) = <<>> /\ \A level : FactsOf(level, <<>>) = <<>>
<1>1. Observed(m, r, opts, answer) = <<>>
  BY DEF Observed
<1>2. ASSUME NEW level PROVE FactsOf(level, <<>>) = <<>>
  BY DEF FactsOf
<1> QED  BY <1>1, <1>2

(* Whatever it runs on, a shipped checker passes that inspection. *)
LEMMA AlwaysReturned ==
    ASSUME NEW m \in AllModules, NEW r \in Record, NEW opts, NEW level, NEW t,
           NEW answer \in Answers
    PROVE  ReturnsWhatItObserved(m, Observed(m, r, opts, answer),
                                 FindingsOf(m, r, opts, level, t, answer))
<1> DEFINE found == FindingsOf(m, r, opts, level, t, answer)
<1>1. CASE \E k \in Keys : Owner[k] = m
  <2>1. PICK k \in Keys : Owner[k] = m
    BY <1>1
  <2>2. PICK branch : /\ Observed(m, r, opts, answer) = OneCall(k, branch, found)
                      /\ Declared(Rule[<<m, branch>>], k, level, found)
    BY <2>1, PilotBranchesTaken
  <2> HIDE DEF found
  <2>3. Positions(found, k) = {} \/ \E p \in DOMAIN found : Positions(found, k) = {p}
    BY <2>2 DEF Declared
  <2>4. ReturnsWhatItObserved(Owner[k], OneCall(k, branch, found), found)
    BY <2>3, OneCallReturned
  <2> QED  BY <2>1, <2>2, <2>4 DEF found
<1>2. CASE \A k \in Keys : Owner[k] # m
  <2>1. m \notin {"TR-APR", "TR-POL", "TR-SCA"}
    BY <1>2, PilotRunTables DEF PilotOwner, PilotKeys
  <2>2. Observed(m, r, opts, answer) = <<>> /\ PilotCode(m) = {}
    BY <2>1, NoCalls, KeysAre
  <2> HIDE DEF found
  <2> DEFINE earning == {i \in DOMAIN <<>> : <<>>[i].earned # {}}
             pilot == {p \in DOMAIN found : found[p].code \in PilotCode(m)}
             match == [i \in {} |-> 0]
  <2>3. earning = {} /\ pilot = {}
    BY <2>2
  <2>4. match \in InOrder({}, {})
    BY DEF InOrder
  <2>5. ReturnsWhatItObserved(m, <<>>, found)
          <=> /\ \A i \in earning : \A f \in <<>>[i].earned :
                   f.code \in PilotCode(m) /\ OnlyOne({p \in DOMAIN found : found[p] = f})
              /\ \E mt \in InOrder(earning, pilot) :
                   \A i \in earning : found[mt[i]] \in <<>>[i].earned
    BY Zenon DEF ReturnsWhatItObserved
  <2> HIDE DEF earning, pilot, match
  <2>6. ReturnsWhatItObserved(m, <<>>, found)
    BY <2>3, <2>4, <2>5
  <2> QED  BY <2>2, <2>6 DEF found
<1> QED  BY <1>1, <1>2

(* What an owner that ran leaves. *)
LEMMA OwnersReturn ==
    ASSUME TypeOK, FromCalls, NEW k \in Keys, NEW l, <<l, Owner[k]>> \in DOMAIN done
    PROVE  \E branch :
             LET found == done[<<l, Owner[k]>>].findings IN
             /\ <<Owner[k], branch>> \in DOMAIN Rule
             /\ Declared(Rule[<<Owner[k], branch>>], k, l, found)
             /\ done[<<l, Owner[k]>>].facts = <<FactFor(k, l, branch, found)>>
<1> DEFINE cell == <<l, Owner[k]>>
<1>1. PICK t \in StartTime..now, answer \in Answers : done[cell] = Result(cell, t, answer)
  BY DEF FromCalls
<1> DEFINE found == FindingsOf(Owner[k], record, options, l, t, answer)
<1>2. record \in Record
  BY PilotRunAssumption DEF TypeOK
<1>3. PICK branch : /\ Observed(Owner[k], record, options, answer) = OneCall(k, branch, found)
                    /\ <<Owner[k], branch>> \in DOMAIN Rule
                    /\ Declared(Rule[<<Owner[k], branch>>], k, l, found)
  BY <1>2, PilotBranchesTaken
<1>4. /\ done[cell].findings = found
      /\ done[cell].facts = FactsOf(l, OneCall(k, branch, found))
  <2> HIDE DEF found
  <2>1. Result(cell, t, answer)
          = [facts |-> FactsOf(l, Observed(Owner[k], record, options, answer)),
             findings |-> found]
    BY DEF Result, found
  <2> QED  BY <1>1, <1>3, <2>1
<1>5. done[cell].facts = <<FactFor(k, l, branch, found)>>
  <2> HIDE DEF found, cell
  <2>1. FactsOf(l, OneCall(k, branch, found)) = <<FactFor(k, l, branch, found)>>
    BY FactsAre, Zenon
  <2> QED  BY <1>4, <2>1
<1> QED
  <2> HIDE DEF found, cell
  <2>1. /\ <<Owner[k], branch>> \in DOMAIN Rule
        /\ Declared(Rule[<<Owner[k], branch>>], k, l, done[cell].findings)
        /\ done[cell].facts = <<FactFor(k, l, branch, done[cell].findings)>>
    BY <1>3, <1>4, <1>5
  <2> QED  BY <2>1 DEF cell

LEMMA OthersObserveNothing ==
    ASSUME FromCalls, NEW cell \in DOMAIN done,
           cell[2] \in AllModules \ {"TR-APR", "TR-POL", "TR-SCA"}
    PROVE  done[cell].facts = <<>>
<1>1. PICK t \in StartTime..now, answer \in Answers : done[cell] = Result(cell, t, answer)
  BY DEF FromCalls
<1>2. Observed(cell[2], record, options, answer) = <<>> /\ FactsOf(cell[1], <<>>) = <<>>
  BY NoCalls
<1> QED  BY <1>1, <1>2 DEF Result

(***************************************************************************)
(* The end of the run.                                                     *)
(***************************************************************************)
Finished == DOMAIN done = Cells

LEMMA LevelsAre == MaxLevel \in 0..2 /\ Levels \subseteq 0..2 /\ Levels = 0..MaxLevel
  BY PilotRunAssumption DEF Levels

LEMMA CellsAre ==
    /\ Cells \subseteq Levels \X Modules
    /\ \A l \in Levels : /\ <<l, "TR-ENV">> \in Cells /\ <<l, "TR-SIG">> \in Cells
                         /\ <<l, "TR-POL">> \in Cells /\ <<l, "TR-APR">> \in Cells
                         /\ l >= 1 <=> <<l, "TR-RTE">> \in Cells
                         /\ l >= 1 <=> <<l, "TR-SCA">> \in Cells
                         /\ l = 2 <=> <<l, "TR-TXN">> \in Cells
                         /\ l = 2 <=> <<l, "TR-ANC">> \in Cells
<1>1. Cells \subseteq Levels \X Modules
  BY ModulesAre DEF Cells
<1>2. ASSUME NEW l \in Levels, NEW m \in AllModules
      PROVE  <<l, m>> \in Cells <=> Place[m] <= Size(l)
  BY DEF Cells
<1>3. /\ Place["TR-ENV"] = 1 /\ Place["TR-SIG"] = 2 /\ Place["TR-POL"] = 3 /\ Place["TR-APR"] = 4
      /\ Place["TR-RTE"] = 5 /\ Place["TR-SCA"] = 6 /\ Place["TR-TXN"] = 7 /\ Place["TR-ANC"] = 8
  BY DEF Place, AllModules
<1>4. {"TR-ENV", "TR-SIG", "TR-POL", "TR-APR", "TR-RTE", "TR-SCA", "TR-TXN", "TR-ANC"}
        \subseteq AllModules
  BY DEF AllModules
<1>5. \A l \in Levels : Size(l) = IF l = 0 THEN 4 ELSE IF l = 1 THEN 6 ELSE 8
  BY DEF Size
<1>6. \A l \in Levels : l = 0 \/ l = 1 \/ l = 2
  BY LevelsAre
<1> QED
  <2> SUFFICES ASSUME NEW l \in Levels
               PROVE  /\ <<l, "TR-ENV">> \in Cells /\ <<l, "TR-SIG">> \in Cells
                      /\ <<l, "TR-POL">> \in Cells /\ <<l, "TR-APR">> \in Cells
                      /\ l >= 1 <=> <<l, "TR-RTE">> \in Cells
                      /\ l >= 1 <=> <<l, "TR-SCA">> \in Cells
                      /\ l = 2 <=> <<l, "TR-TXN">> \in Cells
                      /\ l = 2 <=> <<l, "TR-ANC">> \in Cells
    BY <1>1
  <2>1. l = 0 \/ l = 1 \/ l = 2
    BY <1>6
  <2> QED  BY <1>2, <1>3, <1>4, <1>5, <2>1

(* The fact of an obligation at a level, once the run is over. *)
LEMMA FactAtEnd ==
    ASSUME TypeOK, FromCalls, Finished, NEW k \in Keys, NEW l \in Levels
    PROVE  LET cell == <<l, Owner[k]>> IN
           \/ /\ cell \in DOMAIN done
              /\ \E branch :
                   /\ <<Owner[k], branch>> \in DOMAIN Rule
                   /\ Declared(Rule[<<Owner[k], branch>>], k, l, done[cell].findings)
                   /\ AllFacts[cell] = <<FactFor(k, l, branch, done[cell].findings)>>
           \/ cell \notin DOMAIN done /\ Owner[k] = "TR-SCA" /\ AllFacts[cell] = <<IdleFact>>
<1> DEFINE cell == <<l, Owner[k]>>
<1>1. Owner[k] \in {"TR-APR", "TR-POL", "TR-SCA"} /\ cell \in Levels \X Modules
  BY KeysAre, ModulesAre DEF AllModules
<1>2. AllFacts[cell] = IF cell \in DOMAIN done THEN done[cell].facts
                       ELSE IF Owner[k] = "TR-SCA" THEN <<IdleFact>> ELSE <<>>
  BY <1>1 DEF AllFacts, IdleFact
<1>3. CASE cell \in DOMAIN done
  BY <1>2, <1>3, OwnersReturn
<1>4. CASE cell \notin DOMAIN done
  BY <1>1, <1>2, <1>4, CellsAre DEF Finished
<1> QED  BY <1>3, <1>4

LEMMA FindingsTyped ==
    ASSUME TypeOK, NEW cell \in DOMAIN done
    PROVE  \A p \in DOMAIN done[cell].findings : done[cell].findings[p] \in Finding
  BY DEF TypeOK

LEMMA AllProjectable ==
    ASSUME TypeOK, FromCalls, Finished
    PROVE  Projectable(Levels, AllFacts, AllFindings, StartPolicy)
<1>1. DOMAIN AllFacts = Levels \X Modules /\ DOMAIN AllFindings = DOMAIN done
  BY DEF AllFacts, AllFindings
<1>2. \A cell \in DOMAIN done : AllFindings[cell] = done[cell].findings
  BY DEF AllFindings
<1>3. ASSUME NEW k \in Keys, NEW l \in Levels
      PROVE  /\ Len(AllFacts[<<l, Owner[k]>>]) = 1
             /\ ProjectableFact(<<l, Owner[k]>>, AllFacts[<<l, Owner[k]>>][1], AllFindings,
                                StartPolicy)
             /\ RecognisedFact(<<l, Owner[k]>>, AllFacts[<<l, Owner[k]>>][1], DOMAIN AllFindings)
             /\ DOMAIN AllFacts[<<l, Owner[k]>>] = {1}
  <2> DEFINE cell == <<l, Owner[k]>>
  <2>a. cell[1] = l /\ cell[2] = Owner[k]
    OBVIOUS
  <2>1. CASE cell \in DOMAIN done /\ \E branch :
                /\ <<Owner[k], branch>> \in DOMAIN Rule
                /\ Declared(Rule[<<Owner[k], branch>>], k, l, done[cell].findings)
                /\ AllFacts[cell] = <<FactFor(k, l, branch, done[cell].findings)>>
    <3>1. PICK branch : /\ <<Owner[k], branch>> \in DOMAIN Rule
                        /\ Declared(Rule[<<Owner[k], branch>>], k, l, done[cell].findings)
                        /\ AllFacts[cell] = <<FactFor(k, l, branch, done[cell].findings)>>
      BY <2>1
    <3> DEFINE fact == FactFor(k, l, branch, done[cell].findings)
    <3>2. ProjectableFact(cell, fact, AllFindings, StartPolicy)
      BY <1>2, <2>1, <3>1, DeclaredProjects, FindingsTyped
    <3>3. fact.branch = branch
      BY DEF FactFor
    <3> HIDE DEF fact
    <3>4. RecognisedFact(cell, fact, DOMAIN AllFindings)
      <4> HIDE DEF cell
      <4> QED  BY <1>1, <2>a, <2>1, <3>1, <3>3 DEF RecognisedFact, Declared
    <3>5. Len(AllFacts[cell]) = 1 /\ DOMAIN AllFacts[cell] = {1} /\ AllFacts[cell][1] = fact
      BY <3>1, AloneInList DEF fact
    <3> QED  BY <3>2, <3>4, <3>5
  <2>2. CASE cell \notin DOMAIN done /\ Owner[k] = "TR-SCA" /\ AllFacts[cell] = <<IdleFact>>
    <3>1. ProjectableFact(cell, IdleFact, AllFindings, StartPolicy)
      BY <2>2, IdleProjects
    <3>2. IdleFact.branch = "level0_scheduler_nonexecution"
      BY DEF IdleFact
    <3>3. RecognisedFact(cell, IdleFact, DOMAIN AllFindings)
      <4> HIDE DEF cell
      <4> QED  BY <1>1, <2>a, <2>2, <3>2, IdleRule DEF RecognisedFact
    <3>4. Len(AllFacts[cell]) = 1 /\ DOMAIN AllFacts[cell] = {1} /\ AllFacts[cell][1] = IdleFact
      BY <2>2, AloneInList
    <3> QED  BY <3>1, <3>3, <3>4
  <2> QED  BY <2>1, <2>2, FactAtEnd
<1>4. ASSUME NEW cell \in Levels \X Modules, NEW i \in DOMAIN AllFacts[cell]
      PROVE  RecognisedFact(cell, AllFacts[cell][i], DOMAIN AllFindings)
  <2>1. CASE \E k \in Keys : Owner[k] = cell[2]
    <3>1. PICK k \in Keys : Owner[k] = cell[2]
      BY <2>1
    <3>2. cell = <<cell[1], Owner[k]>> /\ cell[1] \in Levels
      BY <3>1
    <3> QED  BY <1>3, <3>2
  <2>2. CASE \A k \in Keys : Owner[k] # cell[2]
    <3>1. cell[2] \notin {"TR-APR", "TR-POL", "TR-SCA"}
      BY <2>2, PilotRunTables DEF PilotOwner, PilotKeys
    <3>2. cell[2] \in AllModules
      BY ModulesAre
    <3>3. AllFacts[cell] = <<>>
      <4>1. CASE cell \in DOMAIN done
        <5>1. done[cell].facts = <<>>
          BY <3>1, <3>2, <4>1, OthersObserveNothing
        <5> QED  BY <4>1, <5>1 DEF AllFacts
      <4>2. CASE cell \notin DOMAIN done
        BY <3>1, <4>2 DEF AllFacts
      <4> QED  BY <4>1, <4>2
    <3> QED  BY <3>3
  <2> QED  BY <2>1, <2>2
<1> QED  BY <1>1, <1>3, <1>4 DEF Projectable

(* The sealed values are the findings themselves. *)
LEMMA SealedFindings ==
    ASSUME TypeOK
    PROVE  SealedResults(AllFindings) = AllFindings
<1>1. ASSUME NEW cell \in DOMAIN done
      PROVE  [p \in DOMAIN AllFindings[cell] |-> Sealed(AllFindings[cell][p])] = AllFindings[cell]
  <2> DEFINE found == AllFindings[cell]
  <2>1. found = done[cell].findings
    BY DEF AllFindings
  <2>2. found \in Seq(Finding)
    BY <2>1 DEF TypeOK
  <2>3. \A w \in Finding : Sealed(w) = w
    BY DEF Sealed, Finding
  <2> HIDE DEF found
  <2>4. [p \in DOMAIN found |-> Sealed(found[p])] = [p \in DOMAIN found |-> found[p]]
    BY <2>2, <2>3
  <2>5. [p \in DOMAIN found |-> found[p]] = found
    BY <2>2
  <2> QED  BY <2>4, <2>5 DEF found
<1>2. DOMAIN AllFindings = DOMAIN done /\ AllFindings = [cell \in DOMAIN done |-> AllFindings[cell]]
  BY DEF AllFindings
<1>3. SealedResults(AllFindings) = [cell \in DOMAIN done |-> AllFindings[cell]]
  BY <1>1, <1>2 DEF SealedResults
<1> QED  BY <1>2, <1>3

LEMMA DocumentIs ==
    ASSUME TypeOK
    PROVE  LET d == Document(Levels, AllFacts, AllFindings, StartPolicy) IN
           /\ d.policy = StartPolicy /\ d.results = AllFindings
           /\ d.rows = Rows(Levels, AllFacts)
           /\ d.tallies = [l \in Levels |-> Tally(AllFindings, l, StartPolicy)]
  BY SealedFindings DEF Document

LEMMA EndIsEmittable ==
    ASSUME TypeOK, FromCalls, Finished
    PROVE  EmissionAccepts(Levels, Document(Levels, AllFacts, AllFindings, StartPolicy))
<1> DEFINE d == Document(Levels, AllFacts, AllFindings, StartPolicy)
<1>1. /\ d.policy = StartPolicy /\ d.results = AllFindings
      /\ d.rows = Rows(Levels, AllFacts)
      /\ d.tallies = [l \in Levels |-> Tally(AllFindings, l, StartPolicy)]
  BY DocumentIs
<1> HIDE DEF d
<1>2. DOMAIN AllFindings = DOMAIN done /\ \A cell \in DOMAIN done : AllFindings[cell] = done[cell].findings
  BY DEF AllFindings
<1>3. ASSUME NEW k \in Keys, NEW l \in Levels
      PROVE  RowMatchesResults(d.rows[<<l, k>>], l, k, AllFindings, StartPolicy)
  <2> DEFINE cell == <<l, Owner[k]>>
  <2>1. d.rows[<<l, k>>] = Row(Owner[k], AllFacts[cell][1])
    BY <1>1 DEF Rows
  <2>2. CASE cell \in DOMAIN done /\ \E branch :
                /\ <<Owner[k], branch>> \in DOMAIN Rule
                /\ Declared(Rule[<<Owner[k], branch>>], k, l, done[cell].findings)
                /\ AllFacts[cell] = <<FactFor(k, l, branch, done[cell].findings)>>
    <3>1. PICK branch : /\ <<Owner[k], branch>> \in DOMAIN Rule
                        /\ Declared(Rule[<<Owner[k], branch>>], k, l, done[cell].findings)
                        /\ AllFacts[cell] = <<FactFor(k, l, branch, done[cell].findings)>>
      BY <2>2
    <3>2. AllFacts[cell][1] = FactFor(k, l, branch, done[cell].findings)
      BY <3>1, AloneInList
    <3>3. RowMatchesResults(Row(Owner[k], FactFor(k, l, branch, done[cell].findings)), l, k,
                            AllFindings, StartPolicy)
      BY <1>2, <2>2, <3>1, DeclaredMatches, FindingsTyped
    <3> QED  BY <2>1, <3>2, <3>3
  <2>3. CASE cell \notin DOMAIN done /\ Owner[k] = "TR-SCA" /\ AllFacts[cell] = <<IdleFact>>
    <3>1. AllFacts[cell][1] = IdleFact
      BY <2>3, AloneInList
    <3>2. RowMatchesResults(Row("TR-SCA", IdleFact), l, k, AllFindings, StartPolicy)
      BY <1>2, <2>3, IdleMatches
    <3> QED  BY <2>1, <2>3, <3>1, <3>2
  <2> QED  BY <2>2, <2>3, FactAtEnd
<1>4. DOMAIN d.rows = Levels \X Keys /\ DOMAIN d.tallies = Levels
  BY <1>1 DEF Rows
<1> QED  BY <1>1, <1>3, <1>4 DEF EmissionAccepts, d

(***************************************************************************)
(* The steps of the run.                                                   *)
(***************************************************************************)
(* The cells that ran are a prefix of the plan, and none was left out. *)
LEMMA RanIsPrefix ==
    ASSUME TypeOK
    PROVE  /\ Cardinality(DOMAIN done) \in 0..Len(Plan)
           /\ DOMAIN done = {Plan[i] : i \in 1..Cardinality(DOMAIN done)}
           /\ DOMAIN done \subseteq Cells
           /\ Cardinality(DOMAIN done) = Len(Plan) => Finished
<1>1. PICK n \in 0..Len(Plan) : DOMAIN done = {Plan[i] : i \in 1..n}
  BY DEF TypeOK
<1>2. Cardinality(DOMAIN done) = n /\ (n = Len(Plan) => DOMAIN done = Cells)
  BY <1>1, PlanPrefix
<1>3. 1..n \subseteq 1..Len(Plan)
  BY PlanOnce
<1>4. DOMAIN done \subseteq Cells
  BY <1>1, <1>3, PlanOnce
<1> QED  BY <1>1, <1>2, <1>4 DEF Finished

(* One more cell, with what its checker returned. *)
LEMMA RunCheckerStep ==
    ASSUME TypeOK, NEW answer \in Answers, RunChecker(answer)
    PROVE  LET n == Cardinality(DOMAIN done)
               cell == Plan[n + 1]
           IN  /\ n < Len(Plan) /\ n + 1 \in 0..Len(Plan)
               /\ cell \in Cells /\ cell \notin DOMAIN done
               /\ DOMAIN done' = DOMAIN done \cup {cell}
               /\ DOMAIN done' = {Plan[i] : i \in 1..(n + 1)}
               /\ \A c \in DOMAIN done : done'[c] = done[c]
               /\ done'[cell] = Result(cell, now, answer)
               /\ outcome = "running" /\ UNCHANGED outcome
<1> DEFINE n == Cardinality(DOMAIN done)
           cell == Plan[n + 1]
<1>1. n \in 0..Len(Plan) /\ DOMAIN done = {Plan[i] : i \in 1..n}
  BY RanIsPrefix
<1>2. n < Len(Plan)
  BY DEF RunChecker
<1>3. /\ n + 1 \in 0..Len(Plan) /\ n + 1 \in 1..Len(Plan) /\ 1..(n + 1) = 1..n \cup {n + 1}
  <2> HIDE DEF n
  <2> QED  BY <1>1, <1>2, PlanOnce
<1>4. cell \in Cells
  BY <1>3, PlanOnce
<1>5. cell \notin DOMAIN done
  <2> HIDE DEF n
  <2> QED  BY <1>1, <1>2, PlanPrefix
<1>6. done' = [c \in DOMAIN done \cup {cell} |->
                 IF c = cell THEN Result(cell, now, answer) ELSE done[c]]
  <2> DEFINE observed == Observed(cell[2], record, options, answer)
             found == FindingsOf(cell[2], record, options, cell[1], now, answer)
  <2>1. cell[2] \in AllModules /\ record \in Record
    BY <1>4, PilotRunAssumption DEF Cells, TypeOK
  <2>2. ReturnsWhatItObserved(cell[2], observed, found)
    <3> HIDE DEF cell
    <3> QED  BY <2>1, AlwaysReturned
  <2>3. \/ done' = [c \in DOMAIN done \cup {cell} |->
                    IF c = cell THEN [facts |-> FactsOf(cell[1], observed), findings |-> found]
                    ELSE done[c]]
        \/ ~ReturnsWhatItObserved(cell[2], observed, found)
    BY Zenon DEF RunChecker
  <2>4. Result(cell, now, answer) = [facts |-> FactsOf(cell[1], observed), findings |-> found]
    BY Zenon DEF Result
  <2> HIDE DEF cell, observed, found
  <2> QED  BY <2>2, <2>3, <2>4
<1>8. outcome' = outcome
  <2> DEFINE observed == Observed(cell[2], record, options, answer)
             found == FindingsOf(cell[2], record, options, cell[1], now, answer)
  <2>1. cell[2] \in AllModules /\ record \in Record
    BY <1>4, PilotRunAssumption DEF Cells, TypeOK
  <2>2. ReturnsWhatItObserved(cell[2], observed, found)
    <3> HIDE DEF cell
    <3> QED  BY <2>1, AlwaysReturned
  <2> QED  BY <2>2, Zenon DEF RunChecker
<1>7. DOMAIN done' = {Plan[i] : i \in 1..(n + 1)}
  <2> HIDE DEF n
  <2> QED  BY <1>1, <1>3, <1>6
<1> QED
  <2> HIDE DEF n, cell
  <2>1. /\ n < Len(Plan) /\ n + 1 \in 0..Len(Plan)
        /\ cell \in Cells /\ cell \notin DOMAIN done
        /\ DOMAIN done' = DOMAIN done \cup {cell}
        /\ DOMAIN done' = {Plan[i] : i \in 1..(n + 1)}
        /\ \A c \in DOMAIN done : done'[c] = done[c]
        /\ done'[cell] = Result(cell, now, answer)
        /\ outcome = "running" /\ UNCHANGED outcome
    BY <1>2, <1>3, <1>4, <1>5, <1>6, <1>7, <1>8 DEF RunChecker
  <2> QED  BY <2>1 DEF n, cell

LEMMA ResultTyped ==
    ASSUME TypeOK, NEW cell \in Cells, NEW answer \in Answers, NEW t
    PROVE  Result(cell, t, answer).findings \in Seq(Finding)
<1>1. cell[2] \in AllModules /\ record \in Record
  BY PilotRunAssumption DEF Cells, TypeOK
<1>2. FindingsOf(cell[2], record, options, cell[1], t, answer) \in Seq(Finding)
  BY <1>1, FindingsReported DEF Reported
<1> QED  BY <1>2 DEF Result

LEMMA InitType == Init => TypeOK
<1> SUFFICES ASSUME Init PROVE TypeOK
  OBVIOUS
<1>1. StartTime \in Int /\ MaxTime \in Int /\ StartTime <= MaxTime
  BY PilotRunAssumption
<1>2. now \in StartTime..MaxTime
  BY <1>1 DEF Init
<1>3. DOMAIN done = {}
  BY DEF Init
<1>4. 0 \in 0..Len(Plan) /\ {Plan[i] : i \in 1..0} = {}
  BY PlanOnce
<1> QED  BY <1>2, <1>3, <1>4 DEF Init, TypeOK

LEMMA StepType == TypeOK /\ [Next]_vars => TypeOK'
<1> SUFFICES ASSUME TypeOK, [Next]_vars PROVE TypeOK'
  OBVIOUS
<1>1. CASE Tick
  <2>1. now' \in StartTime..MaxTime
    BY <1>1, PilotRunAssumption DEF TypeOK, Tick
  <2> QED  BY <1>1, <2>1 DEF TypeOK, Tick
<1>2. ASSUME NEW answer \in Answers, RunChecker(answer) PROVE TypeOK'
  <2> DEFINE n == Cardinality(DOMAIN done)
             cell == Plan[n + 1]
  <2>1. /\ n + 1 \in 0..Len(Plan) /\ cell \in Cells
        /\ DOMAIN done' = DOMAIN done \cup {cell}
        /\ DOMAIN done' = {Plan[i] : i \in 1..(n + 1)}
        /\ \A c \in DOMAIN done : done'[c] = done[c]
        /\ done'[cell] = Result(cell, now, answer)
    BY <1>2, RunCheckerStep
  <2>2. UNCHANGED <<record, options, now, outcome, document>>
    BY <1>2, RunCheckerStep DEF RunChecker
  <2>3. Result(cell, now, answer).findings \in Seq(Finding)
    BY <2>1, ResultTyped
  <2> HIDE DEF n, cell
  <2>4. \A c \in DOMAIN done' : done'[c].findings \in Seq(Finding)
    BY <2>1, <2>3 DEF TypeOK
  <2>5. \E m \in 0..Len(Plan) : DOMAIN done' = {Plan[i] : i \in 1..m}
    BY <2>1
  <2> QED  BY <2>2, <2>4, <2>5 DEF TypeOK, Plan
<1>3. CASE Complete
  <2>1. UNCHANGED <<record, options, now>>
    BY <1>3 DEF Complete
  <2>2. CASE UNCHANGED done /\ outcome' = "completed" /\ document' # {}
    BY <2>1, <2>2 DEF TypeOK, Plan
  <2>3. CASE outcome = "running" /\ outcome' = "rejected" /\ UNCHANGED document
             /\ done' = [cell \in {} |-> <<>>]
    <3>1. DOMAIN done' = {}
      BY <2>3
    <3>2. 0 \in 0..Len(Plan) /\ {Plan[i] : i \in 1..0} = {}
      BY PlanOnce
    <3> QED  BY <2>1, <2>3, <3>1, <3>2 DEF TypeOK, Plan
  <2> QED  BY <1>3, <2>2, <2>3 DEF Complete
<1>4. CASE UNCHANGED vars
  BY <1>4 DEF TypeOK, vars, Plan
<1> QED  BY <1>1, <1>2, <1>3, <1>4 DEF Next

(* Types, and a run whose checkers ran in the order of the plan. *)
THEOREM TypeCorrect == Spec => []TypeOK
  BY InitType, StepType, PTL DEF Spec

(* What ran stays what its checkers returned, the run is never rejected,   *)
(* and its document is the one of all its cells.                           *)
Published ==
    /\ outcome # "rejected"
    /\ outcome = "completed" =>
         Finished /\ document = {Document(Levels, AllFacts, AllFindings, StartPolicy)}

LEMMA InitPublished == Init => FromCalls /\ Published
  BY DEF Init, FromCalls, Published

LEMMA StepPublished ==
    TypeOK /\ FromCalls /\ Published /\ [Next]_vars => FromCalls' /\ Published'
<1> SUFFICES ASSUME TypeOK, FromCalls, Published, [Next]_vars PROVE FromCalls' /\ Published'
  OBVIOUS
<1>1. ASSUME UNCHANGED <<record, options, done>>, now' \in Int, now <= now' PROVE FromCalls'
  <2>1. StartTime..now \subseteq StartTime..now'
    BY <1>1, PilotRunAssumption DEF TypeOK
  <2>2. \A cell, t, answer : Result(cell, t, answer)' = Result(cell, t, answer)
    BY <1>1 DEF Result
  <2> QED  BY <1>1, <2>1, <2>2 DEF FromCalls
<1>2. ASSUME UNCHANGED <<done, document, outcome>> PROVE Published'
  BY <1>2 DEF Published, Finished, AllFacts, AllFindings
<1>a. now \in Int
  BY PilotRunAssumption DEF TypeOK
<1>3. CASE Tick
  <2>1. now' \in Int /\ now <= now' /\ UNCHANGED <<record, options, done, document, outcome>>
    BY <1>3, <1>a DEF Tick
  <2> QED  BY <1>1, <1>2, <2>1
<1>4. ASSUME NEW answer \in Answers, RunChecker(answer) PROVE FromCalls' /\ Published'
  <2> DEFINE cell == Plan[Cardinality(DOMAIN done) + 1]
  <2>1. /\ DOMAIN done' = DOMAIN done \cup {cell}
        /\ \A c \in DOMAIN done : done'[c] = done[c]
        /\ done'[cell] = Result(cell, now, answer)
    BY <1>4, RunCheckerStep
  <2>2. outcome = "running" /\ UNCHANGED <<record, options, now, outcome, document>>
    BY <1>4, RunCheckerStep DEF RunChecker
  <2>3. \A c, t, a : Result(c, t, a)' = Result(c, t, a)
    BY <2>2 DEF Result
  <2>4. now \in StartTime..now
    BY PilotRunAssumption DEF TypeOK
  <2> HIDE DEF cell
  <2>5. ASSUME NEW c \in DOMAIN done'
        PROVE  \E t \in StartTime..now, a \in Answers : done'[c] = Result(c, t, a)
    <3>1. CASE c = cell
      BY <2>1, <2>4, <3>1
    <3>2. CASE c \in DOMAIN done
      BY <2>1, <3>2 DEF FromCalls
    <3> QED  BY <2>1, <3>1, <3>2
  <2>6. FromCalls'
    BY <2>2, <2>3, <2>5 DEF FromCalls
  <2> QED  BY <2>2, <2>6 DEF Published
<1>5. CASE Complete
  <2>1. Finished
    BY <1>5, RanIsPrefix DEF Complete
  <2>2. Projectable(Levels, AllFacts, AllFindings, StartPolicy)
    BY <2>1, AllProjectable
  <2>3. /\ document' = {Document(Levels, AllFacts, AllFindings, StartPolicy)}
        /\ outcome' = "completed" /\ UNCHANGED <<done, record, options, now>>
    BY <1>5, <2>2 DEF Complete
  <2>4. FromCalls'
    BY <1>1, <1>a, <2>3
  <2>5. AllFacts' = AllFacts /\ AllFindings' = AllFindings
    BY <2>3 DEF AllFacts, AllFindings
  <2> QED  BY <2>1, <2>3, <2>4, <2>5 DEF Published, Finished
<1>6. CASE UNCHANGED vars
  BY <1>1, <1>2, <1>6, <1>a DEF vars
<1> QED  BY <1>3, <1>4, <1>5, <1>6 DEF Next

LEMMA RunsArePublished == Spec => [](TypeOK /\ FromCalls /\ Published)
  BY InitType, InitPublished, StepType, StepPublished, PTL DEF Spec

(* The shipped checkers and the shipped registry agree on every record,    *)
(* option, clock and resolver answer: the accounting never rejects an      *)
(* honest run, and what it seals passes the revalidation before emission.  *)
THEOREM HonestRuns == Spec => []HonestRunsPublish
<1>1. TypeOK /\ FromCalls /\ Published => HonestRunsPublish
  <2> SUFFICES ASSUME TypeOK, FromCalls, Published PROVE HonestRunsPublish
    OBVIOUS
  <2>1. ASSUME NEW d \in document PROVE EmissionAccepts(Levels, d)
    <3>1. outcome = "completed"
      BY <2>1 DEF TypeOK
    <3> QED  BY <2>1, <3>1, EndIsEmittable DEF Published
  <2> QED  BY <2>1 DEF HonestRunsPublish, Published
<1> QED  BY <1>1, RunsArePublished, PTL

(***************************************************************************)
(* What a passed level excludes.                                           *)
(***************************************************************************)
LEMMA ModulesFinite == IsFiniteSet(Modules)
<1> DEFINE list == [i \in 1..8 |-> LevelModules[3][i]]
<1>1. list \in Surjection(1..8, Modules)
  BY Places, ModulesAre DEF Surjection
<1>2. IsFiniteSet(1..8)
  <2>1. 1 \in Int /\ 8 \in Int
    OBVIOUS
  <2> QED  BY <2>1, FS_Interval, Zenon
<1> QED  BY <1>1, <1>2, FS_Surjection

LEMMA FewFindings ==
    ASSUME TypeOK, FromCalls, NEW cell \in DOMAIN done
    PROVE  /\ cell \in Levels \X Modules /\ done[cell].findings \in Seq(Finding)
           /\ DOMAIN done[cell].findings \subseteq 1..5
<1>1. cell \in Cells
  BY RanIsPrefix
<1>2. cell[2] \in AllModules /\ record \in Record /\ cell \in Levels \X Modules
  BY <1>1, CellsAre, PilotRunAssumption DEF Cells, TypeOK
<1>3. PICK t \in StartTime..now, answer \in Answers : done[cell] = Result(cell, t, answer)
  BY DEF FromCalls
<1>4. Reported(done[cell].findings)
  BY <1>2, <1>3, FindingsReported DEF Result
<1> QED  BY <1>2, <1>4 DEF Reported

LEMMA FindingsAtIs ==
    ASSUME TypeOK, FromCalls, NEW l
    PROVE  /\ \A f : f \in FindingsAt(AllFindings, l) <=>
                \E m \in Modules : /\ <<l, m>> \in DOMAIN done
                                   /\ \E p \in DOMAIN done[<<l, m>>].findings : f = <<m, p>>
           /\ IsFiniteSet(FindingsAt(AllFindings, l))
<1>1. \A f : f \in FindingsAt(AllFindings, l) <=>
                \E m \in Modules : /\ <<l, m>> \in DOMAIN done
                                   /\ \E p \in DOMAIN done[<<l, m>>].findings : f = <<m, p>>
  <2>1. \A cell \in DOMAIN done : cell = <<cell[1], cell[2]>> /\ cell[2] \in Modules
    BY FewFindings
  <2>2. DOMAIN AllFindings = DOMAIN done
        /\ \A cell \in DOMAIN done : AllFindings[cell] = done[cell].findings
    BY DEF AllFindings
  <2>3. \A f : f \in FindingsAt(AllFindings, l) <=>
                \E cell \in DOMAIN done : /\ cell[1] = l
                                          /\ \E p \in DOMAIN done[cell].findings : f = <<cell[2], p>>
    BY <2>2 DEF FindingsAt
  <2>4. ASSUME NEW f, f \in FindingsAt(AllFindings, l)
        PROVE  \E m \in Modules : /\ <<l, m>> \in DOMAIN done
                                 /\ \E p \in DOMAIN done[<<l, m>>].findings : f = <<m, p>>
    <3>1. PICK cell \in DOMAIN done : /\ cell[1] = l
                                      /\ \E p \in DOMAIN done[cell].findings : f = <<cell[2], p>>
      BY <2>3, <2>4
    <3>2. cell = <<l, cell[2]>> /\ cell[2] \in Modules
      BY <2>1, <3>1
    <3> QED  BY <3>1, <3>2
  <2>5. ASSUME NEW f, NEW m \in Modules, <<l, m>> \in DOMAIN done,
               \E p \in DOMAIN done[<<l, m>>].findings : f = <<m, p>>
        PROVE  f \in FindingsAt(AllFindings, l)
    <3>1. <<l, m>>[1] = l /\ <<l, m>>[2] = m
      OBVIOUS
    <3> QED  BY <2>3, <2>5, <3>1
  <2> QED  BY <2>4, <2>5
<1>2. FindingsAt(AllFindings, l) \subseteq Modules \X (1..5)
  <2> SUFFICES ASSUME NEW f \in FindingsAt(AllFindings, l) PROVE f \in Modules \X (1..5)
    OBVIOUS
  <2>1. PICK m \in Modules : /\ <<l, m>> \in DOMAIN done
                             /\ \E p \in DOMAIN done[<<l, m>>].findings : f = <<m, p>>
    BY <1>1
  <2>2. PICK p \in DOMAIN done[<<l, m>>].findings : f = <<m, p>>
    BY <2>1
  <2>3. p \in 1..5
    BY <2>1, <2>2, FewFindings
  <2> QED  BY <2>2, <2>3
<1>3. IsFiniteSet(Modules \X (1..5))
  <2>1. 1 \in Int /\ 5 \in Int
    OBVIOUS
  <2>2. IsFiniteSet(1..5)
    BY <2>1, FS_Interval, Zenon
  <2> QED  BY <2>2, ModulesFinite, FS_Product, Zenon
<1> QED  BY <1>1, <1>2, <1>3, FS_Subset

LEMMA TallyFailures ==
    ASSUME NEW rs, NEW l, NEW policy
    PROVE  Tally(rs, l, policy).failures
             = Cardinality({f \in FindingsAt(rs, l) :
                              CountsAsLevelFailure(policy, rs[<<l, f[1]>>][f[2]], l)})
<1> DEFINE at(f) == rs[<<l, f[1]>>][f[2]]
           found == FindingsAt(rs, l)
           failing == {f \in found : CountsAsLevelFailure(policy, at(f), l)}
           unclear == {f \in found : at(f).status = "unverified"}
<1>1. Tally(rs, l, policy) = [failures |-> Cardinality(failing), unverified |-> Cardinality(unclear)]
  BY Zenon DEF Tally
<1>2. Tally(rs, l, policy).failures = Cardinality(failing)
  <2> HIDE DEF failing, unclear
  <2> QED  BY <1>1
<1> QED  BY <1>2

(* No finding of a level without failures counts as one. *)
LEMMA NothingCounts ==
    ASSUME TypeOK, FromCalls, NEW l, Tally(AllFindings, l, StartPolicy).failures = 0,
           NEW m \in Modules, <<l, m>> \in DOMAIN done,
           NEW p \in DOMAIN done[<<l, m>>].findings
    PROVE  ~CountsAsLevelFailure(StartPolicy, done[<<l, m>>].findings[p], l)
<1> DEFINE at(f) == AllFindings[<<l, f[1]>>][f[2]]
           failing == {f \in FindingsAt(AllFindings, l) :
                         CountsAsLevelFailure(StartPolicy, at(f), l)}
<1>1. Tally(AllFindings, l, StartPolicy).failures = Cardinality(failing)
  BY TallyFailures
<1>2. IsFiniteSet(failing)
  BY FindingsAtIs, FS_Subset
<1>3. failing = {}
  <2> HIDE DEF failing
  <2> QED  BY <1>1, <1>2, FS_EmptySet
<1>4. <<m, p>> \in FindingsAt(AllFindings, l)
  BY FindingsAtIs
<1>5. at(<<m, p>>) = done[<<l, m>>].findings[p]
  BY DEF AllFindings
<1> QED  BY <1>3, <1>4, <1>5

(* The document of a run. *)
LEMMA DocumentAtEnd ==
    ASSUME TypeOK, FromCalls, Published, NEW d \in document
    PROVE  /\ Finished /\ EmissionAccepts(Levels, d)
           /\ d.policy = StartPolicy /\ d.results = AllFindings
           /\ d.rows = Rows(Levels, AllFacts)
           /\ \A l \in Levels : d.tallies[l] = Tally(AllFindings, l, StartPolicy)
<1>1. outcome = "completed"
  BY DEF TypeOK
<1>2. Finished /\ d = Document(Levels, AllFacts, AllFindings, StartPolicy)
  BY <1>1 DEF Published
<1> QED  BY <1>2, DocumentIs, EndIsEmittable


LEMMA RowsAtEnd ==
    ASSUME TypeOK, FromCalls, Published, NEW d \in document, NEW l \in Levels, NEW k \in Keys
    PROVE  d.rows[<<l, k>>] = Row(Owner[k], AllFacts[<<l, Owner[k]>>][1])
<1>1. d.rows = Rows(Levels, AllFacts)
  BY DocumentAtEnd
<1> QED  BY <1>1 DEF Rows

(* What the rows say and what the level says never contradict each other:  *)
(* an obligation that is blocked, or that counts as a failure, is in no    *)
(* level that passed.                                                      *)
THEOREM AccountingAgrees == Spec => []AccountingNeverContradictsVerdict
<1>1. TypeOK /\ FromCalls /\ Published => AccountingNeverContradictsVerdict
  <2> SUFFICES ASSUME TypeOK, FromCalls, Published,
                      NEW d \in document, NEW l \in Levels, NEW k \in Keys, Passed(d, l)
               PROVE  /\ d.rows[<<l, k>>].projection.state # "blocked_by_prerequisite"
                      /\ d.rows[<<l, k>>].counts # {TRUE}
    BY DEF AccountingNeverContradictsVerdict
  <2> DEFINE cell == <<l, Owner[k]>>
             fact == AllFacts[cell][1]
             row == d.rows[<<l, k>>]
             rule == Rule[<<Owner[k], fact.branch>>]
  <2>1. Finished /\ Tally(AllFindings, l, StartPolicy).failures = 0
    BY DocumentAtEnd DEF Passed
  <2>2. row = Row(Owner[k], fact)
    BY RowsAtEnd
  <2>3. /\ row.projection = RoleProjection(rule.role)
        /\ row.counts = IF rule.finding = {} THEN {} ELSE fact.counts
    <3> HIDE DEF fact, row
    <3> QED  BY <2>2 DEF Row
  <2>4. Owner[k] \in Modules
    BY KeysAre, ModulesAre DEF AllModules
  <2>5. CASE cell \in DOMAIN done /\ \E branch :
                /\ <<Owner[k], branch>> \in DOMAIN Rule
                /\ Declared(Rule[<<Owner[k], branch>>], k, l, done[cell].findings)
                /\ AllFacts[cell] = <<FactFor(k, l, branch, done[cell].findings)>>
    <3> DEFINE found == done[cell].findings
    <3>1. PICK branch : /\ Declared(Rule[<<Owner[k], branch>>], k, l, found)
                        /\ AllFacts[cell] = <<FactFor(k, l, branch, found)>>
      BY <2>5
    <3>2. fact = FactFor(k, l, branch, found) /\ fact.branch = branch
      BY <3>1, AloneInList DEF FactFor
    <3>3. \A p \in DOMAIN found : ~CountsAsLevelFailure(StartPolicy, found[p], l)
      BY <2>1, <2>4, <2>5, NothingCounts
    <3> HIDE DEF found, fact, row
    <3>4. Declared(rule, k, l, found)
      BY <3>1, <3>2
    <3>5. rule.role # "prerequisite"
      <4> SUFFICES ASSUME rule.role = "prerequisite" PROVE FALSE
        OBVIOUS
      <4>1. PICK c : /\ OnlyOne(Positions(found, c))
                     /\ \A p \in Positions(found, c) : CountsAsLevelFailure(StartPolicy, found[p], l)
        BY <3>4 DEF Declared, BlockedBy
      <4>2. PICK p : p \in Positions(found, c)
        BY <4>1 DEF OnlyOne
      <4> QED  BY <3>3, <4>1, <4>2 DEF Positions
    <3>6. rule.role \in Roles
      BY <3>4 DEF Declared
    <3>7. row.projection.state # "blocked_by_prerequisite"
      <4> HIDE DEF rule
      <4> QED  BY <2>3, <3>5, <3>6 DEF RoleProjection, Roles
    <3>8. rule.finding # {} => fact.counts # {TRUE}
      <4> SUFFICES ASSUME rule.finding # {} PROVE fact.counts # {TRUE}
        OBVIOUS
      <4>1. PICK p \in DOMAIN found : Positions(found, k) = {p}
        BY <3>4 DEF Declared
      <4>2. fact.counts = {CountsAsLevelFailure(StartPolicy, found[p], l)}
        BY <3>2, <4>1, FactForOne
      <4>3. CountsAsLevelFailure(StartPolicy, found[p], l) = FALSE
        BY <3>3, CountsIsBoolean
      <4> QED  BY <4>2, <4>3
    <3> QED
      <4> HIDE DEF rule
      <4>1. row.counts # {TRUE}
        BY <2>3, <3>8
      <4> QED  BY <3>7, <4>1 DEF row
  <2>6. CASE cell \notin DOMAIN done /\ Owner[k] = "TR-SCA" /\ AllFacts[cell] = <<IdleFact>>
    <3>1. fact = IdleFact /\ fact.branch = "level0_scheduler_nonexecution"
      BY <2>6, AloneInList DEF IdleFact
    <3>2. rule.role = "scheduler_nonexecution" /\ rule.finding = {}
      <4> HIDE DEF fact
      <4> QED  BY <2>6, <3>1, IdleRule
    <3>3. RoleProjection("scheduler_nonexecution").state = "not_attempted"
      BY DEF RoleProjection
    <3> HIDE DEF rule, row, fact
    <3>4. row.projection.state = "not_attempted" /\ row.counts = {}
      BY <2>3, <3>2, <3>3
    <3> QED  BY <3>4 DEF row
  <2> QED  BY <2>1, <2>5, <2>6, FactAtEnd
<1> QED  BY <1>1, RunsArePublished, PTL

(***************************************************************************)
(* What a checker returns when nothing it returns counts.                  *)
(***************************************************************************)
Clean(findings, level) ==
    \A p \in DOMAIN findings : ~CountsAsLevelFailure(StartPolicy, findings[p], level)

LEMMA SaidCounts ==
    ASSUME NEW code, NEW holds, NEW text, NEW level \in 0..2
    PROVE  /\ CountsAsLevelFailure(StartPolicy, Verdict(code, holds), level) <=> ~holds
           /\ CountsAsLevelFailure(StartPolicy, Fails(code, text), level)
           /\ ~CountsAsLevelFailure(StartPolicy, Skips(code), level)
  BY DEF CountsAsLevelFailure, Verdict, Fails, Skips, Says

LEMMA UnverifiedCounts ==
    ASSUME NEW finding, NEW level \in 0..2, finding.status = "unverified"
    PROVE  CountsAsLevelFailure(StartPolicy, finding, level)
             <=> level >= IF finding.code = "TR-POL-003" THEN 2 ELSE 1
<1>1. /\ DOMAIN StartPolicy.thresholds = {"TR-SIG-005", "TR-POL-003"}
      /\ StartPolicy.thresholds["TR-SIG-005"] = 1 /\ StartPolicy.thresholds["TR-POL-003"] = 2
      /\ StartPolicy.default = 1
  BY DEF StartPolicy, ShippedPolicy, PilotThresholds
<1> QED  BY <1>1 DEF CountsAsLevelFailure, UnverifiedFails

(* A list is clean if its members are. *)
LEMMA CleanList ==
    ASSUME NEW level
    PROVE  /\ \A a : Clean(<<a>>, level) => ~CountsAsLevelFailure(StartPolicy, a, level)
           /\ \A a, b : Clean(<<a, b>>, level) =>
                /\ ~CountsAsLevelFailure(StartPolicy, a, level)
                /\ ~CountsAsLevelFailure(StartPolicy, b, level)
           /\ \A a, b, c : Clean(<<a, b, c>>, level) =>
                /\ ~CountsAsLevelFailure(StartPolicy, a, level)
                /\ ~CountsAsLevelFailure(StartPolicy, b, level)
                /\ ~CountsAsLevelFailure(StartPolicy, c, level)
           /\ \A a, b, c, d : Clean(<<a, b, c, d>>, level) =>
                /\ ~CountsAsLevelFailure(StartPolicy, a, level)
                /\ ~CountsAsLevelFailure(StartPolicy, b, level)
                /\ ~CountsAsLevelFailure(StartPolicy, c, level)
                /\ ~CountsAsLevelFailure(StartPolicy, d, level)
           /\ \A a, b, c, d, x : Clean(<<a, b, c, d, x>>, level) =>
                /\ ~CountsAsLevelFailure(StartPolicy, a, level)
                /\ ~CountsAsLevelFailure(StartPolicy, b, level)
                /\ ~CountsAsLevelFailure(StartPolicy, c, level)
                /\ ~CountsAsLevelFailure(StartPolicy, d, level)
                /\ ~CountsAsLevelFailure(StartPolicy, x, level)
  BY DEF Clean

LEMMA CleanEnv ==
    ASSUME NEW r \in Record, NEW t, NEW level \in 0..2, Clean(EnvFindings(r, t), level)
    PROVE  /\ r.iat >= IatMin /\ r.iat <= t + Skew /\ t - r.iat <= MaxAge
           /\ r.private = "none"
           /\ r.eat_profile = "trace-v0.2" /\ r.subject = "uri"
           /\ r.jwk \notin {"absent", "no kty"}
<1> DEFINE a == Verdict("TR-ENV-001", r.eat_profile = "trace-v0.2")
           b == Verdict("TR-ENV-002", r.iat >= IatMin /\ r.iat <= t + Skew /\ t - r.iat <= MaxAge)
           c == Verdict("TR-ENV-003", r.subject = "uri")
           d == Verdict("TR-ENV-004", r.jwk \notin {"absent", "no kty"})
           x == Verdict("TR-ENV-005", r.private = "none")
<1>1. EnvFindings(r, t) = IF r.jwk = "absent" THEN <<a, b, c, d>> ELSE <<a, b, c, d, x>>
  BY EnvIs, Zenon
<1>2. r.jwk = "absent" => r.private = "none"
  BY DEF Record
<1>3. /\ ~CountsAsLevelFailure(StartPolicy, a, level)
      /\ ~CountsAsLevelFailure(StartPolicy, b, level)
      /\ ~CountsAsLevelFailure(StartPolicy, c, level)
      /\ ~CountsAsLevelFailure(StartPolicy, d, level)
      /\ r.jwk = "absent" \/ ~CountsAsLevelFailure(StartPolicy, x, level)
  <2> HIDE DEF a, b, c, d, x
  <2> QED  BY <1>1, CleanList
<1>4. r.iat >= IatMin /\ r.iat <= t + Skew /\ t - r.iat <= MaxAge
  BY <1>3, SaidCounts
<1>5. r.jwk = "absent" \/ r.private = "none"
  BY <1>3, SaidCounts
<1>6. r.eat_profile = "trace-v0.2" /\ r.subject = "uri"
  BY <1>3, SaidCounts
<1>7. r.jwk \notin {"absent", "no kty"}
  BY <1>3, SaidCounts
<1> QED  BY <1>2, <1>4, <1>5, <1>6, <1>7

Signed(r) == r.jwk = "Ed25519" /\ r.canonical /\ r.signature = "valid"

LEMMA CleanSig ==
    ASSUME NEW r \in Record, NEW level \in 0..2, Clean(SigFindings(r, level), level)
    PROVE  /\ Signed(r) \/ (level = 0 /\ r.format = "trace" /\ r.signature = "absent")
           /\ r.format = "trace" => r.private # "d"
<1>1. r.format \in {"trace", "cmcp-runtime"} /\ r.canonical \in BOOLEAN
  BY DEF Record
<1>2. CASE r.format = "cmcp-runtime"
  <2> DEFINE checked == Verdict("TR-SIG-001", r.canonical /\ r.signature = "valid")
  <2>1. SigFindings(r, level) = IF r.signature = "absent" THEN <<Fails("TR-SIG-001", "other")>>
                                ELSE IF r.jwk # "Ed25519" THEN <<Fails("TR-SIG-002", "other")>>
                                ELSE <<checked>>
    BY <1>2 DEF SigFindings, CmcpSigFindings
  <2>2. /\ r.signature # "absent" /\ r.jwk = "Ed25519"
        /\ ~CountsAsLevelFailure(StartPolicy, checked, level)
    <3> HIDE DEF checked
    <3> QED  BY <2>1, CleanList, SaidCounts
  <2>3. r.canonical /\ r.signature = "valid"
    BY <2>2, SaidCounts
  <2> QED  BY <1>2, <2>2, <2>3 DEF Signed
<1>3. CASE r.format = "trace"
  <2> DEFINE key == Verdict("TR-SIG-004", r.jwk \in {"Ed25519", "OKP without x", "other curve"})
             sig == Verdict("TR-SIG-005", r.jwk = "Ed25519" /\ r.canonical /\ r.signature = "valid")
  <2>1. SigFindings(r, level)
          = IF r.private = "d" THEN <<Fails("TR-SIG-004", "other"), Unverified("TR-SIG-005")>>
            ELSE <<key, IF r.signature # "absent" THEN sig
                        ELSE IF level >= 1 THEN Fails("TR-SIG-005", "other")
                        ELSE Unverified("TR-SIG-005")>>
    BY <1>3, Zenon DEF SigFindings
  <2>2. /\ r.private # "d" /\ ~CountsAsLevelFailure(StartPolicy, key, level)
        /\ r.signature # "absent" => ~CountsAsLevelFailure(StartPolicy, sig, level)
        /\ r.signature = "absent" => ~(level >= 1)
    <3> HIDE DEF key, sig
    <3> QED  BY <2>1, CleanList, SaidCounts
  <2>3. r.signature # "absent" => Signed(r)
    BY <2>2, SaidCounts DEF Signed
  <2>4. r.private # "d" /\ (r.signature = "absent" => level = 0)
    <3>1. ~(level >= 1) => level = 0
      OBVIOUS
    <3> HIDE DEF key, sig
    <3> QED  BY <2>2, <3>1, Zenon
  <2> HIDE DEF key, sig
  <2> QED  BY <1>3, <2>3, <2>4, Zenon
<1> QED  BY <1>1, <1>2, <1>3

LEMMA CleanSigKey ==
    ASSUME NEW r \in Record, NEW level \in 0..2, Clean(SigFindings(r, level), level)
    PROVE  r.jwk \in {"Ed25519", "OKP without x", "other curve"}
<1>1. CASE r.format = "trace"
  <2> DEFINE key == Verdict("TR-SIG-004", r.jwk \in {"Ed25519", "OKP without x", "other curve"})
             sig == Verdict("TR-SIG-005", r.jwk = "Ed25519" /\ r.canonical /\ r.signature = "valid")
  <2>1. SigFindings(r, level)
          = IF r.private = "d" THEN <<Fails("TR-SIG-004", "other"), Unverified("TR-SIG-005")>>
            ELSE <<key, IF r.signature # "absent" THEN sig
                        ELSE IF level >= 1 THEN Fails("TR-SIG-005", "other")
                        ELSE Unverified("TR-SIG-005")>>
    BY <1>1, Zenon DEF SigFindings
  <2>2. ~CountsAsLevelFailure(StartPolicy, key, level)
    <3> HIDE DEF key, sig
    <3> QED  BY <2>1, CleanList, SaidCounts
  <2> QED  BY <2>2, SaidCounts
<1>2. CASE r.format # "trace"
  <2>1. ~(r.format = "trace" /\ r.signature = "absent")
    BY <1>2
  <2>2. Signed(r)
    BY <2>1, CleanSig
  <2> QED  BY <2>2 DEF Signed
<1> QED  BY <1>1, <1>2

LEMMA CleanPol ==
    ASSUME NEW r \in Record, NEW opts, NEW answer \in Answers, NEW level \in 0..2,
           Clean(PolFindings(r, PolBranch(r, opts, answer)), level)
    PROVE  /\ r.policy = "object" /\ r.bundle_hash = "digest"
           /\ r.policy_uri \in {"absolute", "absent", "null"}
           /\ r.enforcement_mode = "valid"
           /\ PolBranch(r, opts, answer) # "resolved_mismatch"
           /\ level = 2 /\ AsksResolver(r, opts) => PolBranch(r, opts, answer) = "resolved_match"
<1> DEFINE b == PolBranch(r, opts, answer)
           bundle == IF r.bundle_hash = "digest" THEN Verdict("TR-POL-001", TRUE)
                     ELSE Fails("TR-POL-001", "bundle_hash must match")
           mode == Verdict("TR-POL-002", r.enforcement_mode = "valid")
           last == ResolutionFinding(b)
<1>1. /\ r.policy \in {"missing", "not object", "object"} /\ r.bundle_hash \in {"malformed", "digest"}
      /\ r.policy_uri \in {"absent", "null", "non string", "malformed", "absolute"}
  BY DEF Record
<1>2. /\ b \in DOMAIN PolBranches
      /\ b = "policy_missing" <=> r.policy = "missing"
      /\ b = "policy_not_object" <=> r.policy = "not object"
      /\ r.policy = "object" /\ r.policy_uri = "non string" => b = "policy_uri_non_string"
      /\ r.policy = "object" /\ r.policy_uri = "malformed" => b = "policy_uri_malformed"
      /\ AsksResolver(r, opts) => b \in {"resolver_exception", "resolver_non_bytes",
                                         "resolved_match", "resolved_mismatch"}
  BY <1>1, PolBranchIs DEF PolBranch, Answers, AsksResolver
<1> HIDE DEF b
<1>3. b \notin {"policy_missing", "policy_not_object"}
  <2> SUFFICES ASSUME b \in {"policy_missing", "policy_not_object"} PROVE FALSE
    OBVIOUS
  <2>1. PolFindings(r, b) = <<Fails("TR-POL-001", "policy field is missing")>>
    BY DEF PolFindings
  <2> QED  BY <2>1, CleanList, SaidCounts DEF b
<1>4. PolFindings(r, b) = <<bundle, mode, last>>
  BY <1>3 DEF PolFindings
<1>5. /\ ~CountsAsLevelFailure(StartPolicy, bundle, level)
      /\ ~CountsAsLevelFailure(StartPolicy, mode, level)
      /\ ~CountsAsLevelFailure(StartPolicy, last, level)
  <2> HIDE DEF bundle, mode, last
  <2> QED  BY <1>4, CleanList DEF b
<1>6. r.bundle_hash = "digest" /\ r.enforcement_mode = "valid"
  BY <1>5, SaidCounts
<1>7. last.code = "TR-POL-003" /\ PolBranches[b].statuses = {last.status}
  BY <1>2, <1>3 DEF PolBranches, ResolutionFinding, Says, Reports, Bare, Blocked
<1> HIDE DEF last, bundle, mode
<1>8. last.status # "fail"
  BY <1>5 DEF CountsAsLevelFailure
<1>9. b \notin {"policy_uri_non_string", "policy_uri_malformed", "resolved_mismatch"}
  <2> SUFFICES ASSUME b \in {"policy_uri_non_string", "policy_uri_malformed", "resolved_mismatch"}
               PROVE  last.status = "fail"
    BY <1>8
  <2> QED  BY DEF last, ResolutionFinding, Says
<1>10. level = 2 => b \notin {"resolver_exception", "resolver_non_bytes"}
  <2> SUFFICES ASSUME level = 2, b \in {"resolver_exception", "resolver_non_bytes"} PROVE FALSE
    OBVIOUS
  <2>1. last.status = "unverified"
    BY DEF last, ResolutionFinding, Says
  <2> QED  BY <1>5, <1>7, <2>1, UnverifiedCounts
<1> QED  BY <1>1, <1>2, <1>3, <1>6, <1>9, <1>10 DEF b

LEMMA CleanApr ==
    ASSUME NEW r, NEW t, NEW level \in 0..2, Clean(AprFindings(r, level, t), level)
    PROVE  /\ r.appraisal = "object" /\ r.verifier = "uri"
           /\ r.status # "unknown" /\ r.policy_ref \in {"absent", "uri"}
           /\ r.timestamp = NoTime \/ (r.timestamp # BadTime /\ r.timestamp <= t + Skew)
           /\ level >= 1 => r.status = "affirming"
<1> DEFINE status == Verdict("TR-APR-001", r.status # "unknown")
           verifier == Verdict("TR-APR-002", r.verifier = "uri")
           policy == IF r.policy_ref = "absent" THEN Skips("TR-APR-003")
                     ELSE Verdict("TR-APR-003", r.policy_ref = "uri")
           stamp == IF r.timestamp = NoTime THEN Skips("TR-APR-004")
                    ELSE Verdict("TR-APR-004",
                                 r.timestamp # BadTime /\ r.timestamp <= t + Skew)
           affirmed == IF level < 1 THEN Skips("TR-APR-005")
                       ELSE Verdict("TR-APR-005", r.status = "affirming")
<1>1. AprFindings(r, level, t) = IF r.appraisal # "object" THEN <<Fails("TR-APR-001", "other")>>
                                 ELSE <<status, verifier, policy, stamp, affirmed>>
  BY Zenon DEF AprFindings
<1>2. /\ r.appraisal = "object"
      /\ ~CountsAsLevelFailure(StartPolicy, status, level)
      /\ ~CountsAsLevelFailure(StartPolicy, verifier, level)
      /\ ~CountsAsLevelFailure(StartPolicy, policy, level)
      /\ ~CountsAsLevelFailure(StartPolicy, stamp, level)
      /\ ~CountsAsLevelFailure(StartPolicy, affirmed, level)
  <2> HIDE DEF status, verifier, policy, stamp, affirmed
  <2> QED  BY <1>1, CleanList, SaidCounts
<1>3. r.verifier = "uri" /\ r.status # "unknown"
  BY <1>2, SaidCounts
<1>a. r.policy_ref \in {"absent", "uri"}
  BY <1>2, SaidCounts
<1>4. ASSUME level >= 1 PROVE r.status = "affirming"
  <2>1. ~(level < 1)
    BY <1>4
  <2>2. affirmed = Verdict("TR-APR-005", r.status = "affirming")
    BY <2>1
  <2>3. ~CountsAsLevelFailure(StartPolicy, Verdict("TR-APR-005", r.status = "affirming"), level)
    <3> HIDE DEF affirmed
    <3> QED  BY <1>2, <2>2
  <2> QED  BY <2>3, SaidCounts
<1>b. ASSUME r.timestamp # NoTime PROVE r.timestamp # BadTime /\ r.timestamp <= t + Skew
  <2> DEFINE stamped == r.timestamp # BadTime /\ r.timestamp <= t + Skew
  <2>1. stamp = Verdict("TR-APR-004", stamped)
    BY <1>b
  <2> HIDE DEF stamp, stamped
  <2>2. stamped
    BY <1>2, <2>1, SaidCounts
  <2> QED  BY <2>2 DEF stamped
<1> QED  BY <1>2, <1>3, <1>a, <1>b, <1>4

LEMMA CleanRte ==
    ASSUME NEW r \in Record, NEW opts, NEW level \in 1..2, Clean(RteFindings(r, level, opts), level)
    PROVE  /\ r.runtime = "object" /\ r.platform = "tee"
           /\ r.nonce = opts.nonce /\ "absent" \notin {opts.nonce, r.nonce}
           /\ r.measurement # "malformed" /\ r.rim_uri \in {"absent", "https"}
<1> DEFINE a == Verdict("TR-RTE-001", \/ r.platform = "tee"
                                      \/ (r.platform = "software-only" /\ level = 0))
           b == Verdict("TR-RTE-002", r.measurement # "malformed")
           c == IF r.rim_uri = "absent" THEN Skips("TR-RTE-003")
                ELSE Verdict("TR-RTE-003", r.rim_uri = "https")
           bound == "absent" \notin {opts.nonce, r.nonce} /\ r.nonce = opts.nonce
           x == Verdict("TR-RTE-004", bound)
<1>1. RteFindings(r, level, opts)
        = IF r.runtime # "object" THEN <<Fails("TR-RTE-001", "other")>>
          ELSE IF level < 1 THEN <<a, b, c>> ELSE <<a, b, c, x>>
  BY RteIs, Zenon
<1>2. level \in 0..2 /\ ~(level < 1) /\ level # 0
  OBVIOUS
<1>3. /\ r.runtime = "object"
      /\ ~CountsAsLevelFailure(StartPolicy, a, level)
      /\ ~CountsAsLevelFailure(StartPolicy, b, level)
      /\ ~CountsAsLevelFailure(StartPolicy, c, level)
      /\ ~CountsAsLevelFailure(StartPolicy, x, level)
  <2> HIDE DEF a, b, c, x, bound
  <2> QED  BY <1>1, <1>2, CleanList, SaidCounts
<1>4. r.platform = "tee" /\ r.measurement # "malformed"
  BY <1>2, <1>3, SaidCounts
<1>5. r.nonce = opts.nonce /\ "absent" \notin {opts.nonce, r.nonce}
  <2>1. ~CountsAsLevelFailure(StartPolicy, Verdict("TR-RTE-004", bound), level)
    BY <1>3
  <2> HIDE DEF bound
  <2>2. bound
    BY <2>1, SaidCounts
  <2> QED  BY <2>2 DEF bound
<1>6. r.rim_uri \in {"absent", "https"}
  <2> SUFFICES ASSUME r.rim_uri # "absent" PROVE r.rim_uri = "https"
    OBVIOUS
  <2>1. ~CountsAsLevelFailure(StartPolicy, Verdict("TR-RTE-003", r.rim_uri = "https"), level)
    BY <1>3
  <2> QED  BY <1>2, <2>1, SaidCounts
<1> QED  BY <1>3, <1>4, <1>5, <1>6

LEMMA CleanSca ==
    ASSUME NEW r \in Record, NEW level \in 0..2, Clean(ScaFindings(r, ScaBranch(r)), level)
    PROVE  /\ r.build_provenance = "object" /\ r.digest = "digest" /\ r.slsa_level = "valid"
           /\ ScaBranch(r) = "digest_valid"
<1> DEFINE b == ScaBranch(r)
           slsa == Verdict("TR-SCA-001", r.slsa_level = "valid")
           digest == Verdict("TR-SCA-002", b = "digest_valid")
<1>1. /\ b \in {"build_provenance_missing", "build_provenance_not_object", "digest_valid",
                "digest_invalid"}
      /\ b = "digest_valid" => r.build_provenance = "object" /\ r.digest = "digest"
  <2>1. r.build_provenance \in {"missing", "not object", "object"}
    BY DEF Record
  <2> QED  BY <2>1 DEF ScaBranch
<1> HIDE DEF b
<1>2. CASE b \in {"build_provenance_missing", "build_provenance_not_object"}
  <2>1. \E text : ScaFindings(r, b) = <<Fails("TR-SCA-001", text)>>
    BY <1>2 DEF ScaFindings
  <2> QED  BY <2>1, CleanList, SaidCounts DEF b
<1>3. CASE b \in {"digest_valid", "digest_invalid"}
  <2>1. ScaFindings(r, b) = <<slsa, digest>>
    BY <1>3 DEF ScaFindings
  <2>2. /\ ~CountsAsLevelFailure(StartPolicy, slsa, level)
        /\ ~CountsAsLevelFailure(StartPolicy, digest, level)
    <3> HIDE DEF slsa, digest
    <3> QED  BY <2>1, CleanList DEF b
  <2>3. b = "digest_valid" /\ r.slsa_level = "valid"
    BY <2>2, SaidCounts
  <2> QED  BY <1>1, <2>3 DEF b
<1> QED  BY <1>1, <1>2, <1>3

LEMMA CleanTxn ==
    ASSUME NEW r, NEW level \in 0..2, Clean(TxnFindings(r), level)
    PROVE  /\ r.tool_transcript = "object" /\ r.hash = "digest"
           /\ r.call_count \in {"absent", "natural"}
<1> DEFINE hash == Verdict("TR-TXN-001", r.hash = "digest")
           count == IF r.call_count = "absent" THEN Skips("TR-TXN-002")
                    ELSE Verdict("TR-TXN-002", r.call_count = "natural")
<1>1. TxnFindings(r) = IF r.tool_transcript # "object" THEN <<Fails("TR-TXN-001", "other")>>
                       ELSE <<hash, count>>
  BY Zenon DEF TxnFindings
<1>2. /\ r.tool_transcript = "object" /\ ~CountsAsLevelFailure(StartPolicy, hash, level)
      /\ ~CountsAsLevelFailure(StartPolicy, count, level)
  <2> HIDE DEF hash, count
  <2> QED  BY <1>1, CleanList, SaidCounts
<1>3. r.call_count \in {"absent", "natural"}
  BY <1>2, SaidCounts
<1> QED  BY <1>2, <1>3, SaidCounts

LEMMA CleanAnc ==
    ASSUME NEW r, NEW opts, NEW level \in 0..2, Clean(AncFindings(r, opts), level)
    PROVE  r.transparency = "https" /\ opts.receipt = "proves"
<1> DEFINE uri == Verdict("TR-ANC-001", TRUE)
           proof == Verdict("TR-ANC-002", opts.receipt = "proves")
<1>1. AncFindings(r, opts) = IF r.transparency # "https" THEN <<Fails("TR-ANC-001", "other")>>
                             ELSE <<uri, proof>>
  BY Zenon DEF AncFindings
<1>2. r.transparency = "https" /\ ~CountsAsLevelFailure(StartPolicy, proof, level)
  <2> HIDE DEF uri, proof
  <2> QED  BY <1>1, CleanList, SaidCounts
<1> QED  BY <1>2, SaidCounts

(* A level that passed, checker by checker. *)
LEMMA PassedIsClean ==
    ASSUME TypeOK, FromCalls, Published, NEW d \in document, NEW l \in Levels, Passed(d, l),
           NEW m \in AllModules, <<l, m>> \in Cells
    PROVE  \E t \in StartTime..now, answer \in Answers :
             /\ done[<<l, m>>] = Result(<<l, m>>, t, answer)
             /\ Clean(FindingsOf(m, record, options, l, t, answer), l)
<1>1. Finished /\ Tally(AllFindings, l, StartPolicy).failures = 0
  BY DocumentAtEnd DEF Passed
<1>2. <<l, m>> \in DOMAIN done /\ m \in Modules
  BY <1>1, ModulesAre DEF Finished
<1>3. PICK t \in StartTime..now, answer \in Answers : done[<<l, m>>] = Result(<<l, m>>, t, answer)
  BY <1>2 DEF FromCalls
<1>4. done[<<l, m>>].findings = FindingsOf(m, record, options, l, t, answer)
  BY <1>3 DEF Result
<1>5. Clean(done[<<l, m>>].findings, l)
  BY <1>1, <1>2, NothingCounts DEF Clean
<1> QED  BY <1>3, <1>4, <1>5

(* What a sealed document says about a passed level. *)
LEMMA EvidenceAtEnd == TypeOK /\ FromCalls /\ Published => PassingMeansEvidence
<1> SUFFICES ASSUME TypeOK, FromCalls, Published,
                    NEW d \in document, NEW level \in Levels, Passed(d, level)
             PROVE  /\ \A l \in 0..level : LevelEvidence(l)
                    /\ d.rows[<<level, "TR-POL-003">>].branch # "resolved_mismatch"
                    /\ level = 2 /\ AsksResolver(record, options) =>
                         d.rows[<<2, "TR-POL-003">>].branch = "resolved_match"
  BY Zenon DEF PassingMeansEvidence
<1>1. record \in Record /\ level \in 0..2 /\ now \in Int /\ StartTime..now \subseteq Int
  BY LevelsAre, PilotRunAssumption DEF TypeOK
<1>2. /\ "TR-ENV" \in AllModules /\ "TR-SIG" \in AllModules /\ "TR-POL" \in AllModules
      /\ "TR-APR" \in AllModules /\ "TR-RTE" \in AllModules /\ "TR-SCA" \in AllModules
      /\ "TR-TXN" \in AllModules /\ "TR-ANC" \in AllModules
  BY DEF AllModules
<1>3. /\ record.eat_profile = "trace-v0.2" /\ record.subject = "uri"
      /\ record.iat >= IatMin /\ Fresh(record.iat) /\ record.private = "none"
  <2>1. PICK t \in StartTime..now, answer \in Answers :
          Clean(FindingsOf("TR-ENV", record, options, level, t, answer), level)
    BY <1>2, CellsAre, PassedIsClean
  <2>2. FindingsOf("TR-ENV", record, options, level, t, answer) = EnvFindings(record, t)
    BY DEF FindingsOf
  <2>3. /\ record.iat >= IatMin /\ record.iat <= t + Skew /\ t - record.iat <= MaxAge
        /\ record.private = "none" /\ record.eat_profile = "trace-v0.2" /\ record.subject = "uri"
    BY <1>1, <2>1, <2>2, CleanEnv
  <2> QED  BY <2>3 DEF Fresh
<1>4. /\ SignatureChecked \/ (record.format = "trace" /\ record.signature = "absent")
      /\ level >= 1 => SignatureChecked
      /\ record.jwk \in {"Ed25519", "OKP without x", "other curve"}
  <2>1. PICK t \in StartTime..now, answer \in Answers :
          Clean(FindingsOf("TR-SIG", record, options, level, t, answer), level)
    BY <1>2, CellsAre, PassedIsClean
  <2>2. FindingsOf("TR-SIG", record, options, level, t, answer) = SigFindings(record, level)
    BY DEF FindingsOf
  <2>3. Signed(record) \/ (level = 0 /\ record.format = "trace" /\ record.signature = "absent")
    BY <1>1, <2>1, <2>2, CleanSig
  <2>4. record.jwk \in {"Ed25519", "OKP without x", "other curve"}
    BY <1>1, <2>1, <2>2, CleanSigKey
  <2>5. Signed(record) <=> SignatureChecked
    BY DEF Signed, SignatureChecked
  <2>6. level >= 1 => SignatureChecked
    BY <2>3, <2>5
  <2> QED  BY <2>3, <2>4, <2>5, <2>6
<1>5. /\ record.policy = "object" /\ record.bundle_hash = "digest"
      /\ record.policy_uri \in {"absolute", "absent", "null"}
      /\ record.enforcement_mode = "valid"
      /\ d.rows[<<level, "TR-POL-003">>].branch # "resolved_mismatch"
      /\ level = 2 /\ AsksResolver(record, options) =>
           d.rows[<<2, "TR-POL-003">>].branch = "resolved_match"
  <2>1. PICK t \in StartTime..now, answer \in Answers :
          /\ done[<<level, "TR-POL">>] = Result(<<level, "TR-POL">>, t, answer)
          /\ Clean(FindingsOf("TR-POL", record, options, level, t, answer), level)
    BY <1>2, CellsAre, PassedIsClean
  <2> DEFINE b == PolBranch(record, options, answer)
  <2>2. FindingsOf("TR-POL", record, options, level, t, answer) = PolFindings(record, b)
    BY DEF FindingsOf
  <2>3. /\ record.policy = "object" /\ record.bundle_hash = "digest"
        /\ record.policy_uri \in {"absolute", "absent", "null"}
        /\ record.enforcement_mode = "valid" /\ b # "resolved_mismatch"
        /\ level = 2 /\ AsksResolver(record, options) => b = "resolved_match"
    BY <1>1, <2>1, <2>2, CleanPol
  <2>4. d.rows[<<level, "TR-POL-003">>].branch = b
    <3> DEFINE cell == <<level, "TR-POL">>
    <3>1. "TR-POL-003" \in Keys /\ Owner["TR-POL-003"] = "TR-POL"
      BY PilotRunTables DEF PilotOwner, PilotKeys
    <3>2. cell \in DOMAIN done /\ "TR-POL" \in Modules
      BY <1>2, CellsAre, DocumentAtEnd, ModulesAre DEF Finished
    <3>3. AllFacts[cell] = done[cell].facts
      BY <3>2 DEF AllFacts
    <3>4. b \in DOMAIN PolBranches /\ Observed("TR-POL", record, options, answer) = PolObserved(b)
      BY PolBranchIs DEF Observed
    <3>5. done[cell].facts = FactsOf(level, PolObserved(b))
      <4> HIDE DEF b
      <4>1. Result(cell, t, answer)
              = [facts |-> FactsOf(level, PolObserved(b)), findings |-> PolFindings(record, b)]
        BY <2>2, <3>4 DEF Result
      <4> QED  BY <2>1, <4>1
    <3>6. done[cell].facts = <<FactFor("TR-POL-003", level, b, PolFindings(record, b))>>
      <4> HIDE DEF b, cell
      <4> QED  BY <3>4, <3>5, FactsAre, PolObserves
    <3>7. AllFacts[cell][1].branch = b
      <4> HIDE DEF b, cell
      <4> QED  BY <3>3, <3>6, AloneInList DEF FactFor
    <3>8. d.rows[<<level, "TR-POL-003">>] = Row("TR-POL", AllFacts[cell][1])
      BY <3>1, RowsAtEnd
    <3> QED
      <4> HIDE DEF b, cell
      <4> QED  BY <3>7, <3>8 DEF Row
  <2> QED  BY <2>3, <2>4
<1>6. /\ record.appraisal = "object" /\ record.verifier = "uri"
      /\ record.status # "unknown" /\ record.policy_ref \in {"absent", "uri"}
      /\ \/ record.timestamp = NoTime
         \/ record.timestamp # BadTime /\ record.timestamp <= now + Skew
      /\ level >= 1 => record.status = "affirming"
  <2>1. PICK t \in StartTime..now, answer \in Answers :
          Clean(FindingsOf("TR-APR", record, options, level, t, answer), level)
    BY <1>2, CellsAre, PassedIsClean
  <2>2. FindingsOf("TR-APR", record, options, level, t, answer) = AprFindings(record, level, t)
    BY DEF FindingsOf
  <2>3. /\ record.appraisal = "object" /\ record.verifier = "uri"
        /\ record.status # "unknown" /\ record.policy_ref \in {"absent", "uri"}
        /\ \/ record.timestamp = NoTime
           \/ record.timestamp # BadTime /\ record.timestamp <= t + Skew
        /\ level >= 1 => record.status = "affirming"
    BY <1>1, <2>1, <2>2, CleanApr
  <2>a. record.timestamp \in Int
    BY <1>1 DEF Record
  <2>b. StartTime \in Int /\ Skew \in Int
    BY PilotRunAssumption
  <2>4. record.timestamp \in Int /\ t \in Int /\ t <= now /\ Skew \in Int
    BY <1>1, <2>a, <2>b
  <2>5. record.timestamp <= t + Skew => record.timestamp <= now + Skew
    BY <1>1, <2>4
  <2> QED  BY <2>3, <2>5
<1>7. ASSUME level >= 1
      PROVE  /\ record.runtime = "object" /\ record.platform = "tee"
             /\ record.measurement # "malformed" /\ record.rim_uri \in {"absent", "https"}
             /\ record.nonce # "absent" /\ record.nonce = options.nonce
             /\ record.build_provenance = "object"
             /\ record.slsa_level = "valid" /\ record.digest = "digest"
  <2>1. PICK t \in StartTime..now, answer \in Answers :
          Clean(FindingsOf("TR-RTE", record, options, level, t, answer), level)
    BY <1>2, <1>7, CellsAre, PassedIsClean
  <2>2. FindingsOf("TR-RTE", record, options, level, t, answer)
          = RteFindings(record, level, options)
    BY DEF FindingsOf
  <2>3. level \in 1..2
    BY <1>1, <1>7
  <2>4. /\ record.runtime = "object" /\ record.platform = "tee"
        /\ record.measurement # "malformed" /\ record.rim_uri \in {"absent", "https"}
        /\ record.nonce # "absent" /\ record.nonce = options.nonce
    BY <1>1, <2>1, <2>2, <2>3, CleanRte
  <2>5. PICK t2 \in StartTime..now, answer2 \in Answers :
          Clean(FindingsOf("TR-SCA", record, options, level, t2, answer2), level)
    BY <1>2, <1>7, CellsAre, PassedIsClean
  <2>6. FindingsOf("TR-SCA", record, options, level, t2, answer2)
          = ScaFindings(record, ScaBranch(record))
    BY DEF FindingsOf
  <2>7. /\ record.build_provenance = "object"
        /\ record.slsa_level = "valid" /\ record.digest = "digest"
    BY <1>1, <2>5, <2>6, CleanSca
  <2> QED  BY <2>4, <2>7
<1>8. ASSUME level = 2
      PROVE  /\ options.receipt = "proves" /\ record.transparency = "https"
             /\ record.tool_transcript = "object" /\ record.hash = "digest"
             /\ record.call_count \in {"absent", "natural"}
  <2>1. PICK t \in StartTime..now, answer \in Answers :
          Clean(FindingsOf("TR-TXN", record, options, level, t, answer), level)
    BY <1>2, <1>8, CellsAre, PassedIsClean
  <2>2. FindingsOf("TR-TXN", record, options, level, t, answer) = TxnFindings(record)
    BY DEF FindingsOf
  <2>3. /\ record.tool_transcript = "object" /\ record.hash = "digest"
        /\ record.call_count \in {"absent", "natural"}
    BY <1>1, <2>1, <2>2, CleanTxn
  <2>4. PICK t2 \in StartTime..now, answer2 \in Answers :
          Clean(FindingsOf("TR-ANC", record, options, level, t2, answer2), level)
    BY <1>2, <1>8, CellsAre, PassedIsClean
  <2>5. FindingsOf("TR-ANC", record, options, level, t2, answer2) = AncFindings(record, options)
    BY DEF FindingsOf
  <2> QED  BY <1>1, <2>3, <2>4, <2>5, CleanAnc
<1>a. LevelZeroEvidence
  BY <1>3, <1>4, <1>5, <1>6, Zenon DEF LevelZeroEvidence
<1>b. level >= 1 => LevelOneEvidence
  BY <1>4, <1>6, <1>7 DEF LevelOneEvidence
<1>c. level = 2 => LevelTwoEvidence
  BY <1>8 DEF LevelTwoEvidence
<1>9. LevelEvidence(0)
  BY <1>a DEF LevelEvidence
<1>10. level >= 1 => LevelEvidence(1)
  BY <1>b DEF LevelEvidence
<1>11. level = 2 => LevelEvidence(2)
  BY <1>c DEF LevelEvidence
<1>12. ASSUME NEW l \in 0..level
       PROVE  l = 0 \/ (l = 1 /\ level >= 1) \/ (l = 2 /\ level = 2)
  BY <1>1
<1>13. \A l \in 0..level : LevelEvidence(l)
  BY <1>9, <1>10, <1>11, <1>12
<1> QED  BY <1>5, <1>13

(* A passed level means all the evidence that the checks listed in         *)
(* docs/levels.md ask for, at it and below it, whatever the clock and the  *)
(* resolver did in between; a bundle that was fetched was not another than *)
(* the declared one, and at Level 2 one that could be asked for was        *)
(* fetched.                                                                *)
THEOREM PassingIsEvidence == Spec => []PassingMeansEvidence
  BY EvidenceAtEnd, RunsArePublished, PTL

(* The clock may also run on when the run has ended. *)
LEMMA ClockRunsOn ==
    ASSUME TypeOK, FromCalls, Published, now' \in StartTime..MaxTime, now <= now',
           UNCHANGED <<record, options, done, outcome, document>>
    PROVE  TypeOK' /\ FromCalls' /\ Published'
<1>1. TypeOK'
  BY DEF TypeOK, Plan
<1>2. StartTime..now \subseteq StartTime..now'
  BY PilotRunAssumption DEF TypeOK
<1>3. \A cell, t, answer : Result(cell, t, answer)' = Result(cell, t, answer)
  BY DEF Result
<1>4. FromCalls'
  BY <1>2, <1>3 DEF FromCalls
<1>5. Published'
  BY DEF Published, Finished, AllFacts, AllFindings
<1> QED  BY <1>1, <1>4, <1>5

LEMMA NothingRanYet ==
    ASSUME record' \in Records, options' \in OptionSets, now' \in StartTime..MaxTime,
           done' = [cell \in {} |-> <<>>], outcome' = "running", document' = {}
    PROVE  TypeOK' /\ FromCalls' /\ Published'
<1>1. 0 \in 0..Len(Plan) /\ {Plan[i] : i \in 1..0} = {}
  BY PlanOnce
<1>2. DOMAIN done' = {}
  OBVIOUS
<1>3. TypeOK'
  BY <1>1, <1>2 DEF TypeOK, Plan
<1> QED  BY <1>2, <1>3 DEF FromCalls, Published

(* A level passed if nothing that any of its checkers returned counts. *)
LEMMA PassedIffClean ==
    ASSUME TypeOK, FromCalls, Published, NEW d \in document, NEW l \in Levels
    PROVE  Passed(d, l) <=> \A m \in AllModules :
                              <<l, m>> \in Cells => Clean(done[<<l, m>>].findings, l)
<1>1. Finished /\ (Passed(d, l) <=> Tally(AllFindings, l, StartPolicy).failures = 0)
  BY DocumentAtEnd DEF Passed
<1>2. ASSUME Passed(d, l), NEW m \in AllModules, <<l, m>> \in Cells
      PROVE  Clean(done[<<l, m>>].findings, l)
  <2>1. <<l, m>> \in DOMAIN done /\ m \in Modules
    BY <1>1, <1>2, ModulesAre DEF Finished
  <2> QED  BY <1>1, <1>2, <2>1, NothingCounts DEF Clean
<1>3. ASSUME \A m \in AllModules : <<l, m>> \in Cells => Clean(done[<<l, m>>].findings, l)
      PROVE  Passed(d, l)
  <2> DEFINE at(f) == AllFindings[<<l, f[1]>>][f[2]]
             failing == {f \in FindingsAt(AllFindings, l) :
                           CountsAsLevelFailure(StartPolicy, at(f), l)}
  <2>1. ASSUME NEW f \in FindingsAt(AllFindings, l)
        PROVE  ~CountsAsLevelFailure(StartPolicy, at(f), l)
    <3>1. PICK m \in Modules : /\ <<l, m>> \in DOMAIN done
                               /\ \E p \in DOMAIN done[<<l, m>>].findings : f = <<m, p>>
      BY FindingsAtIs
    <3>2. PICK p \in DOMAIN done[<<l, m>>].findings : f = <<m, p>>
      BY <3>1
    <3>3. at(f) = done[<<l, m>>].findings[p]
      BY <3>1, <3>2 DEF AllFindings
    <3>4. Clean(done[<<l, m>>].findings, l)
      BY <1>1, <1>3, <3>1, ModulesAre DEF Finished
    <3> QED  BY <3>2, <3>3, <3>4 DEF Clean
  <2>2. failing = {}
    BY <2>1
  <2>3. Tally(AllFindings, l, StartPolicy).failures = Cardinality(failing)
    BY TallyFailures
  <2>4. Cardinality(failing) = 0
    <3> HIDE DEF failing
    <3> QED  BY <2>2, FS_EmptySet
  <2> QED  BY <1>1, <2>3, <2>4
<1> QED  BY <1>2, <1>3

(* The modules of a level, as its table lists them. *)
LEMMA LevelScheduled ==
    ASSUME NEW l \in Levels
    PROVE  /\ DOMAIN LevelModules[l + 1] = 1..Size(l)
           /\ \A i \in 1..Size(l) : /\ LevelModules[l + 1][i] \in AllModules
                                    /\ <<l, LevelModules[l + 1][i]>> \in Cells
           /\ \A m \in AllModules : <<l, m>> \in Cells =>
                \E i \in 1..Size(l) : LevelModules[l + 1][i] = m
<1>1. l \in 0..2
  BY LevelsAre
<1>2. DOMAIN LevelModules[l + 1] = 1..Size(l)
  BY <1>1, LevelPrefixes
<1>3. /\ Size(l) \in 1..8
      /\ \A i \in 1..Size(l) : LevelModules[l + 1][i] = LevelModules[3][i]
  BY <1>1, LevelPrefixes
<1>4. ASSUME NEW i \in 1..Size(l)
      PROVE  LevelModules[l + 1][i] \in AllModules /\ <<l, LevelModules[l + 1][i]>> \in Cells
  <2>1. i \in 1..8 /\ i <= Size(l)
    BY <1>3
  <2>2. LevelModules[3][i] \in AllModules /\ Place[LevelModules[3][i]] = i
    BY <2>1, Places
  <2> QED  BY <1>3, <2>1, <2>2 DEF Cells
<1>5. ASSUME NEW m \in AllModules, <<l, m>> \in Cells
      PROVE  \E i \in 1..Size(l) : LevelModules[l + 1][i] = m
  <2>1. Place[m] \in 1..8 /\ LevelModules[3][Place[m]] = m
    BY Places
  <2>2. Place[m] <= Size(l)
    BY <1>5 DEF Cells
  <2>3. Place[m] \in 1..Size(l)
    BY <1>3, <2>1, <2>2
  <2> QED  BY <1>3, <2>1, <2>3
<1> QED  BY <1>2, <1>4, <1>5

(***************************************************************************)
(* What passes a higher level counts at a lower one only by what the       *)
(* levels read from outside the record.                                    *)
(***************************************************************************)
World == {"TR-ENV-002", "TR-APR-004", "TR-POL-003"}

Excused(finding, level) ==
    CountsAsLevelFailure(StartPolicy, finding, level) => finding.code \in World

LEMMA SaidExcused ==
    ASSUME NEW code, NEW holds, NEW level
    PROVE  /\ holds => Excused(Verdict(code, holds), level)
           /\ code \in World => Excused(Verdict(code, holds), level)
           /\ Excused(Skips(code), level)
  BY DEF Excused, CountsAsLevelFailure, Verdict, Skips, Says

LEMMA ExcusedList ==
    ASSUME NEW level
    PROVE  /\ \A a : Excused(a, level) =>
                \A p \in DOMAIN <<a>> : Excused(<<a>>[p], level)
           /\ \A a, b : Excused(a, level) /\ Excused(b, level) =>
                \A p \in DOMAIN <<a, b>> : Excused(<<a, b>>[p], level)
           /\ \A a, b, c : Excused(a, level) /\ Excused(b, level) /\ Excused(c, level) =>
                \A p \in DOMAIN <<a, b, c>> : Excused(<<a, b, c>>[p], level)
           /\ \A a, b, c, d :
                Excused(a, level) /\ Excused(b, level) /\ Excused(c, level) /\ Excused(d, level) =>
                \A p \in DOMAIN <<a, b, c, d>> : Excused(<<a, b, c, d>>[p], level)
           /\ \A a, b, c, d, x :
                /\ Excused(a, level) /\ Excused(b, level) /\ Excused(c, level)
                /\ Excused(d, level) /\ Excused(x, level)
                => \A p \in DOMAIN <<a, b, c, d, x>> : Excused(<<a, b, c, d, x>>[p], level)
  OBVIOUS

AllExcused(findings, level) == \A p \in DOMAIN findings : Excused(findings[p], level)

LEMMA EnvExcused ==
    ASSUME NEW r, NEW t, NEW level, r.eat_profile = "trace-v0.2", r.subject = "uri",
           r.jwk \notin {"absent", "no kty"}, r.private = "none"
    PROVE  AllExcused(EnvFindings(r, t), level)
<1> DEFINE a == Verdict("TR-ENV-001", r.eat_profile = "trace-v0.2")
           b == Verdict("TR-ENV-002", r.iat >= IatMin /\ r.iat <= t + Skew /\ t - r.iat <= MaxAge)
           c == Verdict("TR-ENV-003", r.subject = "uri")
           d == Verdict("TR-ENV-004", r.jwk \notin {"absent", "no kty"})
           x == Verdict("TR-ENV-005", r.private = "none")
<1>1. EnvFindings(r, t) = IF r.jwk = "absent" THEN <<a, b, c, d>> ELSE <<a, b, c, d, x>>
  BY EnvIs, Zenon
<1>2. Excused(a, level)
  BY SaidExcused
<1>3. Excused(b, level)
  <2>1. "TR-ENV-002" \in World
    BY DEF World
  <2> QED  BY <2>1, SaidExcused
<1>4. Excused(c, level)
  BY SaidExcused
<1>5. Excused(d, level)
  BY SaidExcused
<1>6. Excused(x, level)
  BY SaidExcused
<1> QED
  <2> HIDE DEF a, b, c, d, x
  <2> QED  BY <1>1, <1>2, <1>3, <1>4, <1>5, <1>6, ExcusedList DEF AllExcused

LEMMA SigExcused ==
    ASSUME NEW r \in Record, NEW level, Signed(r), r.format = "trace" => r.private # "d"
    PROVE  AllExcused(SigFindings(r, level), level)
<1>1. /\ r.format \in {"trace", "cmcp-runtime"} /\ r.signature # "absent" /\ r.jwk = "Ed25519"
      /\ r.canonical /\ r.signature = "valid"
  BY DEF Record, Signed
<1>2. CASE r.format = "cmcp-runtime"
  <2> DEFINE checked == Verdict("TR-SIG-001", r.canonical /\ r.signature = "valid")
  <2>1. SigFindings(r, level) = <<checked>>
    BY <1>1, <1>2 DEF SigFindings, CmcpSigFindings
  <2>2. Excused(checked, level)
    BY <1>1, SaidExcused
  <2> HIDE DEF checked
  <2> QED  BY <2>1, <2>2, ExcusedList DEF AllExcused
<1>3. CASE r.format = "trace"
  <2> DEFINE key == Verdict("TR-SIG-004", r.jwk \in {"Ed25519", "OKP without x", "other curve"})
             sig == Verdict("TR-SIG-005", r.jwk = "Ed25519" /\ r.canonical /\ r.signature = "valid")
  <2>1. SigFindings(r, level)
          = IF r.private = "d" THEN <<Fails("TR-SIG-004", "other"), Unverified("TR-SIG-005")>>
            ELSE <<key, IF r.signature # "absent" THEN sig
                        ELSE IF level >= 1 THEN Fails("TR-SIG-005", "other")
                        ELSE Unverified("TR-SIG-005")>>
    BY <1>3, Zenon DEF SigFindings
  <2>2. Excused(key, level)
    BY <1>1, SaidExcused
  <2>3. Excused(sig, level)
    BY <1>1, SaidExcused
  <2> HIDE DEF key, sig
  <2>4. SigFindings(r, level) = <<key, sig>>
    BY <1>1, <1>3, <2>1
  <2> QED  BY <2>2, <2>3, <2>4, ExcusedList DEF AllExcused
<1> QED  BY <1>1, <1>2, <1>3

LEMMA PolExcused ==
    ASSUME NEW r, NEW opts, NEW answer \in Answers, NEW level, r.policy = "object",
           r.bundle_hash = "digest", r.enforcement_mode = "valid"
    PROVE  AllExcused(PolFindings(r, PolBranch(r, opts, answer)), level)
<1> DEFINE b == PolBranch(r, opts, answer)
           bundle == Verdict("TR-POL-001", TRUE)
           mode == Verdict("TR-POL-002", r.enforcement_mode = "valid")
           last == ResolutionFinding(b)
<1>1. b \notin {"policy_missing", "policy_not_object"}
  BY DEF PolBranch, Answers
<1> HIDE DEF b
<1>2. PolFindings(r, b) = <<bundle, mode, last>>
  BY <1>1 DEF PolFindings
<1>3. Excused(bundle, level)
  BY SaidExcused
<1>4. Excused(mode, level)
  BY SaidExcused
<1>5. Excused(last, level)
  <2>1. last.code = "TR-POL-003"
    BY DEF ResolutionFinding, Says
  <2> QED  BY <2>1 DEF Excused, World
<1> HIDE DEF bundle, mode, last
<1>6. AllExcused(PolFindings(r, b), level)
  BY <1>2, <1>3, <1>4, <1>5, ExcusedList DEF AllExcused
<1> QED  BY <1>6 DEF b

LEMMA AprExcused ==
    ASSUME NEW r, NEW t, NEW level, r.appraisal = "object", r.verifier = "uri",
           r.status = "affirming", r.policy_ref \in {"absent", "uri"}
    PROVE  AllExcused(AprFindings(r, level, t), level)
<1> DEFINE status == Verdict("TR-APR-001", r.status # "unknown")
           verifier == Verdict("TR-APR-002", r.verifier = "uri")
           policy == IF r.policy_ref = "absent" THEN Skips("TR-APR-003")
                     ELSE Verdict("TR-APR-003", r.policy_ref = "uri")
           judged == Verdict("TR-APR-004", r.timestamp # BadTime /\ r.timestamp <= t + Skew)
           stamp == IF r.timestamp = NoTime THEN Skips("TR-APR-004") ELSE judged
           affirmed == IF level < 1 THEN Skips("TR-APR-005")
                       ELSE Verdict("TR-APR-005", r.status = "affirming")
<1>1. AprFindings(r, level, t) = IF r.appraisal # "object" THEN <<Fails("TR-APR-001", "other")>>
                                 ELSE <<status, verifier, policy, stamp, affirmed>>
  BY Zenon DEF AprFindings
<1>2. Excused(status, level)
  BY SaidExcused
<1>3. Excused(verifier, level)
  BY SaidExcused
<1>4. Excused(policy, level)
  <2>1. Excused(Skips("TR-APR-003"), level)
    BY SaidExcused
  <2>2. r.policy_ref = "uri" => Excused(Verdict("TR-APR-003", r.policy_ref = "uri"), level)
    BY SaidExcused
  <2> QED  BY <2>1, <2>2
<1>5. Excused(stamp, level)
  <2>1. Excused(Skips("TR-APR-004"), level)
    BY SaidExcused
  <2>2. "TR-APR-004" \in World
    BY DEF World
  <2>3. Excused(judged, level)
    BY <2>2, SaidExcused
  <2> HIDE DEF judged
  <2> QED  BY <2>1, <2>3
<1>6. Excused(affirmed, level)
  <2>1. Excused(Skips("TR-APR-005"), level)
    BY SaidExcused
  <2>2. Excused(Verdict("TR-APR-005", r.status = "affirming"), level)
    BY SaidExcused
  <2> QED  BY <2>1, <2>2
<1> QED
  <2> HIDE DEF status, verifier, policy, stamp, affirmed
  <2> QED  BY <1>1, <1>2, <1>3, <1>4, <1>5, <1>6, ExcusedList DEF AllExcused

LEMMA RteExcused ==
    ASSUME NEW r, NEW opts, NEW level, r.runtime = "object", r.platform = "tee",
           r.nonce = opts.nonce, "absent" \notin {opts.nonce, r.nonce},
           r.measurement # "malformed", r.rim_uri \in {"absent", "https"}
    PROVE  AllExcused(RteFindings(r, level, opts), level)
<1> DEFINE a == Verdict("TR-RTE-001", \/ r.platform = "tee"
                                      \/ (r.platform = "software-only" /\ level = 0))
           b == Verdict("TR-RTE-002", r.measurement # "malformed")
           c == IF r.rim_uri = "absent" THEN Skips("TR-RTE-003")
                ELSE Verdict("TR-RTE-003", r.rim_uri = "https")
           x == Verdict("TR-RTE-004",
                        "absent" \notin {opts.nonce, r.nonce} /\ r.nonce = opts.nonce)
<1>1. RteFindings(r, level, opts)
        = IF r.runtime # "object" THEN <<Fails("TR-RTE-001", "other")>>
          ELSE IF level < 1 THEN <<a, b, c>> ELSE <<a, b, c, x>>
  BY RteIs, Zenon
<1>2. Excused(a, level)
  BY SaidExcused
<1>3. Excused(b, level)
  BY SaidExcused
<1>4. Excused(c, level)
  <2>1. Excused(Skips("TR-RTE-003"), level)
    BY SaidExcused
  <2>2. r.rim_uri = "https" => Excused(Verdict("TR-RTE-003", r.rim_uri = "https"), level)
    BY SaidExcused
  <2> QED  BY <2>1, <2>2
<1>5. Excused(x, level)
  BY SaidExcused
<1> QED
  <2> HIDE DEF a, b, c, x
  <2> QED  BY <1>1, <1>2, <1>3, <1>4, <1>5, ExcusedList DEF AllExcused

LEMMA ScaExcused ==
    ASSUME NEW r, NEW level, r.slsa_level = "valid"
    PROVE  AllExcused(ScaFindings(r, "digest_valid"), level)
<1> DEFINE slsa == Verdict("TR-SCA-001", r.slsa_level = "valid")
           digest == Verdict("TR-SCA-002", "digest_valid" = "digest_valid")
<1>1. ScaFindings(r, "digest_valid") = <<slsa, digest>>
  BY DEF ScaFindings
<1>2. Excused(slsa, level)
  BY SaidExcused
<1>3. Excused(digest, level)
  BY SaidExcused
<1> HIDE DEF slsa, digest
<1> QED  BY <1>1, <1>2, <1>3, ExcusedList DEF AllExcused

(* A record that fails a level and passes a higher one does so by the      *)
(* clock or by the resolver alone: every checker of the lower level also   *)
(* runs at the higher, and asks no more of the record below than above.    *)
THEOREM LevelsReorderOnlyByTheWorld == Spec => []OnlyTheWorldReordersLevels
<1>1. TypeOK /\ FromCalls /\ Published => OnlyTheWorldReordersLevels
  <2> SUFFICES ASSUME TypeOK, FromCalls, Published, NEW d \in document,
                      NEW l \in Levels, NEW m \in Levels, l < m, Passed(d, m),
                      NEW f \in FindingsAt(d.results, l)
               PROVE  Excused(d.results[<<l, f[1]>>][f[2]], l)
    BY DEF OnlyTheWorldReordersLevels, Excused, World
  <2>1. record \in Record /\ l \in 0..1 /\ m \in 1..2 /\ m \in 0..2 /\ m >= 1
    BY LevelsAre, PilotRunAssumption DEF TypeOK
  <2>2. d.results = AllFindings /\ Finished
    BY DocumentAtEnd
  <2>3. PICK name \in Modules : /\ <<l, name>> \in DOMAIN done
                                /\ \E p \in DOMAIN done[<<l, name>>].findings : f = <<name, p>>
    BY <2>2, FindingsAtIs
  <2>4. PICK p \in DOMAIN done[<<l, name>>].findings : f = <<name, p>>
    BY <2>3
  <2>5. d.results[<<l, f[1]>>][f[2]] = done[<<l, name>>].findings[p]
    BY <2>2, <2>3, <2>4 DEF AllFindings
  <2>6. PICK t \in StartTime..now, answer \in Answers :
          done[<<l, name>>] = Result(<<l, name>>, t, answer)
    BY <2>3 DEF FromCalls
  <2>7. done[<<l, name>>].findings = FindingsOf(name, record, options, l, t, answer)
    BY <2>6 DEF Result
  <2>8. name \in AllModules /\ <<l, name>> \in Cells
    BY <2>2, <2>3, ModulesAre DEF Finished
  <2>9. SUFFICES AllExcused(FindingsOf(name, record, options, l, t, answer), l)
    BY <2>5, <2>7 DEF AllExcused
  <2>10. name \in AllModules \ {"TR-TXN", "TR-ANC"} /\ <<m, name>> \in Cells
    <3>1. l # 2 /\ (l >= 1 => m >= 1) /\ l \in Levels /\ m \in Levels
      BY <2>1
    <3>2. name \notin {"TR-TXN", "TR-ANC"}
      BY <2>8, <3>1, CellsAre
    <3>3. name \in {"TR-ENV", "TR-SIG", "TR-POL", "TR-APR", "TR-RTE", "TR-SCA"}
      BY <2>8, <3>2 DEF AllModules
    <3>4. m >= 1
      BY <2>1
    <3> QED  BY <2>8, <3>2, <3>3, <3>4, CellsAre
  <2>11. PICK t2 \in StartTime..now, answer2 \in Answers :
           Clean(FindingsOf(name, record, options, m, t2, answer2), m)
    BY <2>10, PassedIsClean
  <2>12. CASE name = "TR-ENV"
    <3>1. /\ FindingsOf("TR-ENV", record, options, l, t, answer) = EnvFindings(record, t)
          /\ FindingsOf("TR-ENV", record, options, m, t2, answer2) = EnvFindings(record, t2)
      BY DEF FindingsOf
    <3>2. /\ record.private = "none" /\ record.eat_profile = "trace-v0.2"
          /\ record.subject = "uri" /\ record.jwk \notin {"absent", "no kty"}
      BY <2>1, <2>11, <2>12, <3>1, CleanEnv
    <3> QED  BY <2>12, <3>1, <3>2, EnvExcused
  <2>13. CASE name = "TR-SIG"
    <3>1. /\ FindingsOf("TR-SIG", record, options, l, t, answer) = SigFindings(record, l)
          /\ FindingsOf("TR-SIG", record, options, m, t2, answer2) = SigFindings(record, m)
      BY DEF FindingsOf
    <3>2. Signed(record) /\ (record.format = "trace" => record.private # "d")
      BY <2>1, <2>11, <2>13, <3>1, CleanSig
    <3> QED  BY <2>1, <2>13, <3>1, <3>2, SigExcused
  <2>14. CASE name = "TR-POL"
    <3>1. /\ FindingsOf("TR-POL", record, options, l, t, answer)
               = PolFindings(record, PolBranch(record, options, answer))
          /\ FindingsOf("TR-POL", record, options, m, t2, answer2)
               = PolFindings(record, PolBranch(record, options, answer2))
      BY DEF FindingsOf
    <3>2. /\ record.policy = "object" /\ record.bundle_hash = "digest"
          /\ record.enforcement_mode = "valid"
      BY <2>1, <2>11, <2>14, <3>1, CleanPol
    <3> QED  BY <2>14, <3>1, <3>2, PolExcused
  <2>15. CASE name = "TR-APR"
    <3>1. /\ FindingsOf("TR-APR", record, options, l, t, answer) = AprFindings(record, l, t)
          /\ FindingsOf("TR-APR", record, options, m, t2, answer2) = AprFindings(record, m, t2)
      BY DEF FindingsOf
    <3>2. /\ record.appraisal = "object" /\ record.verifier = "uri"
          /\ record.status = "affirming" /\ record.policy_ref \in {"absent", "uri"}
      BY <2>1, <2>11, <2>15, <3>1, CleanApr
    <3> QED  BY <2>15, <3>1, <3>2, AprExcused
  <2>16. CASE name = "TR-RTE"
    <3>1. /\ FindingsOf("TR-RTE", record, options, l, t, answer) = RteFindings(record, l, options)
          /\ FindingsOf("TR-RTE", record, options, m, t2, answer2)
               = RteFindings(record, m, options)
      BY DEF FindingsOf
    <3>2. /\ record.runtime = "object" /\ record.platform = "tee"
          /\ record.nonce = options.nonce /\ "absent" \notin {options.nonce, record.nonce}
          /\ record.measurement # "malformed" /\ record.rim_uri \in {"absent", "https"}
      BY <2>1, <2>11, <2>16, <3>1, CleanRte
    <3> QED  BY <2>16, <3>1, <3>2, RteExcused
  <2>17. CASE name = "TR-SCA"
    <3>1. /\ FindingsOf("TR-SCA", record, options, l, t, answer)
               = ScaFindings(record, ScaBranch(record))
          /\ FindingsOf("TR-SCA", record, options, m, t2, answer2)
               = ScaFindings(record, ScaBranch(record))
      BY DEF FindingsOf
    <3>2. record.slsa_level = "valid" /\ ScaBranch(record) = "digest_valid"
      BY <2>1, <2>11, <2>17, <3>1, CleanSca
    <3> QED  BY <2>17, <3>1, <3>2, ScaExcused
  <2> QED  BY <2>10, <2>12, <2>13, <2>14, <2>15, <2>16, <2>17 DEF AllModules
<1> QED  BY <1>1, RunsArePublished, PTL

(***************************************************************************)
(* PilotRun implements AtomicRun.  AtomicRun's operators on the registry   *)
(* are those of PilotRun.                                                  *)
(***************************************************************************)
LEMMA SameCardinality == \A S : Atomic!Cardinality(S) = Cardinality(S)
  BY DEF Atomic!Cardinality, Cardinality

LEMMA SameTally == \A rs, l, p : Atomic!Tally(rs, l, p) = Tally(rs, l, p)
<1> SUFFICES ASSUME NEW rs, NEW l, NEW p PROVE Atomic!Tally(rs, l, p) = Tally(rs, l, p)
  OBVIOUS
<1> DEFINE at(f) == rs[<<l, f[1]>>][f[2]]
           failing == {f \in FindingsAt(rs, l) : CountsAsLevelFailure(p, at(f), l)}
           unclear == {f \in FindingsAt(rs, l) : at(f).status = "unverified"}
           failing2 == {f \in Atomic!FindingsAt(rs, l) :
                          Atomic!CountsAsLevelFailure(p, at(f), l)}
           unclear2 == {f \in Atomic!FindingsAt(rs, l) : at(f).status = "unverified"}
<1>1. \A f : Atomic!CountsAsLevelFailure(p, f, l) = CountsAsLevelFailure(p, f, l)
  BY DEF Atomic!CountsAsLevelFailure, CountsAsLevelFailure, Atomic!UnverifiedFails,
         UnverifiedFails
<1>2. Atomic!FindingsAt(rs, l) = FindingsAt(rs, l)
  BY DEF Atomic!FindingsAt, FindingsAt
<1>3. failing2 = failing
  BY <1>1, <1>2
<1>4. unclear2 = unclear
  BY <1>2
<1>5. Atomic!Tally(rs, l, p)
        = [failures   |-> Atomic!Cardinality(failing2),
           unverified |-> Atomic!Cardinality(unclear2)]
  BY Zenon DEF Atomic!Tally
<1>6. Tally(rs, l, p)
        = [failures |-> Cardinality(failing), unverified |-> Cardinality(unclear)]
  BY Zenon DEF Tally
<1> HIDE DEF failing, unclear, failing2, unclear2
<1> QED  BY <1>3, <1>4, <1>5, <1>6, SameCardinality

LEMMA SameOperators ==
    /\ \A m : Atomic!PilotCode(m) = PilotCode(m)
    /\ \A p, f, l : Atomic!CountsAsLevelFailure(p, f, l) = CountsAsLevelFailure(p, f, l)
    /\ \A ls, fs, rs, p : Atomic!Projectable(ls, fs, rs, p) = Projectable(ls, fs, rs, p)
    /\ \A ls, fs, rs, p : Atomic!Document(ls, fs, rs, p) = Document(ls, fs, rs, p)
    /\ Atomic!Levels = Levels
<1>1. /\ \A m : Atomic!PilotCode(m) = PilotCode(m)
      /\ \A p, f, l : Atomic!CountsAsLevelFailure(p, f, l) = CountsAsLevelFailure(p, f, l)
      /\ Atomic!Levels = Levels
  BY DEF Atomic!PilotCode, PilotCode, Atomic!Levels, Levels, Atomic!CountsAsLevelFailure,
         CountsAsLevelFailure, Atomic!UnverifiedFails, UnverifiedFails
<1>2. \A ls, fs, rs, p : Atomic!Projectable(ls, fs, rs, p) = Projectable(ls, fs, rs, p)
  BY DEF Atomic!Projectable, Projectable, Atomic!RecognisedFact, RecognisedFact,
         Atomic!ProjectableFact, ProjectableFact, Atomic!BlockedBy, BlockedBy,
         Atomic!OnlyOne, OnlyOne, Atomic!Positions, Positions,
         Atomic!CountsAsLevelFailure, CountsAsLevelFailure, Atomic!UnverifiedFails,
         UnverifiedFails
<1>3. \A ls, fs, rs, p : Atomic!Document(ls, fs, rs, p) = Document(ls, fs, rs, p)
  <2>1. \A r : Atomic!RoleProjection(r) = RoleProjection(r)
    BY DEF Atomic!RoleProjection, RoleProjection
  <2>2. \A m, f : Atomic!Row(m, f) = Row(m, f)
    BY <2>1 DEF Atomic!Row, Row
  <2>3. \A ls, fs : Atomic!Rows(ls, fs) = Rows(ls, fs)
    BY <2>2 DEF Atomic!Rows, Rows
  <2>4. \A rs : Atomic!SealedResults(rs) = SealedResults(rs)
    BY DEF Atomic!SealedResults, SealedResults, Atomic!Sealed, Sealed
  <2> QED  BY <2>3, <2>4, SameTally DEF Atomic!Document, Document
<1> QED  BY <1>1, <1>2, <1>3

(* What a checker returns is what AtomicRun allows its cell to yield. *)
LEMMA ResultConforms ==
    ASSUME NEW cell \in Cells, NEW answer \in Answers, NEW t, record \in Record
    PROVE  Atomic!Conforms(cell, Result(cell, t, answer))
<1> DEFINE m == cell[2]
           found == FindingsOf(m, record, options, cell[1], t, answer)
           facts == FactsOf(cell[1], Observed(m, record, options, answer))
           pilot == {p \in DOMAIN found : found[p].code \in PilotCode(m)}
           earned == {i \in DOMAIN facts : facts[i].earned # {}}
<1>1. Result(cell, t, answer) = [facts |-> facts, findings |-> found]
  BY DEF Result
<1>2. SUFFICES /\ \E match \in Atomic!InOrder(earned, pilot) : \A i \in earned :
                    facts[i].earned = {found[match[i]]}
               /\ \A i \in DOMAIN facts :
                    facts[i].counts =
                      {CountsAsLevelFailure(StartPolicy, f, cell[1]) : f \in facts[i].earned}
  <2> HIDE DEF facts, found
  <2>1. /\ Result(cell, t, answer).facts = facts /\ Result(cell, t, answer).findings = found
    BY <1>1
  <2> DEFINE result == Result(cell, t, answer)
             pilot2 == {p \in DOMAIN result.findings :
                          result.findings[p].code \in Atomic!PilotCode(m)}
             earned2 == {i \in DOMAIN result.facts : result.facts[i].earned # {}}
  <2>2. Atomic!Conforms(cell, result)
          <=> /\ \E match \in Atomic!InOrder(earned2, pilot2) : \A i \in earned2 :
                   result.facts[i].earned = {result.findings[match[i]]}
              /\ \A i \in DOMAIN result.facts :
                   result.facts[i].counts =
                     {Atomic!CountsAsLevelFailure(StartPolicy, f, cell[1]) :
                        f \in result.facts[i].earned}
    BY Zenon DEF Atomic!Conforms
  <2>3. earned2 = earned
    BY <2>1
  <2>4. pilot2 = pilot
    BY <2>1, SameOperators
  <2>5. \A i : {Atomic!CountsAsLevelFailure(StartPolicy, f, cell[1]) : f \in facts[i].earned}
               = {CountsAsLevelFailure(StartPolicy, f, cell[1]) : f \in facts[i].earned}
    BY SameOperators
  <2> HIDE DEF earned, pilot, earned2, pilot2, m
  <2> QED  BY <2>1, <2>2, <2>3, <2>4, <2>5
<1>3. ASSUME earned = {}, pilot = {}
      PROVE  \E match \in Atomic!InOrder(earned, pilot) : \A i \in earned :
                    facts[i].earned = {found[match[i]]}
  <2> DEFINE match == [i \in {} |-> 0]
  <2>1. match \in Atomic!InOrder({}, {})
    BY DEF Atomic!InOrder
  <2> HIDE DEF match, facts, found
  <2> QED  BY <1>3, <2>1
<1>4. ASSUME NEW p, earned = {1}, pilot = {p}, facts[1].earned = {found[p]}
      PROVE  \E match \in Atomic!InOrder(earned, pilot) : \A i \in earned :
                    facts[i].earned = {found[match[i]]}
  <2> DEFINE match == [i \in {1} |-> p]
  <2>1. match \in Atomic!InOrder({1}, {p}) /\ match[1] = p
    BY DEF Atomic!InOrder
  <2> HIDE DEF match, facts, found, earned, pilot
  <2> QED  BY <1>4, <2>1
<1>5. m \in AllModules
  BY DEF Cells
<1>6. CASE \A k \in Keys : Owner[k] # m
  <2>1. m \notin {"TR-APR", "TR-POL", "TR-SCA"}
    BY <1>6, PilotRunTables DEF PilotOwner, PilotKeys
  <2>3. facts = <<>>
    <3> HIDE DEF found, m
    <3> QED  BY <1>5, <2>1, NoCalls
  <2>4. pilot = {}
    BY <1>5, <2>1, KeysAre
  <2> HIDE DEF facts, found, pilot
  <2>5. DOMAIN facts = {}
    BY <2>3
  <2> QED  BY <1>3, <2>4, <2>5
<1>7. CASE \E k \in Keys : Owner[k] = m
  <2>1. PICK k \in Keys : Owner[k] = m
    BY <1>7
  <2>2. PICK branch : /\ Observed(m, record, options, answer) = OneCall(k, branch, found)
                      /\ Declared(Rule[<<m, branch>>], k, cell[1], found)
    BY <2>1, PilotBranchesTaken
  <2> DEFINE fact == FactFor(k, cell[1], branch, found)
  <2>3. facts = <<fact>>
    <3> HIDE DEF found
    <3> QED  BY <2>1, <2>2, FactsAre
  <2>4. pilot = Positions(found, k)
    <3> HIDE DEF found
    <3> QED  BY <2>1, KeysAre DEF Positions
  <2>5. fact.counts = {CountsAsLevelFailure(StartPolicy, f, cell[1]) : f \in fact.earned}
    <3> HIDE DEF found, m
    <3> QED  BY DEF FactFor
  <2>6. Positions(found, k) = {} \/ \E p : Positions(found, k) = {p}
    <3> HIDE DEF found, m
    <3> QED  BY <2>2 DEF Declared
  <2>7. DOMAIN facts = {1} /\ facts[1] = fact
    <3> HIDE DEF fact, facts
    <3> QED  BY <2>3, AloneInList
  <2>8. CASE Positions(found, k) = {}
    <3>1. fact.earned = {}
      BY <2>8, FactForNone
    <3> HIDE DEF fact, facts, found
    <3>2. earned = {}
      BY <2>7, <3>1
    <3> QED  BY <1>3, <2>4, <2>5, <2>7, <2>8, <3>2
  <2>9. CASE \E p : Positions(found, k) = {p}
    <3>1. PICK p : Positions(found, k) = {p}
      BY <2>9
    <3>2. fact.earned = {found[p]}
      <4> HIDE DEF found, m
      <4> QED  BY <3>1 DEF FactFor
    <3> HIDE DEF fact, facts, found
    <3>3. earned = {1}
      BY <2>7, <3>2
    <3> QED  BY <1>4, <2>4, <2>5, <2>7, <3>1, <3>2, <3>3
  <2> QED  BY <2>6, <2>8, <2>9
<1> QED  BY <1>6, <1>7

LEMMA RunCheckerRunsCell ==
    ASSUME TypeOK, NEW answer \in Answers, RunChecker(answer)
    PROVE  Atomic!Next
<1> DEFINE n == Cardinality(DOMAIN done)
           cell == Plan[n + 1]
<1>1. /\ n < Len(Plan) /\ n + 1 \in 0..Len(Plan) /\ cell \in Cells
      /\ DOMAIN done' = DOMAIN done \cup {cell}
      /\ \A c \in DOMAIN done : done'[c] = done[c]
      /\ done'[cell] = Result(cell, now, answer)
  BY RunCheckerStep
<1>2. outcome = "running" /\ UNCHANGED <<outcome, document>>
  BY RunCheckerStep DEF RunChecker
<1>3. Atomic!Conforms(cell, done'[cell])
  <2>1. record \in Record
    BY PilotRunAssumption DEF TypeOK
  <2> HIDE DEF cell
  <2> QED  BY <1>1, <2>1, ResultConforms
<1>4. Atomic!Cardinality(DOMAIN done) = n
  BY SameCardinality
<1>5. n \in 0..Len(Plan)
  BY RanIsPrefix
<1> HIDE DEF n
<1>6. cell \in Atomic!Scheduled
  <2>1. n + 1 \in DOMAIN Plan
    BY <1>1, <1>5, PlanOnce
  <2> QED  BY <2>1 DEF Atomic!Scheduled
<1>7. Atomic!RunCell(cell)
  <2>1. cell = Plan[Atomic!Cardinality(DOMAIN done) + 1]
    BY <1>4
  <2> HIDE DEF cell
  <2> QED  BY <1>1, <1>2, <1>3, <1>4, <2>1 DEF Atomic!RunCell
<1> QED  BY <1>6, <1>7 DEF Atomic!Next

(* The one rule of the provenance checker for a level without it. *)
LEMMA IdleFactsAre == Atomic!IdleFacts("TR-SCA") = {IdleFact}
<1>1. \A r \in DOMAIN PilotRule :
        r[1] = "TR-SCA" /\ PilotRule[r].role = "scheduler_nonexecution"
          => r = <<"TR-SCA", "level0_scheduler_nonexecution">>
  <2> SUFFICES ASSUME NEW r \in DOMAIN PilotRule, r[1] = "TR-SCA",
                      PilotRule[r].role = "scheduler_nonexecution"
               PROVE  r = <<"TR-SCA", "level0_scheduler_nonexecution">>
    OBVIOUS
  <2>1. /\ r = <<"TR-SCA", r[2]>> /\ r[2] \in DOMAIN ScaBranches
        /\ PilotRule[r] = ScaBranches[r[2]]
    BY DEF PilotRule
  <2>2. \A b \in DOMAIN ScaBranches : ScaBranches[b].role = "scheduler_nonexecution"
          => b = "level0_scheduler_nonexecution"
    BY DEF ScaBranches, Reports, Blocked, Bare
  <2> QED  BY <2>1, <2>2
<1>2. {r \in DOMAIN Rule : r[1] = "TR-SCA" /\ Rule[r].role = "scheduler_nonexecution"}
        = {<<"TR-SCA", "level0_scheduler_nonexecution">>}
  BY <1>1, IdleRule, PilotRunTables
<1>3. <<"TR-SCA", "level0_scheduler_nonexecution">>[2] = "level0_scheduler_nonexecution"
  OBVIOUS
<1> QED  BY <1>2, <1>3 DEF Atomic!IdleFacts, IdleFact

LEMMA CompletePublishes ==
    ASSUME TypeOK, FromCalls, Complete
    PROVE  Atomic!Next
<1>1. Finished
  BY RanIsPrefix DEF Complete
<1>2. Projectable(Levels, AllFacts, AllFindings, StartPolicy)
  BY <1>1, AllProjectable
<1>3. /\ outcome = "running"
      /\ document' = {Document(Levels, AllFacts, AllFindings, StartPolicy)}
      /\ outcome' = "completed" /\ UNCHANGED done
  BY <1>2 DEF Complete
<1>4. DOMAIN done = Atomic!Scheduled
  BY <1>1, PlanOnce DEF Finished, Atomic!Scheduled
<1> DEFINE facts == [cell \in Atomic!Levels \X Modules |->
                       IF cell \in DOMAIN done THEN done[cell].facts
                       ELSE IF Atomic!PilotCode(cell[2]) = {} THEN <<>>
                       ELSE <<CHOOSE f \in Atomic!IdleFacts(cell[2]) : TRUE>>]
           findings == [cell \in DOMAIN done |-> done[cell].findings]
<1>5. facts = AllFacts
  <2>1. ASSUME NEW cell \in Levels \X Modules
        PROVE  AllFacts[cell]
                 = IF cell \in DOMAIN done THEN done[cell].facts
                   ELSE IF Atomic!PilotCode(cell[2]) = {} THEN <<>>
                   ELSE <<CHOOSE f \in Atomic!IdleFacts(cell[2]) : TRUE>>
    <3>1. CASE cell \in DOMAIN done
      BY <3>1 DEF AllFacts
    <3>2. CASE cell \notin DOMAIN done /\ cell[2] = "TR-SCA"
      <4>1. AllFacts[cell] = <<IdleFact>>
        BY <3>2 DEF AllFacts, IdleFact
      <4>2. Atomic!PilotCode(cell[2]) # {}
        <5>1. "TR-SCA-002" \in Keys /\ Owner["TR-SCA-002"] = "TR-SCA"
          BY PilotRunTables DEF PilotOwner, PilotKeys
        <5> QED  BY <3>2, <5>1, SameOperators DEF PilotCode
      <4>3. (CHOOSE f \in Atomic!IdleFacts(cell[2]) : TRUE) = IdleFact
        BY <3>2, IdleFactsAre
      <4> QED  BY <3>2, <4>1, <4>2, <4>3
    <3>3. CASE cell \notin DOMAIN done /\ cell[2] # "TR-SCA"
      <4>1. AllFacts[cell] = <<>>
        BY <3>3 DEF AllFacts
      <4>2. cell = <<cell[1], cell[2]>> /\ cell[1] \in Levels /\ cell[2] \in AllModules
        BY ModulesAre
      <4>3. cell[2] \notin {"TR-APR", "TR-POL"}
        BY <1>1, <3>3, <4>2, CellsAre DEF Finished
      <4>4. Atomic!PilotCode(cell[2]) = {}
        BY <3>3, <4>2, <4>3, KeysAre, SameOperators
      <4> QED  BY <3>3, <4>1, <4>4
    <3> QED  BY <3>1, <3>2, <3>3
  <2>2. AllFacts = [cell \in Levels \X Modules |-> AllFacts[cell]]
    BY DEF AllFacts
  <2>3. Atomic!Levels = Levels
    BY SameOperators
  <2> QED  BY <2>1, <2>2, <2>3
<1>6. findings = AllFindings
  BY DEF AllFindings
<1> HIDE DEF facts, findings
<1>7. Atomic!Projectable(Atomic!Levels, facts, findings, StartPolicy)
  BY <1>2, <1>5, <1>6, SameOperators
<1>8. document' = {Atomic!Document(Atomic!Levels, facts, findings, StartPolicy)}
  BY <1>3, <1>5, <1>6, SameOperators
<1> USE DEF facts, findings
<1>9. Atomic!Publish
  BY <1>3, <1>4, <1>7, <1>8, Zenon DEF Atomic!Publish
<1> QED  BY <1>9 DEF Atomic!Next

(* Every run of the shipped checkers is a run of AtomicRun: what a checker *)
(* yields conforms, and what is published is a function of what they       *)
(* yielded.                                                                *)
THEOREM PilotRefinement == Spec => RefinesAtomicRun
<1>1. Init => Atomic!Init
  BY DEF Init, Atomic!Init
<1>2. TypeOK /\ FromCalls /\ [Next]_vars => [Atomic!Next]_<<outcome, done, document>>
  <2> SUFFICES ASSUME TypeOK, FromCalls, [Next]_vars
               PROVE  Atomic!Next \/ UNCHANGED <<outcome, done, document>>
    OBVIOUS
  <2>1. CASE Tick
    BY <2>1 DEF Tick
  <2>2. ASSUME NEW answer \in Answers, RunChecker(answer) PROVE Atomic!Next
    BY <2>2, RunCheckerRunsCell
  <2>3. CASE Complete
    BY <2>3, CompletePublishes
  <2>4. CASE UNCHANGED vars
    BY <2>4 DEF vars
  <2> QED  BY <2>1, <2>2, <2>3, <2>4 DEF Next
<1> QED  BY <1>1, <1>2, RunsArePublished, PTL DEF Spec, RefinesAtomicRun, Atomic!Spec
=============================================================================
