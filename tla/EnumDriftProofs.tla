---------------------------- MODULE EnumDriftProofs -------------------------
(***************************************************************************)
(* What the exit of the drift measurement is worth, for every schema and   *)
(* every checkout.  The heart of it is that whenever a literal has enough  *)
(* in common with some enum, it is compared with one (EnoughIsCompared).   *)
(***************************************************************************)
EXTENDS EnumDrift, FiniteSetTheorems, LeastNumbers, TLAPS

Types ==
    /\ schema \in Seq(SUBSET Values)
    /\ tree \in Seq(Literals)
    /\ runs \in Int

(* The last run's matches are of what it looked at, and after agreement    *)
(* each of them is equality.                                               *)
Recorded ==
    last.exit = "agreement" =>
      \A k \in DOMAIN last.matched :
        /\ k \in DOMAIN last.tree /\ last.matched[k] \in DOMAIN last.schema
        /\ last.tree[k].form = "plain" /\ Cardinality(last.tree[k].values) >= 2
        /\ last.tree[k].values = last.schema[last.matched[k]]

IInv == Types /\ Recorded /\ AgreementIsReal

-----------------------------------------------------------------------------
LEMMA LiteralsAreSets ==
    ASSUME Types, NEW k \in DOMAIN tree
    PROVE  tree[k] \in Literals /\ tree[k].values \subseteq Values
<1>1. tree[k] \in Literals
  BY DEF Types
<1> QED BY <1>1 DEF Literals

LEMMA SharedIsNatural ==
    ASSUME NEW v, v \subseteq Values, NEW i
    PROVE  /\ IsFiniteSet(v) /\ Cardinality(v) \in Nat
           /\ IsFiniteSet(v \cap schema[i])
           /\ Shared(v, i) \in Nat
           /\ Shared(v, i) <= Cardinality(v)
<1>1. IsFiniteSet(v)
  BY EnumDriftAssumption, FS_Subset
<1>2. v \cap schema[i] \subseteq v
  OBVIOUS
<1>3. IsFiniteSet(v \cap schema[i]) /\ Cardinality(v \cap schema[i]) <= Cardinality(v)
  BY <1>1, <1>2, FS_Subset
<1> QED BY <1>1, <1>3, FS_CardinalityType DEF Shared

(* If a literal shares anything with an enum, there is a first enum among  *)
(* those it shares most with.                                              *)
LEMMA BestExists ==
    ASSUME Types, NEW v, v \subseteq Values, NEW i \in Enums, Shared(v, i) > 0
    PROVE  \E b \in Best(v) : Shared(v, i) <= Shared(v, b)
<1>1. Enums \subseteq Nat
  BY DEF Types, Enums
<1> DEFINE Rest(j) == Cardinality(v) - Shared(v, j)
           Rests == {Rest(j) : j \in Enums}
<1>2. ASSUME NEW j
      PROVE  Rest(j) \in Nat /\ Shared(v, j) \in Nat /\ Cardinality(v) \in Nat
  <2>1. /\ Shared(v, j) \in Nat /\ Cardinality(v) \in Nat
        /\ Shared(v, j) <= Cardinality(v)
    BY SharedIsNatural
  <2> QED BY <2>1
<1>3. \E m \in Rests : \A n \in Rests : m <= n
  <2>1. Rests \subseteq Nat /\ Rests # {}
    BY <1>2
  <2> HIDE DEF Rests
  <2> QED BY <2>1, LeastElement
<1>4. PICK top \in Enums : \A j \in Enums : Rest(top) <= Rest(j)
  BY <1>3
<1>5. ASSUME NEW j \in Enums PROVE Shared(v, j) <= Shared(v, top)
  <2>1. Rest(top) <= Rest(j)
    BY <1>4
  <2>2. /\ Shared(v, j) \in Nat /\ Shared(v, top) \in Nat
        /\ Cardinality(v) \in Nat
    BY <1>2
  <2> QED BY <2>1, <2>2
<1> DEFINE Most == {j \in Enums : Shared(v, j) = Shared(v, top)}
<1>6. PICK b \in Most : \A j \in Most : b <= j
  <2>1. Most \subseteq Nat /\ Most # {}
    BY <1>1
  <2> HIDE DEF Most
  <2> QED BY <2>1, LeastElement
<1>7. ASSUME NEW j \in Enums
      PROVE  Shared(v, j) <= Shared(v, b) /\ (j < b => Shared(v, j) < Shared(v, b))
  <2>1. Shared(v, j) <= Shared(v, b)
    BY <1>5, <1>6
  <2>2. ASSUME j < b PROVE Shared(v, j) # Shared(v, b)
    <3>1. j \notin Most
      BY <1>1, <1>6, <2>2
    <3> QED BY <3>1, <1>6
  <2> QED BY <2>1, <2>2, <1>2, <1>6
<1>8. Shared(v, b) > 0
  BY <1>2, <1>7, <1>6
<1> QED BY <1>6, <1>7, <1>8 DEF Best

(* A plain literal that shares two values with an enum, and half of its    *)
(* own (rounded down), is compared with an enum.                           *)
LEMMA EnoughIsCompared ==
    ASSUME Types, NEW k \in DOMAIN tree, tree[k].form = "plain",
           NEW i \in DOMAIN schema,
           Shared(tree[k].values, i) >= 2,
           Shared(tree[k].values, i) >= Cardinality(tree[k].values) \div 2
    PROVE  k \in Compared
<1> DEFINE v == tree[k].values
<1>1. v \subseteq Values
  BY LiteralsAreSets
<1>2. Shared(v, i) \in Nat /\ Cardinality(v) \in Nat /\ Shared(v, i) <= Cardinality(v)
  BY <1>1, SharedIsNatural
<1>3. k \in Candidates
  BY <1>2 DEF Candidates
<1>4. i \in Enums
  <2>1. schema[i] # {}
    <3> SUFFICES ASSUME schema[i] = {} PROVE FALSE
      OBVIOUS
    <3>1. v \cap schema[i] = {}
      OBVIOUS
    <3> QED BY <3>1, FS_EmptySet DEF Shared
  <2> QED BY <2>1 DEF Enums
<1>5. PICK b \in Best(v) : Shared(v, i) <= Shared(v, b)
  BY <1>1, <1>2, <1>4, BestExists
<1>6. Shared(v, b) \in Nat
  BY <1>1, SharedIsNatural
<1>7. Shared(v, b) >= 2 /\ Shared(v, b) >= Cardinality(v) \div 2
  BY <1>2, <1>5, <1>6
<1>8. b \in Matched(v)
  BY <1>5, <1>7 DEF Matched
<1> QED BY <1>3, <1>8 DEF Compared

LEMMA ComparedHasMatch ==
    ASSUME NEW k \in Compared
    PROVE  /\ k \in DOMAIN tree /\ MatchOf(k) \in DOMAIN schema
           /\ tree[k].form = "plain" /\ Cardinality(tree[k].values) >= 2
           /\ ~ Differs(k) => tree[k].values = schema[MatchOf(k)]
<1>1. MatchOf(k) \in Matched(tree[k].values)
  BY DEF Compared, MatchOf
<1>2. MatchOf(k) \in DOMAIN schema
  BY <1>1 DEF Matched, Best, Enums
<1>3. ~ Differs(k) => tree[k].values = schema[MatchOf(k)]
  BY DEF Differs
<1> QED BY <1>2, <1>3 DEF Compared, Candidates

-----------------------------------------------------------------------------
LEMMA InitEstablishes == Init => IInv
<1> SUFFICES ASSUME Init PROVE IInv
  OBVIOUS
<1>1. Types
  BY EnumDriftAssumption DEF Init, Types
<1>2. last.exit # "agreement"
  BY DEF Init, Unmeasured
<1> QED BY <1>1, <1>2 DEF IInv, Recorded, AgreementIsReal

(* A run leaves a record of itself; agreement, if it reports that, is real.*)
LEMMA MeasurePreserves ==
    ASSUME IInv, Measure
    PROVE  IInv'
<1>1. /\ Types /\ UNCHANGED <<schema, tree>> /\ runs' = runs + 1
      /\ last' = [exit    |-> last'.exit,
                  matched |-> [k \in Compared |-> MatchOf(k)],
                  schema  |-> schema, tree |-> tree]
      /\ last'.exit = IF Enums = {} \/ Candidates = {} \/ Compared = {} THEN "refused"
                      ELSE IF \E k \in Compared : Differs(k) THEN "drift" ELSE "agreement"
  BY DEF IInv, Measure
<1>2. Types'
  BY <1>1 DEF Types
<1>3. /\ last'.matched = [k \in Compared |-> MatchOf(k)]
      /\ last'.schema = schema /\ last'.tree = tree
  BY <1>1
<1>4. CASE last'.exit # "agreement"
  BY <1>2, <1>4 DEF IInv, Recorded, AgreementIsReal
<1>5. CASE last'.exit = "agreement"
  <2>1. Compared # {} /\ \A k \in Compared : ~ Differs(k)
    BY <1>1, <1>5
  <2>2. Recorded'
    BY <1>3, <2>1, ComparedHasMatch DEF Recorded
  <2>3. \E k \in DOMAIN tree : \E i \in DOMAIN schema : tree[k].values = schema[i]
    BY <2>1, ComparedHasMatch
  <2>4. ASSUME NEW k \in DOMAIN tree, NEW i \in DOMAIN schema,
               tree[k].form = "plain",
               Cardinality(tree[k].values \cap schema[i]) >= 2,
               Cardinality(tree[k].values \cap schema[i]) >= Cardinality(tree[k].values) \div 2
        PROVE  \E j \in DOMAIN schema : tree[k].values = schema[j]
    <3>1. k \in Compared
      BY <1>1, <2>4, EnoughIsCompared DEF Shared
    <3> QED BY <2>1, <3>1, ComparedHasMatch
  <2>5. AgreementIsReal'
    BY <1>3, <2>3, <2>4 DEF AgreementIsReal
  <2> QED BY <1>2, <2>2, <2>5 DEF IInv
<1> QED BY <1>4, <1>5

LEMMA EditPreserves ==
    ASSUME IInv, SpecificationMoves \/ LiteralEdited \/ UNCHANGED vars
    PROVE  IInv'
<1>1. last' = last /\ runs' = runs
  BY DEF SpecificationMoves, LiteralEdited, vars
<1>2. Types'
  <2>1. CASE SpecificationMoves
    <3>1. PICK i \in DOMAIN schema : \E enum \in Neighbours(schema[i]) :
            schema' = [schema EXCEPT ![i] = enum]
      BY <2>1 DEF SpecificationMoves
    <3>2. PICK enum \in Neighbours(schema[i]) : schema' = [schema EXCEPT ![i] = enum]
      BY <3>1
    <3>3. enum \subseteq Values
      BY <3>2 DEF Neighbours, IInv, Types
    <3> QED BY <2>1, <3>2, <3>3, <1>1 DEF SpecificationMoves, IInv, Types
  <2>2. CASE LiteralEdited
    <3>1. PICK k \in DOMAIN tree : \E values \in Neighbours(tree[k].values) :
            tree' = [tree EXCEPT ![k].values = values]
      BY <2>2 DEF LiteralEdited
    <3>2. PICK values \in Neighbours(tree[k].values) :
            tree' = [tree EXCEPT ![k].values = values]
      BY <3>1
    <3>3. tree[k] \in Literals
      BY DEF IInv, Types
    <3>4. values \subseteq Values
      BY <3>2, <3>3 DEF Neighbours, Literals
    <3>5. [tree[k] EXCEPT !.values = values] \in Literals
      BY <3>3, <3>4 DEF Literals
    <3>6. tree' = [tree EXCEPT ![k] = [tree[k] EXCEPT !.values = values]]
      BY <3>2
    <3>7. tree' \in Seq(Literals)
      BY <3>5, <3>6 DEF IInv, Types
    <3> QED BY <2>2, <3>7, <1>1 DEF LiteralEdited, IInv, Types
  <2>3. CASE UNCHANGED vars
    BY <2>3 DEF vars, IInv, Types
  <2> QED BY <2>1, <2>2, <2>3
<1> QED BY <1>1, <1>2 DEF IInv, Recorded, AgreementIsReal

LEMMA Invariance == Spec => []IInv
<1>1. IInv /\ [Next]_vars => IInv'
  BY MeasurePreserves, EditPreserves DEF Next
<1> QED BY InitEstablishes, <1>1, PTL DEF Spec

(* A moved enum of which a literal was a copy is still recognised: the     *)
(* literal has all but one of its values in it.                            *)
LEMMA MoveIsSeen ==
    ASSUME IInv, [Next]_vars, NEW k \in DOMAIN last.matched, OnlyMoved(k),
           Cardinality(tree[k].values) >= 3 \/ last.schema[last.matched[k]] \subseteq schema[last.matched[k]],
           \A j \in DOMAIN last.schema :
             last.schema[j] = last.schema[last.matched[k]] => j = last.matched[k]
    PROVE  last'.exit = "drift"
<1> DEFINE i == last.matched[k]
           v == tree[k].values
<1>1. Measure
  <2>1. runs' # runs
    BY DEF OnlyMoved, IInv, Types
  <2> QED BY <2>1 DEF Next, SpecificationMoves, LiteralEdited, vars
<1>2. /\ k \in DOMAIN tree /\ i \in DOMAIN last.schema
      /\ tree[k].form = "plain" /\ Cardinality(v) >= 2
      /\ v = last.schema[i]
      /\ schema[i] \in Neighbours(v)
      /\ schema = [last.schema EXCEPT ![i] = schema[i]]
  BY DEF IInv, Recorded, OnlyMoved
<1>3. v \subseteq Values
  BY <1>2, LiteralsAreSets DEF IInv
<1>4. i \in DOMAIN schema /\ DOMAIN schema = DOMAIN last.schema
  BY <1>2
<1>5. IsFiniteSet(v) /\ Cardinality(v) \in Nat
  BY <1>3, SharedIsNatural
<1>6. Shared(v, i) >= 2 /\ Shared(v, i) >= Cardinality(v) \div 2
  <2>1. CASE v \subseteq schema[i]
    <3>1. v \cap schema[i] = v
      BY <2>1
    <3>2. Shared(v, i) = Cardinality(v)
      BY <3>1 DEF Shared
    <3> HIDE DEF v
    <3> QED BY <3>2, <1>2, <1>5
  <2>2. CASE ~ (v \subseteq schema[i])
    <3>1. Cardinality(v) >= 3
      BY <1>2, <2>2
    <3>2. PICK x \in v : schema[i] = v \ {x}
      BY <1>2, <2>2 DEF Neighbours
    <3>3. v \cap schema[i] = v \ {x}
      BY <3>2
    <3>4. Cardinality(v \ {x}) = Cardinality(v) - 1
      BY <1>5, <3>2, FS_RemoveElement
    <3>5. Shared(v, i) = Cardinality(v) - 1
      BY <3>3, <3>4 DEF Shared
    <3> HIDE DEF v, i
    <3> QED BY <3>1, <3>5, <1>5
  <2> QED BY <2>1, <2>2
<1>7. k \in Compared
  BY <1>2, <1>4, <1>6, EnoughIsCompared DEF IInv
<1>8. \A j \in DOMAIN schema : schema[j] # v
  <2>1. schema[i] # v
    BY <1>2 DEF Neighbours
  <2>2. ASSUME NEW j \in DOMAIN schema, j # i PROVE schema[j] # v
    <3>1. schema[j] = last.schema[j]
      BY <1>2, <1>4, <2>2
    <3> QED BY <3>1, <1>2, <1>4, <2>2
  <2> QED BY <2>1, <2>2
<1>9. Differs(k)
  BY <1>7, <1>8, ComparedHasMatch
<1>10. Enums # {} /\ Candidates # {} /\ Compared # {}
  BY <1>7 DEF Compared, Matched, Best
<1> QED BY <1>1, <1>7, <1>9, <1>10 DEF Measure

(* A literal that is one of the enums is compared with an enum that        *)
(* contains it, and with none that comes after it.                         *)
LEMMA CopyMeetsItsEnum ==
    ASSUME Types, NEW k \in Compared, NEW i \in DOMAIN schema, tree[k].values = schema[i]
    PROVE  /\ schema[i] \subseteq schema[MatchOf(k)]
           /\ Differs(k) => MatchOf(k) < i
<1> DEFINE v == tree[k].values
           m == MatchOf(k)
<1>1. k \in DOMAIN tree /\ m \in DOMAIN schema /\ Cardinality(v) >= 2
  BY ComparedHasMatch
<1>2. v \subseteq Values
  BY <1>1, LiteralsAreSets
<1>3. /\ IsFiniteSet(v) /\ Cardinality(v) \in Nat
      /\ Shared(v, m) \in Nat /\ Shared(v, m) <= Cardinality(v)
  BY <1>2, SharedIsNatural
<1>4. v \cap schema[i] = v /\ Shared(v, i) = Cardinality(v)
  BY DEF Shared
<1>5. i \in Enums
  <2>1. v # {}
    BY <1>1, FS_EmptySet
  <2> QED BY <2>1 DEF Enums
<1>6. /\ m \in Best(v)
      /\ Shared(v, i) <= Shared(v, m) /\ (i < m => Shared(v, i) < Shared(v, m))
  BY <1>5 DEF Compared, MatchOf, Matched, Best
<1>7. Shared(v, m) = Cardinality(v)
  BY <1>3, <1>4, <1>6
<1>8. v \cap schema[m] = v
  BY <1>3, <1>7, FS_Subset DEF Shared
<1>9. ~ (i < m)
  <2>1. ~ (Shared(v, i) < Shared(v, m))
    BY <1>3, <1>4, <1>7
  <2> QED BY <2>1, <1>6
<1>10. ASSUME Differs(k) PROVE m < i
  <2>1. i # m
    BY <1>10 DEF Differs
  <2>2. i \in Nat /\ m \in Nat
    BY <1>1 DEF Types
  <2> HIDE DEF m
  <2> QED BY <1>9, <2>1, <2>2
<1> QED BY <1>8, <1>10

LEMMA DriftPreserved == IInv /\ DriftIsReal /\ [Next]_vars => DriftIsReal'
<1> SUFFICES ASSUME IInv, DriftIsReal, [Next]_vars PROVE DriftIsReal'
  OBVIOUS
<1>1. CASE UNCHANGED last
  BY <1>1 DEF DriftIsReal
<1>2. CASE Measure
  <2>1. /\ last'.matched = [k \in Compared |-> MatchOf(k)]
        /\ last'.schema = schema /\ last'.tree = tree
        /\ last'.exit = "drift" => \E k \in Compared : Differs(k)
    BY <1>2 DEF Measure
  <2>2. ASSUME NEW k \in Compared
        PROVE  Differs(k) <=> tree[k].values # schema[MatchOf(k)]
    BY DEF Differs
  <2>3. ASSUME NEW k \in Compared, tree[k].values # schema[MatchOf(k)],
               NEW i \in DOMAIN schema, tree[k].values = schema[i]
        PROVE  schema[i] \subseteq schema[MatchOf(k)] /\ MatchOf(k) < i
    BY <2>2, <2>3, CopyMeetsItsEnum DEF IInv
  <2> QED BY <2>1, <2>2, <2>3 DEF DriftIsReal
<1> QED BY <1>1, <1>2 DEF Next, SpecificationMoves, LiteralEdited, vars

-----------------------------------------------------------------------------
(* "agreement" (exit 0 of enum_drift.py) is agreement of something, and    *)
(* leaves out no plain literal that has half of its values (rounded down), *)
(* and two at least, in an enum.                                           *)
THEOREM ExitZeroIsAgreement == Spec => []AgreementIsReal
<1>1. IInv => AgreementIsReal
  BY DEF IInv
<1> QED BY <1>1, Invariance, PTL

(* Whatever is reported as drift is no enum of the schema, or is part of   *)
(* one that the walk meets before its own, whatever schema and checkout,   *)
(* also where two enums are equal.                                         *)
THEOREM ReportedDriftIsReal == Spec => []DriftIsReal
<1>1. Init => DriftIsReal
  BY DEF Init, Unmeasured, DriftIsReal
<1> QED BY <1>1, DriftPreserved, Invariance, PTL DEF Spec

(* A specification that moves by one value away from a copy that agreed    *)
(* with it is noticed by the next run, if the copy can be recognised.      *)
THEOREM MovesAreSeen == Spec => MovedSpecificationIsSeen
<1>1. IInv /\ [Next]_vars =>
        [\A k \in DOMAIN last.matched :
           LET i == last.matched[k] IN
           /\ OnlyMoved(k)
           /\ Cardinality(tree[k].values) >= 3 \/ last.schema[i] \subseteq schema[i]
           /\ \A j \in DOMAIN last.schema : last.schema[j] = last.schema[i] => j = i
           => last'.exit = "drift"]_vars
  BY MoveIsSeen
<1> QED BY <1>1, Invariance, PTL DEF Spec, MovedSpecificationIsSeen
=============================================================================
