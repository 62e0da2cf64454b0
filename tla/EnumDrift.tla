------------------------------ MODULE EnumDrift -----------------------------
(***************************************************************************)
(* measurement/scripts/enum_drift.py: it looks for hand-written copies of  *)
(* the schema's enums among the set literals of a checkout, matches each   *)
(* literal with an enum by what they have in common, and reports those     *)
(* that differ from their match.                                           *)
(*                                                                         *)
(* It is run again and again while the specification moves and people edit *)
(* literals; it remembers nothing, so which enum a literal is a copy of is *)
(* found anew each time.                                                   *)
(***************************************************************************)
EXTENDS Integers, Sequences, FiniteSets

CONSTANTS Values,    \* what an enum or a set literal may contain
          Schemas,   \* the schemas to start from: sequences of enums
          Trees,     \* the checkouts to start from: sequences of literals
          MaxRuns,   \* bound: how often the script is run
          MaxEdits   \* bound: changes to schema and literals

(* A literal is a set of strings with the way it is written: "plain" is a  *)
(* set literal assigned to one name, possibly inside set() or frozenset(), *)
(* "other" an annotated assignment, one with a repeated or computed        *)
(* element, or one in a file that does not parse.                          *)
Literals == [values : SUBSET Values, form : {"plain", "other"}]

ASSUME EnumDriftAssumption ==
    /\ IsFiniteSet(Values)
    /\ Schemas \subseteq Seq(SUBSET Values)
    /\ Trees \subseteq Seq(Literals)

VARIABLES schema,  \* the enums, in the order the walk finds them
          tree,    \* the set literals of the checkout
          last,    \* the last run: its exit, its matches, and what it looked at
          runs, edits

vars == <<schema, tree, last, runs, edits>>

Unmeasured == [exit |-> "none", matched |-> [k \in {} |-> 0], schema |-> <<>>, tree |-> <<>>]

Init ==
    /\ schema \in Schemas
    /\ tree \in Trees
    /\ last = Unmeasured
    /\ runs = 0 /\ edits = 0

-----------------------------------------------------------------------------
(* schema_enums: an enum without a string is none. *)
Enums == {i \in DOMAIN schema : schema[i] # {}}

(* literal_sets *)
Candidates ==
    {k \in DOMAIN tree : tree[k].form = "plain" /\ Cardinality(tree[k].values) >= 2}

Shared(values, i) == Cardinality(values \cap schema[i])

(* Mutant: the first enum that shares anything. *)
BestAny(values) ==
    {i \in Enums : Shared(values, i) > 0 /\ \A j \in Enums : j < i => Shared(values, j) = 0}

(* The first of the enums that share most, if they share anything. *)
Best(values) ==
    {i \in Enums : /\ Shared(values, i) > 0
                   /\ \A j \in Enums : /\ Shared(values, j) <= Shared(values, i)
                                       /\ j < i => Shared(values, j) < Shared(values, i)}

(* Mutant: a copy has to share everything it contains. *)
MatchedWhole(values) ==
    {i \in Best(values) : Shared(values, i) >= 2 /\ Shared(values, i) >= Cardinality(values)}

(* Mutant: half of a literal is rounded up. *)
MatchedByCeiling(values) ==
    {i \in Best(values) : Shared(values, i) >= 2 /\ 2 * Shared(values, i) >= Cardinality(values)}

(* The enum a literal is compared with, if any. *)
Matched(values) ==
    {i \in Best(values) : Shared(values, i) >= 2 /\ Shared(values, i) >= Cardinality(values) \div 2}

Compared == {k \in Candidates : Matched(tree[k].values) # {}}

MatchOf(k) == CHOOSE i \in Matched(tree[k].values) : TRUE

(* Mutant: only a value that is missing from the copy is drift. *)
MissingOnly(k) == schema[MatchOf(k)] \ tree[k].values # {}

Differs(k) ==
    \/ schema[MatchOf(k)] \ tree[k].values # {}   \* missing
    \/ tree[k].values \ schema[MatchOf(k)] # {}   \* extra

(* main.  It refuses to report agreement over nothing. *)
Measure ==
    /\ runs < MaxRuns
    /\ runs' = runs + 1
    /\ last' = [exit    |-> IF Enums = {} \/ Candidates = {} \/ Compared = {} THEN "refused"
                            ELSE IF \E k \in Compared : Differs(k) THEN "drift" ELSE "agreement",
                matched |-> [k \in Compared |-> MatchOf(k)],
                schema  |-> schema,
                tree    |-> tree]
    /\ UNCHANGED <<schema, tree, edits>>

-----------------------------------------------------------------------------
(* A set with one value more or one value less. *)
Neighbours(set) == {set \cup {v} : v \in Values \ set} \cup {set \ {v} : v \in set}

(* The specification gives an enum another value, or takes one away. *)
SpecificationMoves ==
    /\ edits < MaxEdits
    /\ edits' = edits + 1
    /\ \E i \in DOMAIN schema : \E enum \in Neighbours(schema[i]) :
         schema' = [schema EXCEPT ![i] = enum]
    /\ UNCHANGED <<tree, last, runs>>

(* Somebody edits a literal. *)
LiteralEdited ==
    /\ edits < MaxEdits
    /\ edits' = edits + 1
    /\ \E k \in DOMAIN tree : \E values \in Neighbours(tree[k].values) :
         tree' = [tree EXCEPT ![k].values = values]
    /\ UNCHANGED <<schema, last, runs>>

Next == Measure \/ SpecificationMoves \/ LiteralEdited

Spec == Init /\ [][Next]_vars

-----------------------------------------------------------------------------
(* A report of agreement is about something, and it is agreement: a plain  *)
(* literal at least half of which (rounded down) is in an enum, and two    *)
(* values at least, is one of the enums.                                   *)
AgreementIsReal ==
    last.exit = "agreement" =>
      /\ \E k \in DOMAIN last.tree : \E i \in DOMAIN last.schema :
           last.tree[k].values = last.schema[i]
      /\ \A k \in DOMAIN last.tree : \A i \in DOMAIN last.schema :
           LET values == last.tree[k].values
               shared == Cardinality(values \cap last.schema[i])
           IN  last.tree[k].form = "plain" /\ shared >= 2 /\ shared >= Cardinality(values) \div 2 =>
                 \E j \in DOMAIN last.schema : values = last.schema[j]

(* A report of drift is about something, and whatever it reports is drift: *)
(* a literal that is no enum of the schema, or one the walk compared with  *)
(* an enum that contains its own and comes before it.  Two equal enums, of *)
(* which the shipped schema has a pair, are no reason to report a copy.    *)
DriftIsReal ==
    last.exit = "drift" =>
      LET Expected(k) == last.schema[last.matched[k]]
          reported    == {k \in DOMAIN last.matched : last.tree[k].values # Expected(k)}
      IN  /\ reported # {}
          /\ \A k \in reported : \A i \in DOMAIN last.schema :
               last.tree[k].values = last.schema[i] =>
                 last.schema[i] \subseteq Expected(k) /\ last.matched[k] < i

(* The script is run now, and since its last run, which reported           *)
(* agreement, nothing changed but the enum of literal k, by one value.     *)
OnlyMoved(k) ==
    LET i == last.matched[k] IN
    /\ last.exit = "agreement" /\ runs' = runs + 1
    /\ last.tree = tree
    /\ schema[i] \in Neighbours(last.schema[i])
    /\ schema = [last.schema EXCEPT ![i] = schema[i]]

(* When the specification moves away from a literal that agreed with it,   *)
(* the next run says so: "the specification moving is exactly the case" a  *)
(* copy cannot see.  The literal has to be recognised, though: it is of    *)
(* three values or more, or a value was added, and no other enum was the   *)
(* same.                                                                   *)
MovedSpecificationIsSeen ==
    [][\A k \in DOMAIN last.matched :
         LET i == last.matched[k] IN
         /\ OnlyMoved(k)
         /\ Cardinality(tree[k].values) >= 3 \/ last.schema[i] \subseteq schema[i]
         /\ \A j \in DOMAIN last.schema : last.schema[j] = last.schema[i] => j = i
         => last'.exit = "drift"]_vars
=============================================================================
