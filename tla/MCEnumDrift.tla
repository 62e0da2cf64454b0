------------------------------ MODULE MCEnumDrift ---------------------------
(* Two enums of two or three of five values, equal, nested, overlapping or  *)
(* apart, and two literals: one of any two, three or all five values,       *)
(* beside one that is or is not seen.  The names of the values do not       *)
(* matter, so the first enum is one of each size.                           *)
EXTENDS EnumDrift

MCValues == {"a", "b", "c", "d", "e"}

Sized(few, many) == {s \in SUBSET MCValues : Cardinality(s) \in few..many}

MCSchemas == {{"a", "b"}, {"a", "b", "c"}} \X Sized(2, 3) \cup {<<{}, {}>>}

Plain(values) == [values |-> values, form |-> "plain"]

Second ==
    {Plain({"a"}), Plain({"c", "d"}), Plain({"a", "b", "c"}),
     [values |-> {"a", "b", "d"}, form |-> "other"]}

MCTrees == {<<Plain(s), second>> : s \in Sized(2, 3) \cup {MCValues}, second \in Second}
=============================================================================
