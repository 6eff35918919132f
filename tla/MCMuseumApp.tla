----------------------------- MODULE MCMuseumApp ----------------------------
EXTENDS MuseumApp

Object(id) == [objectID |-> id, title |-> "x"]

(* One and two objects with different ids.                                 *)
UniqueResponses == {<<Object(1)>>, <<Object(2), Object(1)>>}

(* And a list that repeats an id.                                          *)
RepeatingResponses == UniqueResponses \cup {<<Object(1), Object(1)>>}

Symmetry == Permutations(Entries)

=============================================================================
