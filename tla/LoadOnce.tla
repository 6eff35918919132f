------------------------------ MODULE LoadOnce ------------------------------
(***************************************************************************)
(* What the data layer promises the screens, for the life of one process:  *)
(* the collection starts empty, is replaced at most once by a non-empty    *)
(* one, and never changes again.  Screens rely on it: DetailScreen.kt      *)
(* dereferences `obj!!` in content that outlives the test `obj != null`.   *)
(***************************************************************************)
CONSTANT Collections          \* the lists that may ever be loaded

VARIABLE collection           \* the list that every screen reads

Init == collection = << >>

Load ==
  /\ collection = << >>
  /\ collection' \in Collections

Spec == Init /\ [][Load]_collection

=============================================================================
