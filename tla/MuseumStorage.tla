--------------------------- MODULE MuseumStorage ----------------------------
(***************************************************************************)
(* InMemoryMuseumStorage: the one variable that the data layer writes and  *)
(* every screen reads, with what the screens may rely on.                  *)
(***************************************************************************)
EXTENDS MuseumObjects

VARIABLE storedObjects   \* the value of the MutableStateFlow

Storage == INSTANCE LoadOnce WITH
  Collections <- Responses \ {<< >>}, collection <- storedObjects

=============================================================================
