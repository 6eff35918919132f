--------------------------- MODULE MuseumObjects ----------------------------
(***************************************************************************)
(* The values that travel through the app: museum objects (MuseumObject.kt) *)
(* and lists of them, as the HTTP body decodes to.                         *)
(***************************************************************************)
EXTENDS Integers, Sequences, FiniteSetsExt

CONSTANTS
  Ids,          \* values of MuseumObject.objectID
  Titles,       \* stands for the eleven other fields of MuseumObject
  Responses,    \* the lists the HTTP body may decode to
  NoObject      \* Kotlin's null, as a MuseumObject?

(* Two objects are equal when all their fields are, as for a data class.   *)
MuseumObject == [objectID : Ids, title : Titles]

ASSUME ResponsesAssumption == Responses \subseteq Seq(MuseumObject)
ASSUME NoObjectAssumption  == NoObject \notin MuseumObject

Matches(list, objectId) == {i \in DOMAIN list : list[i].objectID = objectId}

(* objects.find { it.objectID == objectId }: the first match, or null.     *)
Find(list, objectId) ==
  IF Matches(list, objectId) = {} THEN NoObject
  ELSE list[Min(Matches(list, objectId))]

(* LazyVerticalGrid needs items(objects, key = { it.objectID }) to be      *)
(* pairwise different.                                                     *)
KeysAreUnique(list) ==
  \A i, j \in DOMAIN list : list[i].objectID = list[j].objectID => i = j

=============================================================================
