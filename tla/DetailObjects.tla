--------------------------- MODULE DetailObjects ----------------------------
(***************************************************************************)
(* DetailScreen for every DetailDestination entry of the back stack: the   *)
(* flow of DetailViewModel.getObject, the State it is collected into, and  *)
(* AnimatedContent(obj != null), which keeps the content of the previous   *)
(* target composed until its exit animation ends.  That content evaluates  *)
(* `obj!!`, on the State and not on the value the target was taken from.   *)
(* The storage is the environment: it behaves as LoadOnce says.            *)
(***************************************************************************)
EXTENDS MuseumStorage, Lifecycle

CONSTANT Entries   \* identities of DetailDestination back stack entries

VARIABLES
  route,          \* the objectId argument of each entry
  pane,           \* the composition of DetailScreen for each entry
  crash           \* what ended the process, or "none"

detailVars    == <<route, pane>>
detailSysVars == <<storedObjects, ui, detailVars, crash>>

Pane ==
  [composed   : BOOLEAN,
   collecting : BOOLEAN,                     \* the LaunchedEffect collects
   obj        : MuseumObject \cup {NoObject}, \* the remembered State
   dirty      : BOOLEAN,                     \* written since last composed
   target     : BOOLEAN,                     \* AnimatedContent's target
   contents   : SUBSET BOOLEAN]              \* the contents it composes

NoPane ==
  [composed |-> FALSE, collecting |-> FALSE, obj |-> NoObject,
   dirty |-> FALSE, target |-> FALSE, contents |-> {}]

(* The first composition reads initialValue = null: EmptyScreenContent.    *)
NewPane == [NoPane EXCEPT !.composed = TRUE, !.contents = {FALSE}]

DetailInit ==
  /\ route \in [Entries -> Ids]
  /\ pane = [e \in Entries |-> NoPane]

(* ObjectDetails of an entry is on screen, and with it the back button.    *)
ShowsDetails(e) == TRUE \in pane[e].contents

-----------------------------------------------------------------------------
ComposeDetail(e) ==
  /\ ~pane[e].composed
  /\ pane' = [pane EXCEPT ![e] = NewPane]
  /\ UNCHANGED <<route, crash>>

(* collectAsStateWithLifecycle starts collecting getObject(objectId).      *)
CollectObject(e) ==
  /\ ui = "started"
  /\ pane[e].composed /\ ~pane[e].collecting
  /\ pane' = [pane EXCEPT ![e].collecting = TRUE]
  /\ UNCHANGED <<route, crash>>

(* Variant, a fault: the State goes back to its initialValue.              *)
StopCollectingAndReset(e) ==
  /\ ui # "started"
  /\ pane[e].collecting
  /\ pane' = [pane EXCEPT ![e].collecting = FALSE, ![e].obj = NoObject,
                          ![e].dirty = TRUE]
  /\ UNCHANGED <<route, crash>>

StopCollecting(e) ==
  /\ ui # "started"
  /\ pane[e].collecting
  /\ pane' = [pane EXCEPT ![e].collecting = FALSE]
  /\ UNCHANGED <<route, crash>>

(* Variants, faults: first() in place of find; no test for an equal value. *)
ReceiveFirst(e) ==
  /\ ui = "started"
  /\ pane[e].collecting
  /\ storedObjects # << >> /\ Head(storedObjects) # pane[e].obj
  /\ pane' = [pane EXCEPT ![e].obj = Head(storedObjects), ![e].dirty = TRUE]
  /\ UNCHANGED <<route, crash>>

ReceiveAlways(e) ==
  /\ ui = "started"
  /\ pane[e].collecting
  /\ pane' = [pane EXCEPT ![e].obj = Find(storedObjects, route[e]),
                          ![e].dirty = TRUE]
  /\ UNCHANGED <<route, crash>>

(* storedObjects.map { it.find(objectId) } emits; writing an equal value   *)
(* to the State changes nothing.                                           *)
ReceiveObject(e) ==
  /\ ui = "started"
  /\ pane[e].collecting
  /\ Find(storedObjects, route[e]) # pane[e].obj
  /\ pane' = [pane EXCEPT ![e].obj = Find(storedObjects, route[e]),
                          ![e].dirty = TRUE]
  /\ UNCHANGED <<route, crash>>

(* Variant, a fault: the target is remembered from the first composition.  *)
RecomposeSameTarget(e) ==
  /\ ui = "started"
  /\ pane[e].dirty
  /\ pane' = [pane EXCEPT ![e].dirty = FALSE, ![e].collecting = FALSE]
  /\ UNCHANGED <<route, crash>>

(* DetailScreen runs again.  getObject() returns a new flow, so the effect *)
(* that collects is restarted; the State keeps its value.  Every composed  *)
(* content for TRUE evaluates obj!!.                                       *)
RecomposeDetail(e) ==
  LET available == pane[e].obj # NoObject
      contents  == pane[e].contents \cup {available}
  IN /\ ui = "started"
     /\ pane[e].dirty
     /\ pane' = [pane EXCEPT ![e].dirty = FALSE,
                             ![e].collecting = FALSE,
                             ![e].target = available,
                             ![e].contents = contents]
     /\ crash' = IF TRUE \in contents /\ ~available THEN "npe" ELSE crash
     /\ UNCHANGED route

(* The exit animation ends, and the old content leaves the composition.    *)
ContentSettles(e) ==
  /\ ui = "started"
  /\ pane[e].composed
  /\ pane[e].contents # {pane[e].target}
  /\ pane' = [pane EXCEPT ![e].contents = {pane[e].target}]
  /\ UNCHANGED <<route, crash>>

(* Only the panes of some entries stay in the composition.                 *)
KeepPanes(kept) ==
  pane' = [e \in Entries |-> IF e \in kept THEN pane[e] ELSE NoPane]

(* Variants, faults: the route loses its argument; the entry of a screen   *)
(* that is still composed is used again.                                   *)
NavigateWithoutId(e, objectId) ==
  /\ ~pane[e].composed
  /\ route' = [route EXCEPT ![e] = NoObject]
  /\ UNCHANGED pane

NavigateReusing(e, objectId) ==
  /\ route' = [route EXCEPT ![e] = objectId]
  /\ UNCHANGED pane

(* navigate(DetailDestination(objectId)) makes a new back stack entry.     *)
Navigate(e, objectId) ==
  /\ ~pane[e].composed
  /\ route' = [route EXCEPT ![e] = objectId]
  /\ UNCHANGED pane

-----------------------------------------------------------------------------
DetailStep(e) ==
  \/ CollectObject(e) \/ StopCollecting(e) \/ ReceiveObject(e)
  \/ RecomposeDetail(e) \/ ContentSettles(e)

DetailStart == Storage!Init /\ ui = "started" /\ DetailInit /\ crash = "none"

(* What the rest of the app does to the panes, in any order.               *)
DetailEnvironment ==
  /\ \/ Storage!Load /\ UNCHANGED <<ui, detailVars>>
     \/ /\ ui' \in LifecycleStates
        /\ UNCHANGED <<storedObjects, detailVars>>
     \/ \E kept \in SUBSET Entries :
          /\ KeepPanes(kept)
          /\ ui' \in {ui, "none"}
          /\ UNCHANGED <<storedObjects, route>>
     \/ \E e \in Entries, objectId \in Ids :
          Navigate(e, objectId) /\ UNCHANGED <<storedObjects, ui>>
     \/ \E e \in Entries :
          /\ ui = "started" /\ ComposeDetail(e)
          /\ UNCHANGED <<storedObjects, ui>>
  /\ UNCHANGED crash

DetailNext ==
  /\ crash = "none"
  /\ \/ DetailEnvironment
     \/ \E e \in Entries : DetailStep(e) /\ UNCHANGED <<storedObjects, ui>>

(* The main thread runs ready coroutines and frames.                       *)
DetailFairness ==
  \A e \in Entries :
    /\ WF_detailSysVars(CollectObject(e) /\ UNCHANGED <<storedObjects, ui>>)
    /\ WF_detailSysVars(ReceiveObject(e) /\ UNCHANGED <<storedObjects, ui>>)
    /\ WF_detailSysVars(RecomposeDetail(e) /\ UNCHANGED <<storedObjects, ui>>)
    /\ WF_detailSysVars(ContentSettles(e) /\ UNCHANGED <<storedObjects, ui>>)

DetailSpec == DetailStart /\ [][DetailNext]_detailSysVars /\ DetailFairness

-----------------------------------------------------------------------------
(* DetailScreen keeps to its types.                                        *)
DetailTypeOK ==
  /\ route \in [Entries -> Ids]
  /\ pane \in [Entries -> Pane]

(* The assertion obj!! of DetailScreen.kt never fails: no content composed *)
(* for objectAvailable = true outlives the object.                         *)
NoNullDereference == crash # "npe"

(* A pane shows null or the first stored object with the id of its own     *)
(* route, never the object of another entry or of an earlier list.         *)
PaneShowsItsObject ==
  \A e \in Entries : pane[e].obj \in {NoObject, Find(storedObjects, route[e])}

(* An object that is stored is shown, and with it the only back button of  *)
(* the app, as long as the user looks at the screen: restarting the        *)
(* collection at every recomposition loses no emission.                    *)
StoredObjectIsShown ==
  \A e \in Entries :
    (Find(storedObjects, route[e]) # NoObject /\ pane[e].composed /\ ui = "started")
      ~> (pane[e].contents = {TRUE} \/ ~pane[e].composed \/ ui # "started")

(* While the user looks at the screen its recompositions come to an end:   *)
(* recomposing, getting a new flow, collecting it and recomposing again is *)
(* not a cycle, because an equal object does not invalidate.               *)
RecompositionSettles ==
  \A e \in Entries :
    <>[](pane[e].composed /\ ui = "started")
      => <>[](~pane[e].dirty /\ pane[e].collecting)

=============================================================================
