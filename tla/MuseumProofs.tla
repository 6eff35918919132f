---------------------------- MODULE MuseumProofs ----------------------------
(***************************************************************************)
(* Proofs about the components of the app, each on its own, for every set  *)
(* of ids, titles, responses, back stack entries and chat messages: the    *)
(* data layer, the list over any storage that loads once, the details over *)
(* the same, and the chat.                                                 *)
(***************************************************************************)
EXTENDS MuseumData, ListObjects, DetailObjects, ChatStream, SequenceLemmas,
        WellFoundedInduction

(* The data layer.                                                         *)

LEMMA DataTypeStep == DataTypeOK /\ [DataNext]_dataVars => DataTypeOK'
<1> SUFFICES ASSUME DataTypeOK, [DataNext]_dataVars
             PROVE  DataTypeOK'
  OBVIOUS
<1> USE DEF DataTypeOK
<1>1. CASE CreateRepository
  BY <1>1 DEF CreateRepository
<1>2. CASE BeginGetData
  BY <1>2 DEF BeginGetData
<1>3. CASE GetDataSucceeds
  BY <1>3, ResponsesAssumption DEF GetDataSucceeds, GetDataReturns
<1>4. CASE GetDataFails
  BY <1>4 DEF GetDataFails, GetDataReturns
<1>5. CASE GetDataCancelled
  BY <1>5 DEF GetDataCancelled
<1>6. CASE SaveObjects
  BY <1>6 DEF SaveObjects
<1>7. CASE UNCHANGED dataVars
  BY <1>7 DEF dataVars
<1> QED
  BY <1>1, <1>2, <1>3, <1>4, <1>5, <1>6, <1>7
  DEF DataNext, GetRepository, RefreshStep

(* Every value the data layer's variables take has its type.               *)
THEOREM DataTypeCorrect == DataSpec => []DataTypeOK
<1>1. DataInit => DataTypeOK
  BY DEF DataInit, DataTypeOK
<1> QED
  BY <1>1, DataTypeStep, PTL DEF DataSpec

-----------------------------------------------------------------------------
(* refresh() holds nothing but a response, or the empty list of a failed   *)
(* getData(); with StorageFollowsRefresh it is inductive.                  *)
FetchedIsResponse == fetched \in Responses \cup {<< >>}

DataInv == FetchedIsResponse /\ StorageFollowsRefresh

LEMMA DataInvInductive == DataInv /\ [DataNext]_dataVars => DataInv'
<1> SUFFICES ASSUME DataInv, [DataNext]_dataVars
             PROVE  DataInv'
  OBVIOUS
<1> USE DEF DataInv, FetchedIsResponse, StorageFollowsRefresh
<1>1. CASE CreateRepository
  BY <1>1 DEF CreateRepository
<1>2. CASE BeginGetData
  BY <1>2 DEF BeginGetData
<1>3. CASE GetDataSucceeds
  BY <1>3 DEF GetDataSucceeds, GetDataReturns
<1>4. CASE GetDataFails
  BY <1>4 DEF GetDataFails, GetDataReturns
<1>5. CASE GetDataCancelled
  BY <1>5 DEF GetDataCancelled
<1>6. CASE SaveObjects
  BY <1>6 DEF SaveObjects
<1>7. CASE UNCHANGED dataVars
  BY <1>7 DEF dataVars
<1> QED
  BY <1>1, <1>2, <1>3, <1>4, <1>5, <1>6, <1>7
  DEF DataNext, GetRepository, RefreshStep

(* The storage is empty until the one refresh() has saved, and then holds  *)
(* what getData() returned.                                                *)
THEOREM StorageCorrect == DataSpec => []StorageFollowsRefresh
<1>1. DataInit => DataInv
  BY DEF DataInit, DataInv, FetchedIsResponse, StorageFollowsRefresh
<1>2. DataInv => StorageFollowsRefresh
  BY DEF DataInv
<1> QED
  BY <1>1, <1>2, DataInvInductive, PTL DEF DataSpec

(* Every step of the data layer is a Load or leaves the storage alone.     *)
LEMMA DataStepLoads ==
  ASSUME DataInv, [DataNext]_dataVars
  PROVE  [Storage!Load]_storedObjects
<1> SUFFICES ASSUME storedObjects' # storedObjects
             PROVE  Storage!Load
  OBVIOUS
<1>1. SaveObjects
  BY DEF DataNext, GetRepository, RefreshStep, CreateRepository, BeginGetData,
         GetDataSucceeds, GetDataFails, GetDataReturns, GetDataCancelled, dataVars
<1>2. storedObjects = << >> /\ storedObjects' = fetched
  BY <1>1 DEF SaveObjects, DataInv, StorageFollowsRefresh
<1> QED
  BY <1>2 DEF Storage!Load, DataInv, FetchedIsResponse

(* MuseumRepository, KtorMuseumApi and InMemoryMuseumStorage implement     *)
(* LoadOnce: the storage is replaced at most once in a process.            *)
THEOREM DataImplementsLoadOnce == DataSpec => LoadsOnce
<1>1. DataInit => DataInv /\ Storage!Init
  BY DEF DataInit, DataInv, FetchedIsResponse, StorageFollowsRefresh, Storage!Init
<1>2. DataInv /\ [DataNext]_dataVars => [Storage!Load]_storedObjects
  BY DataStepLoads
<1> QED
  BY <1>1, <1>2, DataInvInductive, PTL DEF DataSpec, LoadsOnce, Storage!Spec

-----------------------------------------------------------------------------

(* ListViewModel and ListScreen.                                           *)

LEMMA ListNextCases ==
  ASSUME [ListNext]_listSysVars
  PROVE  \/ Storage!Load /\ UNCHANGED listVars
         \/ UNCHANGED <<storedObjects, listVars>>
         \/ UNCHANGED storedObjects /\ (ComposeListFirst \/ ComposeListAgain
              \/ DisposeList \/ DropList \/ ListStep)
BY DEF ListNext, ListEnvironment, listSysVars

LEMMA ListTypeStep ==
  ASSUME ListTypeOK, storedObjects \in Seq(MuseumObject), [ListNext]_listSysVars
  PROVE  ListTypeOK' /\ storedObjects' \in Seq(MuseumObject)
<1>0. << >> \in Seq(MuseumObject)
  OBVIOUS
<1>1. ui' \in LifecycleStates
  BY DEF ListNext, ListEnvironment, listSysVars, ListTypeOK, LifecycleStates
<1> USE <1>1 DEF ListTypeOK, listVars, sharingVars, screenVars
<1>2. CASE Storage!Load /\ UNCHANGED listVars
  BY <1>2, ResponsesAssumption DEF Storage!Load
<1>3. CASE UNCHANGED <<storedObjects, listVars>>
  BY <1>3
<1>4. CASE UNCHANGED storedObjects /\ ComposeListFirst
  BY <1>4 DEF ComposeListFirst
<1>5. CASE UNCHANGED storedObjects /\ ComposeListAgain
  BY <1>5 DEF ComposeListAgain
<1>6. CASE UNCHANGED storedObjects /\ DisposeList
  BY <1>0, <1>6, Zenon DEF DisposeList
<1>7. CASE UNCHANGED storedObjects /\ DropList
  BY <1>0, <1>7, Zenon DEF DropList
<1>8. CASE UNCHANGED storedObjects /\ ListStep
  <2>1. CASE Subscribe \/ Unsubscribe \/ ShowObjects
    BY <1>8, <2>1, Zenon DEF Subscribe, Unsubscribe, ShowObjects
  <2>2. CASE StartSharing \/ ArmStopTimer \/ CancelStopTimer
    BY <1>8, <2>2, Zenon DEF StartSharing, ArmStopTimer, CancelStopTimer
  <2>3. CASE StopSharing \/ ShareObjects
    BY <1>8, <2>3, Zenon DEF StopSharing, ShareObjects
  <2> QED
    BY <1>8, <2>1, <2>2, <2>3 DEF ListStep
<1> QED
  BY <1>2, <1>3, <1>4, <1>5, <1>6, <1>7, <1>8, ListNextCases

(* Every value of ListViewModel's and ListScreen's state has its type.     *)
THEOREM ListTypeCorrect == ListSpec => []ListTypeOK
<1> DEFINE Inv == ListTypeOK /\ storedObjects \in Seq(MuseumObject)
<1>0. << >> \in Seq(MuseumObject)
  OBVIOUS
<1>1. ListStart => Inv
  BY <1>0, Zenon DEF ListStart, ListInit, Storage!Init, ListTypeOK, LifecycleStates
<1>2. Inv /\ [ListNext]_listSysVars => Inv'
  BY ListTypeStep
<1> QED
  BY <1>1, <1>2, PTL DEF ListSpec

(* viewModelScope and WhileSubscribed: no collection of the storage and no *)
(* delay before a STOP outlives the view model, and a delay runs only      *)
(* while there is a collection to stop.                                    *)
THEOREM SharingCorrect == ListSpec => []SharingIsScoped
<1> DEFINE Inv == SharingIsScoped /\ (listComposed => viewModel = "live")
<1>1. ListStart => Inv
  BY DEF ListStart, ListInit, SharingIsScoped
<1>2. Inv /\ [ListNext]_listSysVars => Inv'
  <2> SUFFICES ASSUME Inv, [ListNext]_listSysVars PROVE Inv'
    OBVIOUS
  <2> USE DEF SharingIsScoped, listVars, sharingVars, screenVars
  <2>1. CASE UNCHANGED listVars
    BY <2>1
  <2>2. CASE ComposeListFirst \/ ComposeListAgain \/ DisposeList \/ DropList
    BY <2>2 DEF ComposeListFirst, ComposeListAgain, DisposeList, DropList
  <2>3. CASE Subscribe \/ Unsubscribe \/ ShowObjects
    BY <2>3 DEF Subscribe, Unsubscribe, ShowObjects
  <2>4. CASE StartSharing \/ ArmStopTimer \/ CancelStopTimer \/ StopSharing \/ ShareObjects
    BY <2>4 DEF StartSharing, ArmStopTimer, CancelStopTimer, StopSharing, ShareObjects
  <2> QED
    BY <2>1, <2>2, <2>3, <2>4, ListNextCases DEF ListStep
<1> QED
  BY <1>1, <1>2, PTL DEF ListSpec

-----------------------------------------------------------------------------
(* What ListIsEmptyOrStored needs to be inductive for the action property: *)
(* a ListScreen that is not composed collects and remembers nothing.       *)
ListInv ==
  /\ ListIsEmptyOrStored
  /\ ~listComposed => ~subscribed /\ shownObjects = << >>

LEMMA ListInvInit == ListStart => ListInv
BY DEF ListStart, ListInit, Storage!Init, ListInv, ListIsEmptyOrStored

(* One step: the invariant is kept, and a grid on screen is not replaced.  *)
LEMMA ListInvStep ==
  ASSUME ListInv, [ListNext]_listSysVars
  PROVE  /\ ListInv'
         /\ shownObjects # << >> /\ listComposed' => shownObjects' = shownObjects
<1> USE DEF ListInv, ListIsEmptyOrStored, listVars, sharingVars, screenVars
<1>1. CASE Storage!Load /\ UNCHANGED listVars
  BY <1>1 DEF Storage!Load
<1>2. CASE UNCHANGED <<storedObjects, listVars>>
  BY <1>2
<1>3. CASE UNCHANGED storedObjects /\ ComposeListFirst
  BY <1>3 DEF ComposeListFirst
<1>4. CASE UNCHANGED storedObjects /\ ComposeListAgain
  BY <1>4 DEF ComposeListAgain
<1>5. CASE UNCHANGED storedObjects /\ DisposeList
  BY <1>5 DEF DisposeList
<1>6. CASE UNCHANGED storedObjects /\ DropList
  BY <1>6 DEF DropList
<1>7. CASE UNCHANGED storedObjects /\ ListStep
  <2>1. CASE Subscribe \/ Unsubscribe
    BY <1>7, <2>1 DEF Subscribe, Unsubscribe
  <2>2. CASE ShowObjects
    BY <1>7, <2>2 DEF ShowObjects
  <2>3. CASE StartSharing \/ ArmStopTimer \/ CancelStopTimer \/ StopSharing
    BY <1>7, <2>3 DEF StartSharing, ArmStopTimer, CancelStopTimer, StopSharing
  <2>4. CASE ShareObjects
    BY <1>7, <2>4 DEF ShareObjects
  <2> QED
    BY <1>7, <2>1, <2>2, <2>3, <2>4 DEF ListStep
<1> QED
  BY <1>1, <1>2, <1>3, <1>4, <1>5, <1>6, <1>7, ListNextCases

(* ListViewModel.objects and ListScreen hold nothing or the stored list,   *)
(* through every stop and start of the sharing.                            *)
THEOREM ListCorrect == ListSpec => []ListIsEmptyOrStored
<1>1. ListInv => ListIsEmptyOrStored
  BY DEF ListInv
<1>2. ListInv /\ [ListNext]_listSysVars => ListInv'
  BY ListInvStep
<1> QED
  BY <1>1, <1>2, ListInvInit, PTL DEF ListSpec

(* No step takes a grid off a composed ListScreen or changes it.           *)
THEOREM GridCorrect == ListSpec => GridNeverEmpties
<1>1. ListInv /\ [ListNext]_listSysVars => ListInv'
  BY ListInvStep
<1>2. ListInv /\ [ListNext]_listSysVars =>
        [shownObjects # << >> /\ listComposed' => shownObjects' = shownObjects]_listSysVars
  BY ListInvStep
<1> QED
  BY <1>1, <1>2, ListInvInit, PTL DEF ListSpec, GridNeverEmpties

-----------------------------------------------------------------------------

(* DetailScreen.                                                           *)

(* A set of natural numbers that is not empty has a smallest element.      *)
LEMMA MinInSet ==
  ASSUME NEW S \in SUBSET Nat, S # {}
  PROVE  Min(S) \in S
<1> DEFINE Less == OpToRel(<, Nat)
<1>1. \E x \in S : \A y \in S : ~(<<y, x>> \in Less)
  BY NatLessThanWellFounded, WFMin, Zenon
<1>2. ASSUME NEW x \in Nat, NEW y \in Nat, y < x
      PROVE  <<y, x>> \in Less
  <2>1. <<y, x>> \in Nat \X Nat /\ <<y, x>>[1] < <<y, x>>[2]
    BY <1>2
  <2> QED
    BY <2>1, Zenon DEF OpToRel
<1> HIDE DEF Less
<1>3. PICK x \in S : \A y \in S : ~(<<y, x>> \in Less)
  BY <1>1
<1>4. ASSUME NEW y \in S
      PROVE  x =< y
  <2>1. x \in Nat /\ y \in Nat
    OBVIOUS
  <2>2. ~(y < x)
    BY <1>2, <1>3, <2>1, Zenon
  <2> QED
    BY <2>1, <2>2
<1> QED
  BY <1>4, Zenon DEF Min

(* find { it.objectID == objectId } is null on an empty list, and else     *)
(* null or a member of the list that has the id.                           *)
LEMMA FindInEmpty == \A objectId : Find(<< >>, objectId) = NoObject
BY DEF Find, Matches

LEMMA FindIsMatch ==
  ASSUME NEW list \in Seq(MuseumObject), NEW objectId
  PROVE  \/ Find(list, objectId) = NoObject
         \/ /\ Find(list, objectId) \in MuseumObject
            /\ Find(list, objectId).objectID = objectId
<1>1. CASE Matches(list, objectId) = {}
  BY <1>1 DEF Find
<1>2. CASE Matches(list, objectId) # {}
  <2>1. Matches(list, objectId) \in SUBSET Nat
    BY DEF Matches
  <2>2. Min(Matches(list, objectId)) \in Matches(list, objectId)
    BY <1>2, <2>1, MinInSet
  <2>3. Find(list, objectId) = list[Min(Matches(list, objectId))]
    BY <1>2 DEF Find
  <2> QED
    BY <2>2, <2>3 DEF Matches
<1> QED
  BY <1>1, <1>2

-----------------------------------------------------------------------------
(* The shape of a pane that makes obj!! safe: content for TRUE is composed *)
(* or about to be only over an object, which LoadOnce then keeps; a screen *)
(* that is not composed remembers nothing.                                 *)
PaneInv(e) ==
  /\ TRUE \in pane[e].contents \/ pane[e].target => pane[e].obj # NoObject
  /\ ~pane[e].composed => pane[e] = NoPane

DetailInv ==
  /\ storedObjects \in Seq(MuseumObject)
  /\ DetailTypeOK
  /\ PaneShowsItsObject
  /\ \A e \in Entries : PaneInv(e)
  /\ NoNullDereference

LEMMA NoPaneIsPane == NoPane \in Pane /\ NewPane \in Pane
BY Zenon DEF NoPane, NewPane, Pane

LEMMA NoPaneFields ==
  /\ NoPane.obj = NoObject
  /\ NoPane.contents = {}
  /\ NoPane.target = FALSE
BY DEF NoPane

LEMMA DetailInvInit == DetailStart => DetailInv
<1> SUFFICES ASSUME DetailStart PROVE DetailInv
  OBVIOUS
<1>1. storedObjects \in Seq(MuseumObject)
  BY DEF DetailStart, Storage!Init
<1>2. DetailTypeOK
  BY NoPaneIsPane DEF DetailStart, DetailInit, DetailTypeOK
<1>3. \A e \in Entries : pane[e] = NoPane
  BY DEF DetailStart, DetailInit
<1>4. PaneShowsItsObject /\ \A e \in Entries : PaneInv(e)
  BY <1>3, NoPaneFields, Zenon DEF PaneShowsItsObject, PaneInv
<1>5. NoNullDereference
  BY DEF DetailStart, NoNullDereference
<1> QED
  BY <1>1, <1>2, <1>4, <1>5 DEF DetailInv

(* A step that changes the pane of one entry only.                         *)
LEMMA OnePaneChanges ==
  ASSUME DetailInv, NEW e \in Entries, NEW p \in Pane,
         pane' = [pane EXCEPT ![e] = p],
         p.obj \in {NoObject, Find(storedObjects, route[e])},
         TRUE \in p.contents \/ p.target => p.obj # NoObject,
         ~p.composed => p = NoPane,
         crash' # "npe", UNCHANGED <<storedObjects, route>>
  PROVE  DetailInv'
<1>1. pane \in [Entries -> Pane]
  BY DEF DetailInv, DetailTypeOK
<1>2. \A f \in Entries : pane'[f] = IF f = e THEN p ELSE pane[f]
  BY <1>1
<1>3. DetailTypeOK'
  BY <1>1 DEF DetailInv, DetailTypeOK
<1>4. PaneShowsItsObject'
  BY <1>2 DEF DetailInv, PaneShowsItsObject
<1>5. \A f \in Entries : PaneInv(f)'
  BY <1>2, ZenonT(30) DEF DetailInv, PaneInv
<1> QED
  BY <1>3, <1>4, <1>5 DEF DetailInv, NoNullDereference

(* A step that only takes panes out of the composition.                    *)
LEMMA PanesLeave ==
  ASSUME DetailInv, NEW kept \in SUBSET Entries, KeepPanes(kept),
         UNCHANGED <<storedObjects, route, crash>>
  PROVE  DetailInv'
<1>1. pane \in [Entries -> Pane]
  BY DEF DetailInv, DetailTypeOK
<1>2. \A f \in Entries : pane'[f] = pane[f] \/ pane'[f] = NoPane
  BY DEF KeepPanes
<1>3. DetailTypeOK'
  BY <1>1, NoPaneIsPane DEF DetailInv, DetailTypeOK, KeepPanes
<1>4. PaneShowsItsObject'
  BY <1>2, NoPaneFields DEF DetailInv, PaneShowsItsObject
<1>5. \A f \in Entries : PaneInv(f)'
  <2> SUFFICES ASSUME NEW f \in Entries PROVE PaneInv(f)'
    OBVIOUS
  <2>1. CASE pane'[f] = pane[f]
    BY <2>1, Zenon DEF DetailInv, PaneInv
  <2>2. CASE pane'[f] = NoPane
    BY <2>2, NoPaneFields, Zenon DEF PaneInv
  <2> QED
    BY <1>2, <2>1, <2>2
<1> QED
  BY <1>3, <1>4, <1>5 DEF DetailInv, NoNullDereference

(* Storage!Load: as long as the storage is empty no pane has an object.    *)
LEMMA LoadKeepsPanes ==
  ASSUME DetailInv, Storage!Load, UNCHANGED <<detailVars, crash>>
  PROVE  DetailInv'
<1>1. storedObjects' \in Seq(MuseumObject)
  BY ResponsesAssumption DEF Storage!Load
<1>2. \A e \in Entries : pane[e].obj = NoObject
  BY FindInEmpty DEF DetailInv, PaneShowsItsObject, Storage!Load
<1>3. UNCHANGED <<route, pane, crash>>
  BY DEF detailVars
<1>4. PaneShowsItsObject'
  BY <1>2, <1>3 DEF PaneShowsItsObject
<1>5. \A e \in Entries : PaneInv(e)'
  BY <1>3, Zenon DEF DetailInv, PaneInv
<1> QED
  BY <1>1, <1>3, <1>4, <1>5 DEF DetailInv, DetailTypeOK, NoNullDereference

(* navigate() gives a new route to an entry without a pane.                *)
LEMMA NavigateKeepsPanes ==
  ASSUME DetailInv, NEW e \in Entries, NEW objectId \in Ids,
         Navigate(e, objectId), UNCHANGED <<storedObjects, crash>>
  PROVE  DetailInv'
<1>1. route \in [Entries -> Ids] /\ UNCHANGED pane
  BY DEF DetailInv, DetailTypeOK, Navigate
<1>2. pane[e].obj = NoObject
  BY NoPaneFields, Zenon DEF DetailInv, PaneInv, Navigate
<1>3. \A f \in Entries : f # e => route'[f] = route[f]
  BY <1>1 DEF Navigate
<1>4. PaneShowsItsObject'
  BY <1>1, <1>2, <1>3 DEF DetailInv, PaneShowsItsObject
<1>5. DetailTypeOK'
  BY <1>1 DEF DetailInv, DetailTypeOK, Navigate
<1>6. \A f \in Entries : PaneInv(f)'
  BY <1>1, Zenon DEF DetailInv, PaneInv
<1> QED
  BY <1>4, <1>5, <1>6 DEF DetailInv, NoNullDereference

-----------------------------------------------------------------------------
LEMMA DetailStepKeepsInv ==
  ASSUME DetailInv, NEW e \in Entries, DetailStep(e), UNCHANGED storedObjects
  PROVE  DetailInv'
<1>1. /\ pane \in [Entries -> Pane] /\ pane[e] \in Pane
      /\ pane[e].obj \in {NoObject, Find(storedObjects, route[e])}
      /\ PaneInv(e) /\ crash # "npe"
  BY DEF DetailInv, DetailTypeOK, PaneShowsItsObject, NoNullDereference
<1>2. CASE CollectObject(e)
  <2> DEFINE p == [pane[e] EXCEPT !.collecting = TRUE]
  <2>1. /\ p \in Pane /\ p.obj = pane[e].obj /\ p.contents = pane[e].contents
        /\ p.target = pane[e].target /\ p.composed = pane[e].composed
    BY <1>1, Zenon DEF Pane
  <2>2. pane' = [pane EXCEPT ![e] = p]
    BY <1>2 DEF CollectObject
  <2>3. p.composed
    BY <1>2, <2>1 DEF CollectObject
  <2> HIDE DEF p
  <2> QED
    BY <1>1, <1>2, <2>1, <2>2, <2>3, OnePaneChanges, Zenon DEF CollectObject, PaneInv
<1>3. CASE StopCollecting(e)
  <2> DEFINE p == [pane[e] EXCEPT !.collecting = FALSE]
  <2>1. /\ p \in Pane /\ p.obj = pane[e].obj /\ p.contents = pane[e].contents
        /\ p.target = pane[e].target /\ p.composed = pane[e].composed
    BY <1>1, Zenon DEF Pane
  <2>2. pane' = [pane EXCEPT ![e] = p]
    BY <1>3 DEF StopCollecting
  <2>3. p.composed
    BY <1>1, <1>3, <2>1 DEF StopCollecting, PaneInv, NoPane
  <2> HIDE DEF p
  <2> QED
    BY <1>1, <1>3, <2>1, <2>2, <2>3, OnePaneChanges, Zenon DEF StopCollecting, PaneInv
<1>4. CASE ReceiveObject(e)
  <2> DEFINE found == Find(storedObjects, route[e])
             p == [pane[e] EXCEPT !.obj = found, !.dirty = TRUE]
  <2>1. found \in MuseumObject \cup {NoObject}
    BY FindIsMatch DEF DetailInv
  <2>2. /\ p \in Pane /\ p.obj = found /\ p.contents = pane[e].contents
        /\ p.target = pane[e].target /\ p.composed = pane[e].composed
    BY <1>1, <2>1, Zenon DEF Pane
  <2>3. pane' = [pane EXCEPT ![e] = p]
    BY <1>1, <1>4, Zenon DEF ReceiveObject
  <2>4. p.composed
    BY <1>1, <1>4, <2>2 DEF ReceiveObject, PaneInv, NoPane
  (* The State held null: another object would have to be this one.        *)
  <2>5. pane[e].obj = NoObject /\ found # NoObject
    BY <1>1, <1>4 DEF ReceiveObject
  <2> HIDE DEF p, found
  <2>6. p.obj \in {NoObject, Find(storedObjects, route[e])}
    BY <2>2 DEF found
  <2> QED
    BY <1>1, <1>4, <2>2, <2>3, <2>4, <2>5, <2>6, OnePaneChanges, Zenon
    DEF ReceiveObject
<1>5. CASE RecomposeDetail(e)
  <2> DEFINE available == pane[e].obj # NoObject
             c == pane[e].contents \cup {available}
             p == [pane[e] EXCEPT !.dirty = FALSE, !.collecting = FALSE,
                                  !.target = available, !.contents = c]
  <2>1. /\ p \in Pane /\ p.obj = pane[e].obj /\ p.contents = c
        /\ p.target = available /\ p.composed = pane[e].composed
    BY <1>1, Zenon DEF Pane
  <2>2. pane' = [pane EXCEPT ![e] = p]
    BY <1>1, <1>5, Zenon DEF RecomposeDetail
  <2>3. p.composed
    BY <1>1, <1>5, <2>1 DEF RecomposeDetail, PaneInv, NoPane
  (* Content for TRUE that is still composed was composed over an object.  *)
  <2>4. TRUE \in c => available
    BY <1>1, Zenon DEF PaneInv
  <2>5. crash' # "npe" /\ UNCHANGED route
    BY <1>1, <1>5, <2>4, Zenon DEF RecomposeDetail
  <2>6. TRUE \in p.contents \/ p.target => p.obj # NoObject
    BY <2>1, <2>4, Zenon
  <2> HIDE DEF p
  <2> QED
    BY <1>1, <2>1, <2>2, <2>3, <2>5, <2>6, OnePaneChanges, Zenon
<1>6. CASE ContentSettles(e)
  <2> DEFINE p == [pane[e] EXCEPT !.contents = {pane[e].target}]
  <2>1. /\ p \in Pane /\ p.obj = pane[e].obj /\ p.contents = {pane[e].target}
        /\ p.target = pane[e].target /\ p.composed = pane[e].composed
    BY <1>1 DEF Pane
  <2>2. pane' = [pane EXCEPT ![e] = p]
    BY <1>1, <1>6 DEF ContentSettles
  <2>3. p.composed
    BY <1>6, <2>1 DEF ContentSettles
  <2>4. TRUE \in p.contents \/ p.target => p.obj # NoObject
    BY <1>1, <2>1, Zenon DEF PaneInv
  <2> HIDE DEF p
  <2> QED
    BY <1>1, <1>6, <2>1, <2>2, <2>3, <2>4, OnePaneChanges, Zenon DEF ContentSettles
<1> QED
  BY <1>2, <1>3, <1>4, <1>5, <1>6 DEF DetailStep

LEMMA DetailInvStep == DetailInv /\ [DetailNext]_detailSysVars => DetailInv'
<1> SUFFICES ASSUME DetailInv, [DetailNext]_detailSysVars
             PROVE  DetailInv'
  OBVIOUS
<1>1. CASE Storage!Load /\ UNCHANGED <<detailVars, crash>>
  BY <1>1, LoadKeepsPanes
<1>2. CASE UNCHANGED <<storedObjects, detailVars, crash>>
  BY <1>2, Zenon DEF DetailInv, DetailTypeOK, PaneShowsItsObject, PaneInv,
              NoNullDereference, detailVars
<1>3. ASSUME NEW kept \in SUBSET Entries, KeepPanes(kept),
             UNCHANGED <<storedObjects, route, crash>>
      PROVE  DetailInv'
  BY <1>3, PanesLeave
<1>4. ASSUME NEW e \in Entries, NEW objectId \in Ids,
             Navigate(e, objectId), UNCHANGED <<storedObjects, crash>>
      PROVE  DetailInv'
  BY <1>4, NavigateKeepsPanes
<1>5. ASSUME NEW e \in Entries, ComposeDetail(e), UNCHANGED storedObjects
      PROVE  DetailInv'
  <2>1. /\ NewPane.obj = NoObject /\ NewPane.contents = {FALSE}
        /\ NewPane.target = FALSE /\ NewPane.composed = TRUE
    BY DEF NewPane, NoPane
  <2>2. TRUE \in NewPane.contents \/ NewPane.target => NewPane.obj # NoObject
    BY <2>1, Zenon
  <2>3. crash # "npe"
    BY DEF DetailInv, NoNullDereference
  <2> QED
    BY <1>5, <2>1, <2>2, <2>3, NoPaneIsPane, OnePaneChanges, Zenon DEF ComposeDetail
<1>6. ASSUME NEW e \in Entries, DetailStep(e), UNCHANGED storedObjects
      PROVE  DetailInv'
  BY <1>6, DetailStepKeepsInv
<1> QED
  BY <1>1, <1>2, <1>3, <1>4, <1>5, <1>6 DEF DetailNext, DetailEnvironment, detailSysVars

-----------------------------------------------------------------------------
(* Every value of DetailScreen's state has its type.                       *)
THEOREM DetailTypeCorrect == DetailSpec => []DetailTypeOK
<1>1. DetailInv => DetailTypeOK
  BY DEF DetailInv
<1> QED
  BY <1>1, DetailInvInit, DetailInvStep, PTL DEF DetailSpec

(* The obj!! of DetailScreen.kt never fails, over any storage that loads   *)
(* its list once.                                                          *)
THEOREM NoNullDereferenceCorrect == DetailSpec => []NoNullDereference
<1>1. DetailInv => NoNullDereference
  BY DEF DetailInv
<1> QED
  BY <1>1, DetailInvInit, DetailInvStep, PTL DEF DetailSpec

(* Every DetailScreen shows nothing or the stored object of its own route. *)
THEOREM PaneCorrect == DetailSpec => []PaneShowsItsObject
<1>1. DetailInv => PaneShowsItsObject
  BY DEF DetailInv
<1> QED
  BY <1>1, DetailInvInit, DetailInvStep, PTL DEF DetailSpec

-----------------------------------------------------------------------------

(* The chat.                                                               *)

LEMMA ChatTypeInit == ChatInit => ChatTypeOK
<1>1. << >> \in Seq(ServerMessages) /\ << >> \in Seq({Hello})
  OBVIOUS
<1> QED
  BY <1>1, Zenon DEF ChatInit, ChatTypeOK

LEMMA ChatTypeStep == ChatTypeOK /\ [ChatNext]_chatVars => ChatTypeOK'
<1> SUFFICES ASSUME ChatTypeOK, [ChatNext]_chatVars
             PROVE  ChatTypeOK'
  OBVIOUS
<1>0. << >> \in Seq(ServerMessages) /\ << >> \in Seq({Hello}) /\ <<Hello>> \in Seq({Hello})
  OBVIOUS
<1> USE DEF ChatTypeOK
<1>1. CASE OpenChat
  BY <1>0, <1>1, Zenon DEF OpenChat
<1>2. CASE EmitHello \/ CompleteRequests
  BY <1>0, <1>2, Zenon DEF EmitHello, CompleteRequests
<1>3. ASSUME NEW m \in ServerMessages, ServerStreams(m)
      PROVE  ChatTypeOK'
  BY <1>3 DEF ServerStreams
<1>4. CASE LogMessage
  BY <1>4 DEF LogMessage
<1>5. CASE CallCompletes \/ CallFails
  BY <1>0, <1>5, Zenon DEF CallCompletes, CallFails
<1>6. CASE CancelChat
  BY <1>0, <1>6, Zenon DEF CancelChat
<1>7. CASE UNCHANGED chatVars
  BY <1>7 DEF chatVars
<1> QED
  BY <1>1, <1>2, <1>3, <1>4, <1>5, <1>6, <1>7 DEF ChatNext, ChatStep

(* Every value of the chat's state has its type.                           *)
THEOREM ChatTypeCorrect == ChatSpec => []ChatTypeOK
BY ChatTypeInit, ChatTypeStep, PTL DEF ChatSpec

LEMMA LogStep ==
  ASSUME ChatTypeOK, LogFollowsStream, [ChatNext]_chatVars
  PROVE  LogFollowsStream'
<1>0. logged \o << >> = logged
  BY ConcatEmptySeq DEF ChatTypeOK
<1> USE DEF LogFollowsStream
<1>1. CASE OpenChat
  BY <1>1, EmptyLog DEF OpenChat
<1>2. CASE EmitHello \/ CompleteRequests
  BY <1>2, Zenon DEF EmitHello, CompleteRequests
<1>3. ASSUME NEW m \in ServerMessages, ServerStreams(m)
      PROVE  LogFollowsStream'
  <2>1. logged \o inbox' = serverSent' /\ inbox' \in Seq(ServerMessages)
    BY <1>3, AppendToConcat DEF ServerStreams, ChatTypeOK
  <2>2. IsStartOf(logged, serverSent')
    BY <2>1, StartOfConcat, Zenon DEF ChatTypeOK
  <2> QED
    BY <1>3, <2>1, <2>2 DEF ServerStreams
<1>4. CASE LogMessage
  <2>1. Append(logged, Head(inbox)) \o Tail(inbox) = logged \o inbox
    BY <1>4, MoveHead, Zenon DEF LogMessage, ChatTypeOK
  <2>2. logged' \o inbox' = serverSent'
    BY <1>4, <2>1, Zenon DEF LogMessage
  <2>3. logged' \in Seq(ServerMessages) /\ inbox' \in Seq(ServerMessages)
    BY <1>4 DEF LogMessage, ChatTypeOK
  <2>4. IsStartOf(logged', serverSent')
    BY <2>2, <2>3, StartOfConcat, Zenon
  <2> QED
    BY <1>4, <2>2, <2>4 DEF LogMessage
<1>5. CASE CallCompletes
  BY <1>0, <1>5 DEF CallCompletes
<1>6. CASE CallFails
  BY <1>6 DEF CallFails
<1>7. CASE CancelChat
  BY <1>0, <1>7 DEF CancelChat
<1>8. CASE UNCHANGED chatVars
  BY <1>8 DEF chatVars
<1> QED
  BY <1>1, <1>2, <1>3, <1>4, <1>5, <1>6, <1>7, <1>8 DEF ChatNext, ChatStep

(* The log is the stream, in order and without gaps, up to what is still   *)
(* to be collected.                                                        *)
THEOREM LogCorrect == ChatSpec => []LogFollowsStream
<1>1. ChatInit => LogFollowsStream
  BY EmptyLog DEF ChatInit, LogFollowsStream
<1> QED
  BY <1>1, LogStep, ChatTypeCorrect, PTL DEF ChatSpec

=============================================================================
