---------------------------- MODULE ListObjects -----------------------------
(***************************************************************************)
(* ListViewModel.objects, the StateFlow made by                            *)
(*     stateIn(viewModelScope, SharingStarted.WhileSubscribed(5000),       *)
(*             emptyList())                                                *)
(* and ListScreen, which collects it with the lifecycle.  The storage is   *)
(* the environment: it behaves as LoadOnce says.  All steps but the        *)
(* storage's run on the main thread.                                       *)
(***************************************************************************)
EXTENDS MuseumStorage, Lifecycle

VARIABLES
  viewModel,      \* "none", or "live" from creation until onCleared()
  objects,        \* the value of ListViewModel.objects
  sharing,        \* the last SharingCommand: "idle" before the first START
  stopTimer,      \* the delay(5000) of WhileSubscribed is running
  listComposed,   \* ListScreen is in the composition
  subscribed,     \* its collector is a subscriber of ListViewModel.objects
  shownObjects    \* the State that ListScreen reads

screenVars  == <<listComposed, subscribed, shownObjects>>
sharingVars == <<objects, sharing, stopTimer>>
listVars    == <<viewModel, sharingVars, screenVars>>
listSysVars == <<storedObjects, ui, listVars>>

ListInit ==
  /\ viewModel = "none"
  /\ objects = << >>
  /\ sharing = "idle"
  /\ stopTimer = FALSE
  /\ listComposed = FALSE
  /\ subscribed = FALSE
  /\ shownObjects = << >>

-----------------------------------------------------------------------------
(* ListScreen.                                                             *)

(* The first composition creates the view model, whose flow starts with    *)
(* emptyList().                                                            *)
ComposeListFirst ==
  /\ viewModel = "none"
  /\ ~listComposed
  /\ viewModel' = "live"
  /\ listComposed' = TRUE
  /\ UNCHANGED <<sharingVars, subscribed, shownObjects>>

(* Variant, a fault: the screen reads the storage past the view model.     *)
ComposeListFromStorage ==
  /\ viewModel = "live"
  /\ ~listComposed
  /\ listComposed' = TRUE
  /\ shownObjects' = storedObjects
  /\ UNCHANGED <<viewModel, sharingVars, subscribed>>

(* Coming back finds the view model of the back stack entry, and starts    *)
(* from the current value of its flow.                                     *)
ComposeListAgain ==
  /\ viewModel = "live"
  /\ ~listComposed
  /\ listComposed' = TRUE
  /\ shownObjects' = objects
  /\ UNCHANGED <<viewModel, sharingVars, subscribed>>

(* collectAsStateWithLifecycle collects while the lifecycle is STARTED.    *)
Subscribe ==
  /\ ui = "started"
  /\ listComposed /\ ~subscribed
  /\ subscribed' = TRUE
  /\ UNCHANGED <<viewModel, sharingVars, listComposed, shownObjects>>

Unsubscribe ==
  /\ ui # "started"
  /\ subscribed
  /\ subscribed' = FALSE
  /\ UNCHANGED <<viewModel, sharingVars, listComposed, shownObjects>>

ShowObjects ==
  /\ ui = "started"
  /\ subscribed
  /\ shownObjects # objects
  /\ shownObjects' = objects
  /\ UNCHANGED <<viewModel, sharingVars, listComposed, subscribed>>

(* ListScreen leaves the composition; the view model stays.                *)
DisposeList ==
  /\ listComposed' = FALSE
  /\ subscribed' = FALSE
  /\ shownObjects' = << >>
  /\ UNCHANGED <<viewModel, sharingVars>>

(* Variant, a fault: the flow is shared in a scope that outlives the view  *)
(* model.                                                                  *)
DropListOnly ==
  /\ viewModel' = "none"
  /\ listComposed' = FALSE
  /\ subscribed' = FALSE
  /\ shownObjects' = << >>
  /\ UNCHANGED sharingVars

(* The view model goes too, and viewModelScope is cancelled.               *)
DropList ==
  /\ viewModel' = "none"
  /\ objects' = << >>
  /\ sharing' = "idle"
  /\ stopTimer' = FALSE
  /\ listComposed' = FALSE
  /\ subscribed' = FALSE
  /\ shownObjects' = << >>

-----------------------------------------------------------------------------
(* The sharing coroutine.  A change of the subscription count reaches it   *)
(* by a dispatch, so each reaction is a step of its own.                   *)

(* Variant, a fault: only the first subscriber starts the sharing.         *)
StartSharingOnce ==
  /\ viewModel = "live"
  /\ subscribed
  /\ sharing = "idle"
  /\ sharing' = "started"
  /\ UNCHANGED <<viewModel, objects, stopTimer, screenVars>>

(* START: collect the upstream.                                            *)
StartSharing ==
  /\ viewModel = "live"
  /\ subscribed
  /\ sharing # "started"
  /\ sharing' = "started"
  /\ UNCHANGED <<viewModel, objects, stopTimer, screenVars>>

(* Variant, a fault: SharingStarted.Lazily, which stops only with the view *)
(* model.                                                                  *)
ArmStopTimerLazily ==
  /\ viewModel = "none"
  /\ sharing = "started" /\ ~stopTimer
  /\ stopTimer' = TRUE
  /\ UNCHANGED <<viewModel, objects, sharing, screenVars>>

(* The last subscriber left: delay(5000).                                  *)
ArmStopTimer ==
  /\ ~subscribed
  /\ sharing = "started" /\ ~stopTimer
  /\ stopTimer' = TRUE
  /\ UNCHANGED <<viewModel, objects, sharing, screenVars>>

(* A subscriber came back in time; transformLatest cancels the delay, and  *)
(* distinctUntilChanged drops the second START.                            *)
CancelStopTimer ==
  /\ subscribed
  /\ stopTimer
  /\ stopTimer' = FALSE
  /\ UNCHANGED <<viewModel, objects, sharing, screenVars>>

(* Variant, a fault: replayExpirationMillis = 0 resets the value.          *)
StopSharingAndReset ==
  /\ stopTimer
  /\ stopTimer' = FALSE
  /\ sharing' = "stopped"
  /\ objects' = << >>
  /\ UNCHANGED <<viewModel, screenVars>>

(* STOP: cancel the upstream collection and keep the value, as             *)
(* replayExpirationMillis has its default.  A subscriber that came back    *)
(* while the expired delay was being dispatched does not prevent it.       *)
StopSharing ==
  /\ stopTimer
  /\ stopTimer' = FALSE
  /\ sharing' = "stopped"
  /\ UNCHANGED <<viewModel, objects, screenVars>>

(* The upstream collector copies the storage, which conflates.             *)
ShareObjects ==
  /\ sharing = "started"
  /\ objects # storedObjects
  /\ objects' = storedObjects
  /\ UNCHANGED <<viewModel, sharing, stopTimer, screenVars>>

-----------------------------------------------------------------------------
ListStep ==
  \/ Subscribe \/ Unsubscribe \/ ShowObjects
  \/ StartSharing \/ ArmStopTimer \/ CancelStopTimer \/ StopSharing
  \/ ShareObjects

ListStart == Storage!Init /\ ui = "started" /\ ListInit

(* What the rest of the app does to the list, in any order.                *)
ListEnvironment ==
  \/ Storage!Load /\ UNCHANGED <<ui, listVars>>
  \/ /\ ui' \in LifecycleStates
     /\ UNCHANGED <<storedObjects, listVars>>
  \/ /\ \/ ui = "started" /\ (ComposeListFirst \/ ComposeListAgain)
        \/ listComposed /\ DisposeList
     /\ UNCHANGED <<storedObjects, ui>>
  \/ /\ viewModel = "live" /\ DropList
     /\ ui' \in {ui, "none"}
     /\ UNCHANGED storedObjects

ListNext == ListEnvironment \/ (ListStep /\ UNCHANGED <<storedObjects, ui>>)

(* The main thread runs the coroutines that are ready, and the delay ends. *)
(* Nothing is assumed of the user, the system or the storage.              *)
ListFairness ==
  /\ WF_listSysVars(Subscribe /\ UNCHANGED <<storedObjects, ui>>)
  /\ WF_listSysVars(ShowObjects /\ UNCHANGED <<storedObjects, ui>>)
  /\ WF_listSysVars(StartSharing /\ UNCHANGED <<storedObjects, ui>>)
  /\ WF_listSysVars(ArmStopTimer /\ UNCHANGED <<storedObjects, ui>>)
  /\ WF_listSysVars(StopSharing /\ UNCHANGED <<storedObjects, ui>>)
  /\ WF_listSysVars(ShareObjects /\ UNCHANGED <<storedObjects, ui>>)

ListSpec == ListStart /\ [][ListNext]_listSysVars /\ ListFairness

-----------------------------------------------------------------------------
(* ListViewModel and ListScreen keep to their types.                       *)
ListTypeOK ==
  /\ ui \in LifecycleStates
  /\ viewModel \in {"none", "live"}
  /\ sharing \in {"idle", "started", "stopped"}
  /\ stopTimer \in BOOLEAN
  /\ listComposed \in BOOLEAN
  /\ subscribed \in BOOLEAN
  /\ objects \in Seq(MuseumObject)
  /\ shownObjects \in Seq(MuseumObject)

(* viewModelScope and WhileSubscribed: the storage is collected, and the   *)
(* delay before a STOP runs, only for a live view model; the delay runs    *)
(* only while there is something to stop, so that no late STOP meets a     *)
(* collection that a new START has begun.                                  *)
SharingIsScoped ==
  /\ subscribed => listComposed /\ viewModel = "live"
  /\ sharing = "started" => viewModel = "live"
  /\ stopTimer => sharing = "started"

(* ListScreen shows nothing or the stored list, never a third value,       *)
(* however often sharing stopped and started in between; and it is never   *)
(* ahead of the view model's flow.                                         *)
ListIsEmptyOrStored ==
  /\ objects \in {<< >>, storedObjects}
  /\ shownObjects \in {<< >>, objects}

(* A grid on screen is never replaced by "No data available": not by a     *)
(* stop of the sharing, not by leaving the foreground and coming back.     *)
GridNeverEmpties ==
  [][shownObjects # << >> /\ listComposed' => shownObjects' = shownObjects]_listSysVars

(* A stored list reaches the screen as long as the user looks at it, also  *)
(* when it arrives while the sharing is stopped.                           *)
StoredListIsShown ==
  (storedObjects # << >> /\ listComposed /\ ui = "started")
    ~> (shownObjects = storedObjects \/ ~listComposed \/ ui # "started")

(* Without a subscriber the upstream collection does not go on for ever.   *)
UnobservedSharingStops ==
  (sharing = "started" /\ ~subscribed) ~> (sharing # "started" \/ subscribed)

=============================================================================
