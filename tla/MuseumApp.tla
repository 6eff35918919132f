----------------------------- MODULE MuseumApp ------------------------------
(***************************************************************************)
(* The whole app: App()'s NavHost and its back stack, the life cycle of    *)
(* the Activity (Android) or view controller (iOS) and of the process,     *)
(* composed with the data layer (MuseumData), the list (ListObjects), the  *)
(* details (DetailObjects) and the chat (ChatStream).                      *)
(***************************************************************************)
EXTENDS MuseumData, ListObjects, DetailObjects, ChatStream, SequencesExt

CONSTANT Platform   \* "android" or "ios"

ASSUME PlatformAssumption == Platform \in {"android", "ios"}

(* The components share the storage, the lifecycle and what ended the      *)
(* process.                                                                *)
VARIABLE backStack   \* the NavController's entries, the root graph left out

appVars == <<backStack, ui, crash>>
vars    == <<dataVars, listVars, detailVars, chatVars, appVars>>

ListDestination == "list"

ASSUME EntriesAssumption == ListDestination \notin Entries

AppInit ==
  /\ DataInit
  /\ ListInit
  /\ DetailInit
  /\ ChatInit
  /\ backStack = << >>
  /\ ui = "none"
  /\ crash = "none"

OnTop(entry) == backStack # << >> /\ Last(backStack) = entry

-----------------------------------------------------------------------------
(* The process is up and has run initKoin(); the Activity or the view      *)
(* controller is created, and NavHost starts at ListDestination.           *)
Launch ==
  /\ ui = "none"
  /\ ui' = "started"
  /\ backStack' = <<ListDestination>>
  /\ UNCHANGED <<dataVars, listVars, detailVars, chatVars, crash>>

(* Variant, a fault: every composition opens a chat.                       *)
ShowListAndChat ==
  /\ ui = "started"
  /\ OnTop(ListDestination)
  /\ \/ ComposeListFirst /\ GetRepository
     \/ ComposeListAgain /\ UNCHANGED dataVars
  /\ OpenChat
  /\ UNCHANGED <<detailVars, appVars>>

(* NavHost composes the top of the back stack.  The first view model that  *)
(* is created makes Koin create the repository; ListViewModel's init block *)
(* opens the chat.                                                         *)
ShowList ==
  /\ ui = "started"
  /\ OnTop(ListDestination)
  /\ \/ ComposeListFirst /\ GetRepository /\ OpenChat
     \/ ComposeListAgain /\ UNCHANGED <<dataVars, chatVars>>
  /\ UNCHANGED <<detailVars, appVars>>

ShowDetail(e) ==
  /\ ui = "started"
  /\ OnTop(e)
  /\ ComposeDetail(e)
  /\ GetRepository
  /\ UNCHANGED <<listVars, chatVars, backStack, ui>>

(* The transition between two destinations ends: only the top of the back  *)
(* stack stays composed.  Until then the screen that leaves takes clicks.  *)
FinishTransition ==
  /\ ui = "started"
  /\ \/ /\ OnTop(ListDestination) /\ listComposed
        /\ \E e \in Entries : pane[e].composed
        /\ KeepPanes({})
        /\ UNCHANGED listVars
     \/ \E top \in Entries :
          /\ OnTop(top) /\ pane[top].composed
          /\ listComposed \/ \E e \in Entries \ {top} : pane[e].composed
          /\ KeepPanes({top})
          /\ DisposeList
  /\ UNCHANGED <<dataVars, route, chatVars, appVars>>

-----------------------------------------------------------------------------
(* Variant, a fault: the position of the item in place of its id.          *)
ClickPosition(i, e) ==
  /\ ui = "started"
  /\ listComposed
  /\ ~Contains(backStack, e)
  /\ Navigate(e, i)
  /\ backStack' = Append(backStack, e)
  /\ UNCHANGED <<dataVars, listVars, chatVars, ui, crash>>

(* navController.navigate(DetailDestination(obj.objectID)), from a click   *)
(* on an item of the grid.  Nothing makes the entry single-top.            *)
ClickObject(i, e) ==
  /\ ui = "started"
  /\ listComposed
  /\ ~Contains(backStack, e)
  /\ Navigate(e, shownObjects[i].objectID)
  /\ backStack' = Append(backStack, e)
  /\ UNCHANGED <<dataVars, listVars, chatVars, ui, crash>>

(* Variant, a fault: popBackStack(ListDestination, inclusive = true).      *)
PopAll ==
  /\ backStack' = << >>
  /\ DropList
  /\ CancelChat
  /\ KeepPanes({})
  /\ UNCHANGED <<dataVars, route, ui, crash>>

(* navController.popBackStack().  Popping the last entry leaves NavHost    *)
(* with nothing to compose, and clears its view models.                    *)
PopBackStack ==
  /\ backStack' = Front(backStack)
  /\ \/ /\ Len(backStack) > 1
        /\ UNCHANGED <<listVars, pane, chatVars>>
     \/ /\ Len(backStack) = 1
        /\ DropList
        /\ CancelChat
        /\ KeepPanes({})
  /\ UNCHANGED <<dataVars, route, ui, crash>>

(* The back button of ObjectDetails.                                       *)
ClickBack(e) ==
  /\ ui = "started"
  /\ ShowsDetails(e)
  /\ PopBackStack

(* Android's back gesture pops a detail, and finishes the Activity when    *)
(* there is none; its view models go, the process and its data stay.       *)
SystemBack ==
  /\ Platform = "android"
  /\ ui = "started"
  /\ \/ Len(backStack) > 1 /\ PopBackStack
     \/ /\ Len(backStack) <= 1
        /\ ui' = "none"
        /\ backStack' = << >>
        /\ DropList
        /\ CancelChat
        /\ KeepPanes({})
        /\ UNCHANGED <<dataVars, route, crash>>

-----------------------------------------------------------------------------
Background ==
  /\ ui = "started"
  /\ ui' = "stopped"
  /\ UNCHANGED <<dataVars, listVars, detailVars, chatVars, backStack, crash>>

Foreground ==
  /\ ui = "stopped"
  /\ ui' = "started"
  /\ UNCHANGED <<dataVars, listVars, detailVars, chatVars, backStack, crash>>

(* Variant, a fault: the start destination on top of what was saved.       *)
RestoreAndStart == backStack' = Append(backStack, ListDestination)

(* rememberNavController saves the back stack with the Activity's state.   *)
(* An empty one is not saved: NavHost then goes to its start destination.  *)
RestoreBackStack ==
  backStack' = IF backStack = << >> THEN <<ListDestination>> ELSE backStack

(* A configuration change that the manifest does not list: the Activity is *)
(* recreated, view models and the saved back stack survive.                *)
RecreateActivity ==
  /\ Platform = "android"
  /\ ui = "started"
  /\ RestoreBackStack
  /\ DisposeList
  /\ KeepPanes({})
  /\ UNCHANGED <<dataVars, route, chatVars, ui, crash>>

(* Everything in memory is gone: the singletons with the list, the view    *)
(* models, the compositions.                                               *)
LoseMemory ==
  /\ refresh' = "none" /\ fetched' = << >> /\ storedObjects' = << >>
  /\ DropList
  /\ KeepPanes({})
  /\ call' = "idle" /\ sent' = << >> /\ halfClosed' = FALSE
  /\ serverSent' = << >> /\ inbox' = << >> /\ logged' = << >>
  /\ UNCHANGED route

(* The system kills the process in the background.  Android brings back    *)
(* the saved back stack with the Activity; iOS starts from the beginning.  *)
KillProcess ==
  /\ ui # "started"
  /\ LoseMemory
  /\ \/ Platform = "android" /\ ui = "stopped" /\ RestoreBackStack /\ UNCHANGED ui
     \/ (Platform = "ios" \/ ui = "none") /\ backStack' = << >> /\ ui' = "none"
  /\ UNCHANGED crash

(* LazyVerticalGrid throws when two items have the same key.               *)
DuplicateKey ==
  /\ ui = "started"
  /\ listComposed
  /\ ~KeysAreUnique(shownObjects)
  /\ crash' = "duplicateKey"
  /\ UNCHANGED <<dataVars, listVars, detailVars, chatVars, backStack, ui>>

(* The exception that leaves the chat coroutine has no handler in          *)
(* viewModelScope: it ends the process.                                    *)
ChatFails ==
  /\ CallFails
  /\ crash' = "chat"
  /\ UNCHANGED <<dataVars, listVars, detailVars, backStack, ui>>

(* After a crash the user starts the app again.                            *)
RestartAfterCrash ==
  /\ LoseMemory
  /\ backStack' = << >>
  /\ ui' = "none"
  /\ crash' = "none"

-----------------------------------------------------------------------------
Screens ==
  \/ Launch \/ ShowList \/ FinishTransition
  \/ \E e \in Entries : ShowDetail(e)

User ==
  \/ \E i \in DOMAIN shownObjects, e \in Entries : ClickObject(i, e)
  \/ \E e \in Entries : ClickBack(e)
  \/ SystemBack

System ==
  \/ Background \/ Foreground \/ RecreateActivity \/ KillProcess
  \/ DuplicateKey \/ ChatFails

Coroutines ==
  \/ RefreshStep /\ UNCHANGED <<listVars, detailVars, chatVars, appVars>>
  \/ ListStep /\ UNCHANGED <<dataVars, detailVars, chatVars, appVars>>
  \/ /\ \E e \in Entries : DetailStep(e)
     /\ UNCHANGED <<dataVars, listVars, chatVars, backStack, ui>>
  \/ ChatStep /\ UNCHANGED <<dataVars, listVars, detailVars, appVars>>

Next ==
  \/ crash = "none" /\ (Screens \/ User \/ System \/ Coroutines)
  \/ crash # "none" /\ RestartAfterCrash

Spec == AppInit /\ [][Next]_vars

-----------------------------------------------------------------------------
(* The NavController and the life cycle keep to their types; the list is   *)
(* at the bottom of the back stack and nowhere else.                       *)
AppTypeOK ==
  /\ DataTypeOK /\ ListTypeOK /\ DetailTypeOK /\ ChatTypeOK
  /\ ui \in LifecycleStates
  /\ crash \in {"none", "npe", "duplicateKey", "chat"}
  /\ backStack = << >> \/ Head(backStack) = ListDestination
  /\ \A i \in 2..Len(backStack) : backStack[i] \in Entries
  /\ IsInjective(backStack)

(* Besides the chat only one thing can end the process: a stored list that *)
(* repeats an objectID, which the keys of the grid in ListScreen.kt do not *)
(* allow.  The obj!! of DetailScreen.kt never fails, neither in stale      *)
(* content nor after process death has emptied the storage under a saved   *)
(* back stack.                                                             *)
CrashesAreExplained ==
  /\ crash # "npe"
  /\ crash = "duplicateKey" => ~KeysAreUnique(storedObjects)

(* A detail on screen shows nothing or the stored object of its own route, *)
(* whatever is below it, leaving, restored or clicked twice.               *)
PanesShowTheirObjects == PaneShowsItsObject

(* Nothing of a view model runs without it: onCleared() ends the sharing   *)
(* of ListViewModel.objects, its timer and the chat.                       *)
ScopeEndsWithViewModel ==
  viewModel = "none" => sharing = "idle" /\ ~stopTimer /\ call # "open"

(* On iOS, which has no back gesture, every detail on the back stack is of *)
(* a stored object, so that DetailScreen comes to show its back button; on *)
(* Android this holds as long as the process lives.                        *)
DetailsHaveObjects ==
  Platform = "ios" =>
    \A e \in Entries : Contains(backStack, e) => Find(storedObjects, route[e]) # NoObject

(* popBackStack() takes the list off the stack, and leaves a blank screen, *)
(* only for a click on the back button of a detail that is on its way out. *)
BlankNeedsStaleClick ==
  [][backStack # << >> /\ backStack' = << >> /\ ui' = "started" /\ crash' = crash
       => \E e \in Entries : ShowsDetails(e) /\ ~Contains(backStack, e)]_vars

(* Within one process, the app does to the list only what ListObjects      *)
(* allows its environment: what is shown there holds in the app.           *)
ListEnvironmentHolds ==
  [][ListNext \/ KillProcess \/ RestartAfterCrash]_listSysVars

(* The same for the details, with more than one of them composed.          *)
DetailEnvironmentHolds ==
  [][DetailNext \/ KillProcess \/ RestartAfterCrash]_<<storedObjects, ui, detailVars>>

(* The same for the chat: ListViewModels open their chats one after the    *)
(* other, never two at a time.                                             *)
ChatEnvironmentHolds ==
  [][ChatNext \/ KillProcess \/ RestartAfterCrash]_chatVars

=============================================================================
