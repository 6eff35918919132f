-------------------------- MODULE MuseumAppProofs ---------------------------
(***************************************************************************)
(* Proofs about the whole app, for both platforms and every set of ids,    *)
(* responses, back stack entries and chat messages.  Every step of the app *)
(* is, for each component, a step that its own module allows or the loss   *)
(* of the process; the components' invariants then hold in the app.        *)
(***************************************************************************)
EXTENDS MuseumApp, MuseumProofs

(* What a cleared view model leaves behind, and where a call may have      *)
(* ended: with these the steps of the app are steps of the components.     *)
ScopeInv ==
  /\ viewModel = "none" => /\ objects = << >> /\ sharing = "idle" /\ ~stopTimer
                           /\ ~listComposed /\ call # "open"
  /\ call = "idle" => inbox = << >>
  /\ call = "failed" => crash = "chat"

StackInv ==
  /\ backStack \in Seq(Entries \cup {ListDestination})
  /\ backStack = << >> \/ Head(backStack) = ListDestination
  /\ \A i \in 2..Len(backStack) : backStack[i] \in Entries
  /\ IsInjective(backStack)

(* A blank NavHost has no view model, and so no grid to click on.          *)
BlankInv == backStack = << >> => viewModel = "none"

CrashInv ==
  /\ crash \in {"none", "npe", "duplicateKey", "chat"}
  /\ crash = "duplicateKey" => ~KeysAreUnique(storedObjects)

AppInv ==
  /\ DataTypeOK /\ DataInv
  /\ ListTypeOK /\ ListInv
  /\ DetailInv
  /\ ChatTypeOK
  /\ ScopeInv
  /\ StackInv
  /\ BlankInv
  /\ CrashInv
  /\ DetailsHaveObjects

-----------------------------------------------------------------------------
(* The steps of the app as steps of the data layer.                        *)
LEMMA RepositoryKeepsStorage == GetRepository => UNCHANGED storedObjects
BY DEF GetRepository, CreateRepository, dataVars

LEMMA DataEnvironmentStep ==
  ASSUME Next
  PROVE  [DataNext]_dataVars \/ KillProcess \/ RestartAfterCrash
<1>1. CASE Screens
  BY <1>1 DEF Screens, Launch, ShowList, FinishTransition, ShowDetail, DataNext
<1>2. CASE User
  BY <1>2 DEF User, ClickObject, ClickBack, SystemBack, PopBackStack
<1>3. CASE System
  BY <1>3 DEF System, Background, Foreground, RecreateActivity, DuplicateKey, ChatFails
<1>4. CASE Coroutines
  BY <1>4 DEF Coroutines, DataNext
<1> QED
  BY <1>1, <1>2, <1>3, <1>4 DEF Next

LEMMA StorageStep ==
  ASSUME AppInv, Next
  PROVE  [Storage!Load]_storedObjects \/ KillProcess \/ RestartAfterCrash
BY DataEnvironmentStep, DataStepLoads DEF AppInv

-----------------------------------------------------------------------------
(* The steps of the app as steps of the list.                              *)
LEMMA DisposeIsListStep ==
  ASSUME ListTypeOK, ListInv, DisposeList, UNCHANGED <<storedObjects, ui>>
  PROVE  [ListNext]_listSysVars
<1>1. CASE listComposed
  BY <1>1 DEF ListNext, ListEnvironment
<1>2. CASE ~listComposed
  BY <1>2, Zenon DEF ListTypeOK, ListInv, DisposeList, listSysVars, listVars, screenVars,
              sharingVars
<1> QED
  BY <1>1, <1>2

LEMMA DropIsListStep ==
  ASSUME AppInv, DropList, ui' \in {ui, "none"}, UNCHANGED storedObjects
  PROVE  [ListNext]_listSysVars
<1>1. CASE viewModel = "live"
  BY <1>1 DEF ListNext, ListEnvironment
<1>2. CASE viewModel = "none"
  <2>1. UNCHANGED listVars
    BY <1>2, ZenonT(30) DEF AppInv, ScopeInv, ListTypeOK, ListInv, DropList, listVars, screenVars,
                sharingVars
  <2>2. ui' \in LifecycleStates
    BY DEF AppInv, ListTypeOK, LifecycleStates
  <2> QED
    BY <2>1, <2>2 DEF ListNext, ListEnvironment
<1> QED
  BY <1>1, <1>2 DEF AppInv, ListTypeOK

LEMMA ListEnvironmentStep ==
  ASSUME AppInv, Next
  PROVE  [ListNext]_listSysVars \/ KillProcess \/ RestartAfterCrash
<1>0. CASE UNCHANGED <<storedObjects, ui, listVars>>
  BY <1>0 DEF listSysVars
<1>1. CASE Launch \/ Background \/ Foreground
  BY <1>1 DEF Launch, Background, Foreground, ListNext, ListEnvironment, LifecycleStates,
              dataVars
<1>2. CASE ShowList
  BY <1>2, RepositoryKeepsStorage
  DEF ShowList, ListNext, ListEnvironment, dataVars, appVars
<1>3. CASE FinishTransition
  BY <1>0, <1>3, DisposeIsListStep, Zenon DEF FinishTransition, AppInv, dataVars, appVars
<1>4. ASSUME NEW e \in Entries, ShowDetail(e)
      PROVE  [ListNext]_listSysVars
  BY <1>0, <1>4, RepositoryKeepsStorage DEF ShowDetail, listSysVars
<1>5. ASSUME NEW i, NEW e \in Entries, ClickObject(i, e)
      PROVE  [ListNext]_listSysVars
  BY <1>0, <1>5 DEF ClickObject, dataVars, listSysVars
<1>6. CASE PopBackStack
  BY <1>0, <1>6, DropIsListStep DEF PopBackStack, dataVars
<1>7. CASE SystemBack
  BY <1>6, <1>7, DropIsListStep DEF SystemBack, dataVars
<1>8. CASE RecreateActivity
  BY <1>8, DisposeIsListStep DEF RecreateActivity, AppInv, dataVars
<1>9. CASE DuplicateKey \/ ChatFails
  BY <1>0, <1>9 DEF DuplicateKey, ChatFails, dataVars
<1>10. CASE Coroutines
  <2>1. CASE RefreshStep /\ UNCHANGED <<listVars, appVars>>
    BY <1>0, <2>1, DataStepLoads
    DEF AppInv, DataNext, ListNext, ListEnvironment, appVars
  <2>2. CASE ListStep /\ UNCHANGED <<dataVars, appVars>>
    BY <2>2 DEF ListNext, dataVars, appVars
  <2> QED
    BY <1>0, <1>10, <2>1, <2>2 DEF Coroutines, dataVars, appVars
<1> QED
  BY <1>1, <1>2, <1>3, <1>4, <1>5, <1>6, <1>7, <1>8, <1>9, <1>10
  DEF Next, Screens, User, System, ClickBack

-----------------------------------------------------------------------------
(* The steps of the app as steps of the details.                           *)
LEMMA KeepIsDetailStep ==
  ASSUME crash = "none", NEW kept \in SUBSET Entries, KeepPanes(kept),
         ui' \in {ui, "none"}, UNCHANGED <<storedObjects, route, crash>>
  PROVE  DetailNext
BY DEF DetailNext, DetailEnvironment

LEMMA DetailEnvironmentStep ==
  ASSUME AppInv, Next
  PROVE  \/ [DetailNext]_detailSysVars
         \/ KillProcess \/ RestartAfterCrash
         \/ UNCHANGED <<storedObjects, ui, detailVars>> /\ crash' # "npe"
<1>0. CASE UNCHANGED <<storedObjects, ui, detailVars, crash>>
  BY <1>0 DEF detailSysVars
<1>1. CASE crash = "none" /\ (Launch \/ Background \/ Foreground)
  BY <1>1 DEF Launch, Background, Foreground, DetailNext, DetailEnvironment,
              LifecycleStates, dataVars
<1>2. CASE ShowList
  BY <1>0, <1>2, RepositoryKeepsStorage DEF ShowList, dataVars, appVars
<1>3. CASE crash = "none" /\ FinishTransition
  BY <1>3, KeepIsDetailStep, Zenon DEF FinishTransition, dataVars, appVars
<1>4. ASSUME crash = "none", NEW e \in Entries, ShowDetail(e)
      PROVE  DetailNext
  BY <1>4, RepositoryKeepsStorage, ZenonT(30)
  DEF ShowDetail, ComposeDetail, DetailNext, DetailEnvironment
<1>5. ASSUME crash = "none", NEW i \in DOMAIN shownObjects, NEW e \in Entries,
             ClickObject(i, e)
      PROVE  DetailNext
  <2>1. shownObjects[i].objectID \in Ids
    <3>1. shownObjects \in Seq(MuseumObject) /\ i \in DOMAIN shownObjects
      BY <1>5 DEF AppInv, ListTypeOK
    <3>2. shownObjects[i] \in MuseumObject
      BY <3>1
    <3> QED
      BY <3>2 DEF MuseumObject
  <2> QED
    BY <1>5, <2>1 DEF ClickObject, DetailNext, DetailEnvironment, dataVars
<1>6. CASE crash = "none" /\ PopBackStack
  BY <1>0, <1>6, KeepIsDetailStep DEF PopBackStack, dataVars, detailVars
<1>7. CASE crash = "none" /\ SystemBack
  BY <1>6, <1>7, KeepIsDetailStep DEF SystemBack, dataVars
<1>8. CASE crash = "none" /\ RecreateActivity
  BY <1>8, KeepIsDetailStep DEF RecreateActivity, dataVars
<1>9. CASE DuplicateKey \/ ChatFails
  BY <1>9 DEF DuplicateKey, ChatFails, dataVars
<1>10. CASE crash = "none" /\ Coroutines
  <2>1. CASE RefreshStep /\ UNCHANGED <<detailVars, appVars>>
    BY <1>0, <1>10, <2>1, DataStepLoads
    DEF AppInv, DataNext, DetailNext, DetailEnvironment, appVars
  <2>2. ASSUME NEW e \in Entries, DetailStep(e), UNCHANGED <<dataVars, ui>>
        PROVE  DetailNext
    BY <1>10, <2>2 DEF DetailNext, dataVars
  <2> QED
    BY <1>0, <1>10, <2>1, <2>2 DEF Coroutines, dataVars, appVars
<1> QED
  BY <1>1, <1>2, <1>3, <1>4, <1>5, <1>6, <1>7, <1>8, <1>9, <1>10
  DEF Next, Screens, User, System, ClickBack

-----------------------------------------------------------------------------
(* The steps of the app as steps of the chat.                              *)
LEMMA CancelIsChatStep ==
  ASSUME ScopeInv, CancelChat
  PROVE  [ChatNext]_chatVars
BY DEF ScopeInv, CancelChat, ChatNext, chatVars

LEMMA ChatEnvironmentStep ==
  ASSUME AppInv, Next
  PROVE  [ChatNext]_chatVars \/ KillProcess \/ RestartAfterCrash
<1>1. CASE crash = "none" /\ ShowList
  <2>1. CASE ComposeListFirst /\ OpenChat
    <3>1. call \in {"idle", "completed", "cancelled"}
      BY <1>1, <2>1 DEF ComposeListFirst, AppInv, ScopeInv, ChatTypeOK
    <3> QED
      BY <2>1, <3>1 DEF ChatNext
  <2> QED
    BY <1>1, <2>1 DEF ShowList
<1>2. CASE Screens /\ ~ShowList
  BY <1>2 DEF Screens, Launch, FinishTransition, ShowDetail
<1>3. CASE User
  BY <1>3, CancelIsChatStep
  DEF User, ClickObject, ClickBack, SystemBack, PopBackStack, AppInv
<1>4. CASE System
  BY <1>4 DEF System, Background, Foreground, RecreateActivity, DuplicateKey, ChatFails,
              ChatNext
<1>5. CASE Coroutines
  BY <1>5 DEF Coroutines, ChatNext
<1> QED
  BY <1>1, <1>2, <1>3, <1>4, <1>5 DEF Next

-----------------------------------------------------------------------------
(* The invariants of the components hold in the app: of a step that loses  *)
(* the process they are initial again.                                     *)
LEMMA LossIsLoseMemory ==
  ASSUME KillProcess \/ RestartAfterCrash
  PROVE  LoseMemory /\ ui' \in {ui, "none"} /\ crash' \in {crash, "none"}
BY DEF KillProcess, RestartAfterCrash

LEMMA DataKept ==
  ASSUME AppInv, Next
  PROVE  DataTypeOK' /\ DataInv'
<1>1. CASE [DataNext]_dataVars
  BY <1>1, DataTypeStep, DataInvInductive DEF AppInv
<1>2. CASE LoseMemory
  BY <1>2 DEF LoseMemory, DataTypeOK, DataInv, FetchedIsResponse, StorageFollowsRefresh
<1> QED
  BY <1>1, <1>2, DataEnvironmentStep, LossIsLoseMemory

LEMMA ListKept ==
  ASSUME AppInv, Next
  PROVE  ListTypeOK' /\ ListInv'
<1>1. CASE [ListNext]_listSysVars
  BY <1>1, ListTypeStep, ListInvStep DEF AppInv, DataTypeOK
<1>2. CASE LoseMemory /\ ui' \in {ui, "none"}
  <2>0. << >> \in Seq(MuseumObject) /\ DropList /\ storedObjects' = << >>
    BY <1>2 DEF LoseMemory
  <2>1. ui' \in LifecycleStates
    BY <1>2 DEF AppInv, ListTypeOK, LifecycleStates
  <2>2. ListTypeOK'
    BY <2>0, <2>1, Zenon DEF DropList, ListTypeOK
  <2>3. ListInv'
    BY <2>0 DEF DropList, ListInv, ListIsEmptyOrStored
  <2> QED
    BY <2>2, <2>3
<1> QED
  BY <1>1, <1>2, ListEnvironmentStep, LossIsLoseMemory

LEMMA DetailKept ==
  ASSUME AppInv, Next
  PROVE  DetailInv'
<1>1. CASE [DetailNext]_detailSysVars
  BY <1>1, DetailInvStep DEF AppInv
<1>2. CASE UNCHANGED <<storedObjects, ui, detailVars>> /\ crash' # "npe"
  BY <1>2, ZenonT(30) DEF AppInv, DetailInv, DetailTypeOK, PaneShowsItsObject, PaneInv,
              NoNullDereference, detailVars
<1>3. CASE LoseMemory /\ crash' \in {crash, "none"}
  <2>1. \A e \in Entries : pane'[e] = NoPane
    BY <1>3 DEF LoseMemory, KeepPanes
  <2>2. storedObjects' \in Seq(MuseumObject)
    BY <1>3 DEF LoseMemory
  <2>3. DetailTypeOK'
    BY <1>3, NoPaneIsPane DEF LoseMemory, KeepPanes, DetailTypeOK, AppInv, DetailInv
  <2>4. PaneShowsItsObject' /\ \A e \in Entries : PaneInv(e)'
    BY <2>1, NoPaneFields, Zenon DEF PaneShowsItsObject, PaneInv
  <2>5. NoNullDereference'
    BY <1>3 DEF NoNullDereference, AppInv, DetailInv
  <2> QED
    BY <2>2, <2>3, <2>4, <2>5 DEF DetailInv
<1> QED
  BY <1>1, <1>2, <1>3, DetailEnvironmentStep, LossIsLoseMemory

LEMMA ChatKept ==
  ASSUME AppInv, Next
  PROVE  ChatTypeOK'
<1>1. CASE [ChatNext]_chatVars
  BY <1>1, ChatTypeStep DEF AppInv
<1>2. CASE LoseMemory
  <2>1. << >> \in Seq(ServerMessages) /\ << >> \in Seq({Hello})
    OBVIOUS
  <2> QED
    BY <1>2, <2>1, Zenon DEF LoseMemory, ChatTypeOK
<1> QED
  BY <1>1, <1>2, ChatEnvironmentStep, LossIsLoseMemory

-----------------------------------------------------------------------------
(* onCleared() resets the sharing and ends the chat in one step.           *)
LEMMA ScopeKept ==
  ASSUME AppInv, Next
  PROVE  ScopeInv'
<1> USE DEF ScopeInv
<1>0. ScopeInv
  BY DEF AppInv
<1>1. CASE UNCHANGED <<listVars, chatVars, crash>>
  BY <1>0, <1>1 DEF listVars, sharingVars, screenVars, chatVars
<1>2. CASE ShowList
  BY <1>0, <1>2 DEF ShowList, ComposeListFirst, ComposeListAgain, OpenChat, listVars,
                    sharingVars, screenVars, chatVars, appVars
<1>3. CASE DisposeList /\ UNCHANGED <<chatVars, crash>>
  BY <1>0, <1>3 DEF DisposeList, sharingVars, chatVars
<1>4. CASE DropList /\ CancelChat /\ UNCHANGED crash
  BY <1>0, <1>4 DEF DropList, CancelChat
<1>5. CASE LoseMemory
  BY <1>5 DEF LoseMemory, DropList
<1>6. CASE crash = "none" /\ (DuplicateKey \/ ChatFails)
  <2>1. CASE DuplicateKey
    BY <1>0, <1>6, <2>1 DEF DuplicateKey, listVars, sharingVars, screenVars, chatVars
  <2>2. CASE ChatFails
    BY <1>0, <2>2 DEF ChatFails, CallFails, listVars, sharingVars, screenVars
  <2> QED
    BY <1>6, <2>1, <2>2
<1>7. CASE ListStep /\ UNCHANGED <<chatVars, crash>>
  <2>1. viewModel' = viewModel
    BY <1>7 DEF ListStep, Subscribe, Unsubscribe, ShowObjects, StartSharing,
                ArmStopTimer, CancelStopTimer, StopSharing, ShareObjects
  <2>2. viewModel # "none"
    BY <1>0, <1>7 DEF AppInv, ListInv, ListStep, Subscribe, Unsubscribe, ShowObjects,
                StartSharing, ArmStopTimer, CancelStopTimer, StopSharing, ShareObjects
  <2> QED
    BY <1>0, <1>7, <2>1, <2>2 DEF chatVars
<1>8. CASE ChatStep /\ UNCHANGED <<listVars, crash>>
  BY <1>0, <1>8 DEF ChatStep, EmitHello, CompleteRequests, ServerStreams, LogMessage,
                    CallCompletes, listVars, sharingVars, screenVars
<1>9. ASSUME NEW e \in Entries, DetailStep(e), UNCHANGED <<listVars, chatVars>>,
             crash = "none"
      PROVE  ScopeInv'
  BY <1>0, <1>9 DEF listVars, sharingVars, screenVars, chatVars
<1>10. CASE Screens
  BY <1>1, <1>2, <1>3, <1>10, ZenonT(30)
  DEF Screens, Launch, FinishTransition, ShowDetail, ComposeDetail, appVars
<1>11. CASE User
  BY <1>1, <1>4, <1>11 DEF User, ClickObject, ClickBack, SystemBack, PopBackStack
<1>12. CASE crash = "none" /\ System
  BY <1>1, <1>3, <1>5, <1>6, <1>12, LossIsLoseMemory
  DEF System, Background, Foreground, RecreateActivity
<1>13. CASE crash = "none" /\ Coroutines
  BY <1>1, <1>7, <1>8, <1>9, <1>13 DEF Coroutines, appVars
<1> QED
  BY <1>5, <1>10, <1>11, <1>12, <1>13, LossIsLoseMemory DEF Next

-----------------------------------------------------------------------------
(* Back stacks: what popBackStack() and navigate() do to a stack with the  *)
(* list at its bottom.                                                     *)
LEMMA StackPops ==
  ASSUME StackInv, backStack' = Front(backStack), Len(backStack) >= 1
  PROVE  /\ StackInv'
         /\ Len(backStack) > 1 => backStack' # << >>
         /\ \A e : Contains(backStack', e) => Contains(backStack, e)
<1>1. /\ backStack' \in Seq(Entries \cup {ListDestination})
      /\ Len(backStack') = Len(backStack) - 1
      /\ \A i \in 1..Len(backStack') : backStack'[i] = backStack[i]
  <2> DEFINE S == Entries \cup {ListDestination}
             n == Len(backStack) - 1
  <2>1. backStack \in Seq(S) /\ n \in Nat /\ \A i \in 1..n : backStack[i] \in S
    BY DEF StackInv
  <2>2. backStack' = SubSeq(backStack, 1, n)
    BY DEF Front
  <2> HIDE DEF S, n
  <2>3. /\ SubSeq(backStack, 1, n) \in Seq(S)
        /\ Len(SubSeq(backStack, 1, n)) = IF 1 <= n THEN n - 1 + 1 ELSE 0
        /\ \A i \in 1..(n - 1 + 1) : SubSeq(backStack, 1, n)[i] = backStack[1 + i - 1]
    BY <2>1, SubSeqProperties
  <2>4. Len(SubSeq(backStack, 1, n)) = n
    BY <2>1, <2>3
  <2>5. \A i \in 1..n : SubSeq(backStack, 1, n)[i] = backStack[i]
    BY <2>1, <2>3
  <2> QED
    BY <2>2, <2>3, <2>4, <2>5, Zenon DEF S, n
<1>2. DOMAIN backStack' = 1..Len(backStack') /\ DOMAIN backStack = 1..Len(backStack)
  BY <1>1 DEF StackInv
<1>3. backStack' = << >> \/ Head(backStack') = ListDestination
  BY <1>1 DEF StackInv
<1>4. IsInjective(backStack')
  BY <1>1, <1>2 DEF StackInv, IsInjective
<1>5. \A e : Contains(backStack', e) => Contains(backStack, e)
  BY <1>1 DEF StackInv, Contains
<1> QED
  BY <1>1, <1>3, <1>4, <1>5 DEF StackInv

LEMMA StackGrows ==
  ASSUME StackInv, backStack # << >>, NEW e \in Entries, ~Contains(backStack, e),
         backStack' = Append(backStack, e)
  PROVE  /\ StackInv'
         /\ \A f : Contains(backStack', f) => f = e \/ Contains(backStack, f)
<1>1. /\ backStack' \in Seq(Entries \cup {ListDestination})
      /\ Len(backStack') = Len(backStack) + 1
      /\ \A i \in 1..Len(backStack) : backStack'[i] = backStack[i]
      /\ backStack'[Len(backStack')] = e
  BY DEF StackInv
<1>2. DOMAIN backStack' = 1..Len(backStack') /\ DOMAIN backStack = 1..Len(backStack)
  BY <1>1 DEF StackInv
<1>3. Head(backStack') = ListDestination
  BY <1>1 DEF StackInv
<1>4. \A i \in 1..Len(backStack) : backStack[i] # e
  BY DEF Contains
<1>5. IsInjective(backStack')
  BY <1>1, <1>2, <1>4 DEF StackInv, IsInjective
<1>6. \A f : Contains(backStack', f) => f = e \/ Contains(backStack, f)
  BY <1>1 DEF StackInv, Contains
<1> QED
  BY <1>1, <1>3, <1>5, <1>6 DEF StackInv

LEMMA StackStarts ==
  ASSUME backStack' \in {<< >>, <<ListDestination>>}
  PROVE  StackInv' /\ \A e \in Entries : ~Contains(backStack', e)
<1>1. CASE backStack' = << >>
  BY <1>1 DEF StackInv, IsInjective, Contains
<1>2. CASE backStack' = <<ListDestination>>
  <2>1. /\ backStack' \in Seq(Entries \cup {ListDestination})
        /\ Len(backStack') = 1 /\ DOMAIN backStack' = 1..1
        /\ backStack'[1] = ListDestination /\ Head(backStack') = ListDestination
    BY <1>2
  <2>2. \A e \in Entries : ~Contains(backStack', e)
    BY <2>1, EntriesAssumption DEF Contains
  <2> QED
    BY <2>1, <2>2 DEF StackInv, IsInjective
<1> QED
  BY <1>1, <1>2

LEMMA StackKept ==
  ASSUME AppInv, Next
  PROVE  StackInv'
<1>0. StackInv
  BY DEF AppInv
<1>1. CASE UNCHANGED backStack
  BY <1>0, <1>1 DEF StackInv
<1>2. CASE backStack' \in {<< >>, <<ListDestination>>}
  BY <1>2, StackStarts
<1>3. CASE PopBackStack
  BY <1>0, <1>3, StackPops DEF PopBackStack
<1>4. ASSUME NEW i, NEW e \in Entries, ClickObject(i, e)
      PROVE  StackInv'
  <2>1. backStack # << >>
    BY <1>4 DEF ClickObject, AppInv, BlankInv, ScopeInv
  <2> QED
    BY <1>0, <1>4, <2>1, StackGrows DEF ClickObject
<1>5. CASE Screens
  BY <1>1, <1>2, <1>5
  DEF Screens, Launch, ShowList, FinishTransition, ShowDetail, appVars
<1>6. CASE User
  BY <1>2, <1>3, <1>4, <1>6 DEF User, ClickBack, SystemBack
<1>7. CASE System
  BY <1>1, <1>2, <1>7
  DEF System, Background, Foreground, RecreateActivity, KillProcess, RestoreBackStack,
      DuplicateKey, ChatFails
<1>8. CASE Coroutines
  BY <1>1, <1>8 DEF Coroutines, appVars
<1> QED
  BY <1>2, <1>5, <1>6, <1>7, <1>8 DEF Next, RestartAfterCrash

LEMMA BlankKept ==
  ASSUME AppInv, Next
  PROVE  BlankInv'
<1>0. BlankInv /\ StackInv
  BY DEF AppInv
<1>1. CASE UNCHANGED <<backStack, viewModel>>
  BY <1>0, <1>1 DEF BlankInv
<1>2. CASE DropList
  BY <1>2 DEF DropList, BlankInv
<1>3. CASE backStack' # << >>
  BY <1>3 DEF BlankInv
<1>4. CASE PopBackStack
  BY <1>0, <1>2, <1>3, <1>4, StackPops DEF PopBackStack
<1>5. CASE Screens
  <2>1. CASE Launch
    BY <1>3, <2>1 DEF Launch
  <2>2. CASE ShowList
    BY <1>3, <2>2 DEF ShowList, OnTop, appVars
  <2>3. CASE Screens /\ ~Launch /\ ~ShowList
    BY <1>1, <2>3, Zenon DEF Screens, FinishTransition, DisposeList, ShowDetail, appVars, listVars
  <2> QED
    BY <1>5, <2>1, <2>2, <2>3
<1>6. ASSUME NEW i, NEW e \in Entries, ClickObject(i, e)
      PROVE  BlankInv'
  <2>1. Append(backStack, e) # << >>
    <3>1. Len(Append(backStack, e)) = Len(backStack) + 1 /\ Len(backStack) \in Nat
      BY <1>0 DEF StackInv
    <3> QED
      BY <3>1
  <2> QED
    BY <1>3, <1>6, <2>1 DEF ClickObject
<1>7. CASE User
  BY <1>2, <1>4, <1>6, <1>7 DEF User, ClickBack, SystemBack
<1>8. CASE System
  BY <1>0, <1>1, <1>2, <1>3, <1>8
  DEF System, Background, Foreground, RecreateActivity, DisposeList, RestoreBackStack,
      KillProcess, LoseMemory, DuplicateKey, ChatFails, listVars
<1>9. CASE Coroutines
  BY <1>1, <1>9
  DEF Coroutines, ListStep, Subscribe, Unsubscribe, ShowObjects, StartSharing,
      ArmStopTimer, CancelStopTimer, StopSharing, ShareObjects, appVars, listVars
<1> QED
  BY <1>2, <1>5, <1>7, <1>8, <1>9 DEF Next, RestartAfterCrash, LoseMemory

-----------------------------------------------------------------------------
(* A grid whose keys repeat is the stored list.                            *)
LEMMA CrashKept ==
  ASSUME AppInv, Next
  PROVE  CrashInv'
<1>0. CrashInv
  BY DEF AppInv
<1>1. CASE crash' = "none"
  BY <1>1 DEF CrashInv
<1>2. CASE crash' = "chat"
  BY <1>2 DEF CrashInv
<1>3. CASE DuplicateKey
  <2>1. shownObjects = storedObjects
    <3>1. shownObjects # << >>
      BY <1>3 DEF DuplicateKey, KeysAreUnique
    <3> QED
      BY <3>1 DEF AppInv, ListInv, ListIsEmptyOrStored
  <2> QED
    BY <1>3, <2>1 DEF DuplicateKey, CrashInv, dataVars
<1>4. ASSUME NEW e \in Entries, DetailStep(e), crash = "none"
      PROVE  CrashInv'
  <2>1. crash' \in {"npe", "none"}
    BY <1>4, ZenonT(30) DEF DetailStep, CollectObject, StopCollecting, ReceiveObject,
                RecomposeDetail, ContentSettles
  <2> QED
    BY <2>1 DEF CrashInv
<1>5. CASE crash = "none" /\ Screens
  BY <1>1, <1>5 DEF Screens, Launch, ShowList, FinishTransition, ShowDetail,
                    ComposeDetail, appVars
<1>6. CASE crash = "none" /\ User
  BY <1>1, <1>6 DEF User, ClickObject, ClickBack, SystemBack, PopBackStack
<1>7. CASE crash = "none" /\ System
  BY <1>1, <1>2, <1>3, <1>7 DEF System, Background, Foreground, RecreateActivity,
                                KillProcess, ChatFails
<1>8. CASE crash = "none" /\ Coroutines
  BY <1>1, <1>4, <1>8 DEF Coroutines, appVars
<1> QED
  BY <1>1, <1>5, <1>6, <1>7, <1>8 DEF Next, RestartAfterCrash

(* find() on a list that has the id is not null.                           *)
LEMMA FindMember ==
  ASSUME NEW list \in Seq(MuseumObject), NEW i \in DOMAIN list
  PROVE  Find(list, list[i].objectID) # NoObject
<1> DEFINE id == list[i].objectID
           M  == Matches(list, id)
<1>1. M \in SUBSET Nat /\ i \in M
  BY DEF Matches
<1>2. Min(M) \in M
  BY <1>1, MinInSet
<1>3. list[Min(M)] \in MuseumObject
  BY <1>2 DEF Matches
<1> QED
  BY <1>1, <1>3, NoObjectAssumption DEF Find

LEMMA ObjectsKept ==
  ASSUME AppInv, Next
  PROVE  DetailsHaveObjects'
<1> SUFFICES ASSUME Platform = "ios", NEW f \in Entries, Contains(backStack', f)
             PROVE  Find(storedObjects', route'[f]) # NoObject
  BY DEF DetailsHaveObjects
<1>0. \A e \in Entries : Contains(backStack, e) => Find(storedObjects, route[e]) # NoObject
  BY DEF AppInv, DetailsHaveObjects
<1>1. CASE /\ Contains(backStack, f) /\ UNCHANGED route
           /\ [Storage!Load]_storedObjects
  (* Over an empty storage there is no detail on the stack.                *)
  BY <1>0, <1>1, FindInEmpty DEF Storage!Load
<1>2. backStack' \notin {<< >>, <<ListDestination>>}
  BY StackStarts
<1>3. StackInv
  BY DEF AppInv
<1>4. CASE UNCHANGED <<backStack, route, storedObjects>>
  BY <1>1, <1>4
<1>5. CASE crash = "none" /\ Screens
  <2>1. CASE Launch
    BY <1>2, <2>1 DEF Launch
  <2>2. CASE Screens /\ ~Launch
    BY <1>4, <2>2, RepositoryKeepsStorage
    DEF Screens, ShowList, FinishTransition, ShowDetail, ComposeDetail, dataVars,
        detailVars, appVars
  <2> QED
    BY <1>5, <2>1, <2>2
<1>6. CASE PopBackStack
  <2>1. Len(backStack) >= 1
    BY <1>3, <1>6 DEF PopBackStack, StackInv
  <2>2. Contains(backStack, f)
    BY <1>3, <1>6, <2>1, StackPops DEF PopBackStack
  <2> QED
    BY <1>1, <1>6, <2>2 DEF PopBackStack, dataVars
<1>7. ASSUME NEW i \in DOMAIN shownObjects, NEW e \in Entries, ClickObject(i, e)
      PROVE  Find(storedObjects', route'[f]) # NoObject
  <2>1. backStack # << >>
    BY <1>7 DEF ClickObject, AppInv, BlankInv, ScopeInv
  <2>2. f = e \/ Contains(backStack, f)
    BY <1>3, <1>7, <2>1, StackGrows DEF ClickObject
  <2>3. shownObjects = storedObjects /\ storedObjects \in Seq(MuseumObject)
    <3>1. shownObjects # << >>
      BY <1>7
    <3> QED
      BY <3>1 DEF AppInv, ListInv, ListIsEmptyOrStored, DataTypeOK
  <2>4. Find(storedObjects, shownObjects[i].objectID) # NoObject
    BY <1>7, <2>3, FindMember
  <2>5. UNCHANGED storedObjects
    BY <1>7 DEF ClickObject, dataVars
  <2>6. route'[f] = IF f = e THEN shownObjects[i].objectID ELSE route[f]
    BY <1>7 DEF ClickObject, Navigate, AppInv, DetailInv, DetailTypeOK
  <2> QED
    BY <1>0, <2>2, <2>4, <2>5, <2>6
<1>8. CASE SystemBack
  BY <1>8 DEF SystemBack
<1>9. CASE System
  BY <1>2, <1>4, <1>9
  DEF System, Background, Foreground, RecreateActivity, KillProcess, DuplicateKey,
      ChatFails, dataVars, detailVars
<1>10. CASE Coroutines
  <2>1. CASE RefreshStep /\ UNCHANGED <<detailVars, appVars>>
    BY <1>1, <2>1, DataStepLoads DEF AppInv, DataNext, detailVars, appVars
  <2>2. ASSUME NEW e \in Entries, DetailStep(e), UNCHANGED <<dataVars, backStack>>
        PROVE  Find(storedObjects', route'[f]) # NoObject
    BY <1>4, <2>2, ZenonT(30) DEF DetailStep, CollectObject, StopCollecting, ReceiveObject,
                      RecomposeDetail, ContentSettles, dataVars
  <2> QED
    BY <1>4, <1>10, <2>1, <2>2 DEF Coroutines, dataVars, detailVars, appVars
<1> QED
  BY <1>2, <1>5, <1>6, <1>7, <1>8, <1>9, <1>10 DEF Next, User, ClickBack, RestartAfterCrash

-----------------------------------------------------------------------------
LEMMA AppInitially == AppInit => AppInv
<1> SUFFICES ASSUME AppInit PROVE AppInv
  OBVIOUS
<1>0. << >> \in Seq(MuseumObject)
  OBVIOUS
<1>1. DataTypeOK /\ DataInv
  BY DEF AppInit, DataInit, DataTypeOK, DataInv, FetchedIsResponse, StorageFollowsRefresh
<1>2. ListTypeOK
  BY <1>0, Zenon DEF AppInit, ListInit, ListTypeOK, LifecycleStates
<1>3. ListInv
  BY DEF AppInit, ListInit, DataInit, ListInv, ListIsEmptyOrStored
<1>4. DetailInv
  <2>1. \A e \in Entries : pane[e] = NoPane
    BY DEF AppInit, DetailInit
  <2>2. DetailTypeOK /\ NoNullDereference
    BY NoPaneIsPane DEF AppInit, DetailInit, DetailTypeOK, NoNullDereference
  <2>3. PaneShowsItsObject /\ \A e \in Entries : PaneInv(e)
    BY <2>1, NoPaneFields, Zenon DEF PaneShowsItsObject, PaneInv
  <2> QED
    BY <1>1, <2>2, <2>3 DEF DetailInv, DataTypeOK
<1>5. ChatTypeOK
  BY ChatTypeInit DEF AppInit
<1>6. ScopeInv /\ CrashInv /\ BlankInv
  BY DEF AppInit, ListInit, ChatInit, ScopeInv, CrashInv, BlankInv
<1>7. StackInv /\ DetailsHaveObjects
  BY DEF AppInit, StackInv, IsInjective, DetailsHaveObjects, Contains
<1> QED
  BY <1>1, <1>2, <1>3, <1>4, <1>5, <1>6, <1>7 DEF AppInv

LEMMA AppStutters == AppInv /\ UNCHANGED vars => AppInv'
<1> SUFFICES ASSUME AppInv, UNCHANGED vars PROVE AppInv'
  OBVIOUS
<1>1. UNCHANGED <<dataVars, listVars, detailVars, chatVars, appVars>>
  BY DEF vars
<1>2. UNCHANGED <<dataVars, listSysVars, detailSysVars, chatVars>>
  BY <1>1 DEF dataVars, appVars, listSysVars, detailSysVars
<1>3. DataTypeOK' /\ DataInv'
  BY <1>2, DataTypeStep, DataInvInductive DEF AppInv
<1>4. ListTypeOK' /\ ListInv'
  BY <1>2, ListTypeStep, ListInvStep DEF AppInv, DataTypeOK
<1>5. DetailInv' /\ ChatTypeOK'
  BY <1>2, DetailInvStep, ChatTypeStep DEF AppInv
<1>6. ScopeInv' /\ StackInv' /\ BlankInv' /\ CrashInv'
  BY <1>1 DEF AppInv, ScopeInv, StackInv, BlankInv, CrashInv, listVars, sharingVars,
              screenVars, chatVars, appVars, dataVars
<1>7. DetailsHaveObjects'
  BY <1>1 DEF AppInv, DetailsHaveObjects, dataVars, detailVars, appVars
<1> QED
  BY <1>3, <1>4, <1>5, <1>6, <1>7 DEF AppInv

LEMMA AppInductive == AppInv /\ [Next]_vars => AppInv'
BY AppStutters, DataKept, ListKept, DetailKept, ChatKept, ScopeKept, StackKept, BlankKept,
   CrashKept, ObjectsKept
DEF AppInv

LEMMA AppInvariant == Spec => []AppInv
BY AppInitially, AppInductive, PTL DEF Spec

-----------------------------------------------------------------------------
(* The state of the whole app has its type; the list is at the bottom of   *)
(* the NavController's back stack and nowhere else, and no entry is on it  *)
(* twice.                                                                  *)
THEOREM AppTypeCorrect == Spec => []AppTypeOK
<1>1. AppInv => AppTypeOK
  BY DEF AppInv, AppTypeOK, ListTypeOK, DetailInv, StackInv, CrashInv
<1> QED
  BY <1>1, AppInvariant, PTL

(* The obj!! of DetailScreen.kt never fails in the app, and the grid of    *)
(* ListScreen.kt throws only over a stored list that repeats an objectID.  *)
THEOREM CrashesCorrect == Spec => []CrashesAreExplained
<1>1. AppInv => CrashesAreExplained
  BY DEF AppInv, CrashesAreExplained, CrashInv, DetailInv, NoNullDereference
<1> QED
  BY <1>1, AppInvariant, PTL

(* Every DetailScreen on the back stack or leaving it shows nothing or the *)
(* stored object of its own route.                                         *)
THEOREM AppPanesCorrect == Spec => []PanesShowTheirObjects
<1>1. AppInv => PanesShowTheirObjects
  BY DEF AppInv, PanesShowTheirObjects, DetailInv
<1> QED
  BY <1>1, AppInvariant, PTL

(* No sharing, timer or chat of ListViewModel runs after its onCleared().  *)
THEOREM ScopeCorrect == Spec => []ScopeEndsWithViewModel
<1>1. AppInv => ScopeEndsWithViewModel
  BY DEF AppInv, ScopeEndsWithViewModel, ScopeInv
<1> QED
  BY <1>1, AppInvariant, PTL

(* On iOS every detail on the back stack is of a stored object, so that    *)
(* its back button comes.                                                  *)
THEOREM DetailsCorrect == Spec => []DetailsHaveObjects
<1>1. AppInv => DetailsHaveObjects
  BY DEF AppInv
<1> QED
  BY <1>1, AppInvariant, PTL

(* Within one process the app's steps are steps of ListObjects: its        *)
(* theorems carry over.                                                    *)
THEOREM ListEnvironmentCorrect == Spec => ListEnvironmentHolds
<1>1. AppInv /\ [Next]_vars => [ListNext \/ KillProcess \/ RestartAfterCrash]_listSysVars
  <2>1. UNCHANGED vars => UNCHANGED listSysVars
    BY DEF vars, listSysVars, dataVars, appVars
  <2> QED
    BY <2>1, ListEnvironmentStep
<1> QED
  BY <1>1, AppInvariant, PTL DEF Spec, ListEnvironmentHolds

(* The same for DetailObjects,                                             *)
THEOREM DetailEnvironmentCorrect == Spec => DetailEnvironmentHolds
<1>1. AppInv /\ [Next]_vars =>
        [DetailNext \/ KillProcess \/ RestartAfterCrash]_<<storedObjects, ui, detailVars>>
  <2>1. UNCHANGED vars => UNCHANGED <<storedObjects, ui, detailVars>>
    BY DEF vars, dataVars, appVars
  <2>2. UNCHANGED detailSysVars => UNCHANGED <<storedObjects, ui, detailVars>>
    BY DEF detailSysVars
  <2> QED
    BY <2>1, <2>2, DetailEnvironmentStep
<1> QED
  BY <1>1, AppInvariant, PTL DEF Spec, DetailEnvironmentHolds

(* and for ChatStream: no two chats are open at a time.                    *)
THEOREM ChatEnvironmentCorrect == Spec => ChatEnvironmentHolds
<1>1. AppInv /\ [Next]_vars => [ChatNext \/ KillProcess \/ RestartAfterCrash]_chatVars
  <2>1. UNCHANGED vars => UNCHANGED chatVars
    BY DEF vars
  <2> QED
    BY <2>1, ChatEnvironmentStep
<1> QED
  BY <1>1, AppInvariant, PTL DEF Spec, ChatEnvironmentHolds

LEMMA BlankStep ==
  ASSUME AppInv, Next, backStack # << >>, backStack' = << >>, ui' = "started",
         UNCHANGED crash
  PROVE  \E e \in Entries : ShowsDetails(e) /\ ~Contains(backStack, e)
<1>0. StackInv
  BY DEF AppInv
<1>1. ASSUME NEW e \in Entries, ClickBack(e)
      PROVE  ShowsDetails(e) /\ ~Contains(backStack, e)
  <2>1. Len(backStack) = 1
    BY <1>0, <1>1, StackPops DEF ClickBack, PopBackStack
  <2>2. backStack[1] # e
    BY <1>0, <1>1, <2>1, EntriesAssumption DEF StackInv
  <2> QED
    BY <1>1, <2>1, <2>2 DEF ClickBack, Contains
<1>2. ASSUME NEW i, NEW e \in Entries, ClickObject(i, e)
      PROVE  FALSE
  <2>1. Append(backStack, e) # << >>
    BY <1>0, <1>2 DEF StackInv
  <2> QED
    BY <1>2, <2>1 DEF ClickObject
<1>3. ~Screens
  BY DEF Screens, Launch, ShowList, FinishTransition, ShowDetail, appVars
<1>4. ~SystemBack
  BY <1>0, StackPops DEF SystemBack, PopBackStack
<1>5. ~System
  BY DEF System, Background, Foreground, RecreateActivity, KillProcess, RestoreBackStack,
         DuplicateKey, ChatFails
<1>6. ~Coroutines
  BY DEF Coroutines, appVars
<1> QED
  BY <1>1, <1>2, <1>3, <1>4, <1>5, <1>6 DEF Next, User, RestartAfterCrash

(* Only a click on the back button of a detail that is no longer on the    *)
(* back stack makes popBackStack() take the list and leave a blank screen. *)
THEOREM BlankCorrect == Spec => BlankNeedsStaleClick
<1>1. AppInv /\ [Next]_vars =>
        [backStack # << >> /\ backStack' = << >> /\ ui' = "started" /\ crash' = crash
           => \E e \in Entries : ShowsDetails(e) /\ ~Contains(backStack, e)]_vars
  BY BlankStep
<1> QED
  BY <1>1, AppInvariant, PTL DEF Spec, BlankNeedsStaleClick

=============================================================================
