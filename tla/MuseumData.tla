----------------------------- MODULE MuseumData -----------------------------
(***************************************************************************)
(* The data layer of one process: the Koin singletons (di/Koin.kt), the    *)
(* refresh coroutine of MuseumRepository, KtorMuseumApi.getData with its   *)
(* exception handler, and InMemoryMuseumStorage.  The coroutine runs on    *)
(* Dispatchers.Default, concurrently with the main thread.                 *)
(***************************************************************************)
EXTENDS MuseumStorage

VARIABLES
  refresh,        \* where the coroutine launched by initialize() is; "none"
                  \* as long as Koin has not created the repository
  fetched         \* the list getData() returned, held by refresh()

dataVars == <<refresh, fetched, storedObjects>>

-----------------------------------------------------------------------------
DataInit ==
  /\ refresh = "none"
  /\ fetched = << >>
  /\ storedObjects = << >>

(* Variant, a fault: `factory` in place of `single`.                       *)
CreateRepositoryEachTime ==
  /\ refresh' = "launched"
  /\ UNCHANGED <<fetched, storedObjects>>

(* The first get() of the MuseumRepository singleton runs its definition,  *)
(* and with it initialize(): scope.launch { refresh() }.                   *)
CreateRepository ==
  /\ refresh = "none"
  /\ refresh' = "launched"
  /\ UNCHANGED <<fetched, storedObjects>>

(* Every view model asks Koin for the repository; later get()s return the  *)
(* instance that exists.                                                   *)
GetRepository ==
  \/ CreateRepository
  \/ refresh # "none" /\ UNCHANGED dataVars

(* The coroutine is dispatched, and getData() suspends in client.get.      *)
BeginGetData ==
  /\ refresh = "launched"
  /\ refresh' = "fetching"
  /\ UNCHANGED <<fetched, storedObjects>>

(* Variants, faults: ids decode to a default; the storage is written early.*)
GetDataDefaultsIds(list) ==
  /\ refresh = "fetching"
  /\ refresh' = "fetched"
  /\ fetched' = [i \in DOMAIN list |-> [list[i] EXCEPT !.objectID = 0]]
  /\ UNCHANGED storedObjects

GetDataStores(list) ==
  /\ refresh = "fetching"
  /\ refresh' = "fetched"
  /\ fetched' = list
  /\ storedObjects' = list

GetDataReturns(list) ==
  /\ refresh = "fetching"
  /\ refresh' = "fetched"
  /\ fetched' = list
  /\ UNCHANGED storedObjects

(* The response arrives and its body decodes to a list.                    *)
GetDataSucceeds == \E list \in Responses : GetDataReturns(list)

(* No connection, no decodable body: the exception is printed, and the     *)
(* caller gets an empty list as if the museum had no objects.              *)
GetDataFails == GetDataReturns(<< >>)

(* A CancellationException is thrown on; refresh() ends without saving.    *)
GetDataCancelled ==
  /\ refresh = "fetching"
  /\ refresh' = "cancelled"
  /\ UNCHANGED <<fetched, storedObjects>>

(* Variant, a fault: refresh() drops the list.                             *)
SaveNothing ==
  /\ refresh = "fetched"
  /\ refresh' = "done"
  /\ UNCHANGED <<fetched, storedObjects>>

SaveObjects ==
  /\ refresh = "fetched"
  /\ refresh' = "done"
  /\ storedObjects' = fetched
  /\ UNCHANGED fetched

RefreshStep ==
  \/ BeginGetData
  \/ GetDataSucceeds
  \/ GetDataFails
  \/ GetDataCancelled
  \/ SaveObjects

DataNext == GetRepository \/ RefreshStep

(* The dispatcher runs what is ready; whether the network ever answers is  *)
(* not assumed.                                                            *)
DataFairness == WF_dataVars(BeginGetData) /\ WF_dataVars(SaveObjects)

DataSpec == DataInit /\ [][DataNext]_dataVars /\ DataFairness

-----------------------------------------------------------------------------
(* MuseumRepository, KtorMuseumApi and InMemoryMuseumStorage keep to their *)
(* types.                                                                  *)
DataTypeOK ==
  /\ refresh \in {"none", "launched", "fetching", "fetched", "done", "cancelled"}
  /\ fetched \in Seq(MuseumObject)
  /\ storedObjects \in Seq(MuseumObject)

(* Only the end of the one refresh writes the storage, and what it wrote   *)
(* is what getData() returned: before it the storage is empty.             *)
StorageFollowsRefresh ==
  storedObjects = IF refresh = "done" THEN fetched ELSE << >>

(* saveObjects() is called at most once per process with a list that is    *)
(* not empty, and a failed getData() never erases one: the data layer      *)
(* implements LoadOnce.                                                    *)
LoadsOnce == Storage!Spec

(* A list that getData() has returned reaches the storage.                 *)
FetchedIsStored ==
  \A list \in Responses :
    (refresh = "fetched" /\ fetched = list) ~> (storedObjects = list)

=============================================================================
