# A verification model of the museum app

TLA+ modules, TLC configurations and TLAPS proofs for the Kotlin Multiplatform
app in this repository: a list of museum objects fetched over HTTP, a detail
screen for each, and a gRPC chat that starts with the list; and for the
Objective-C gRPC client that the repository vendors under `iosApp/Pods` and
builds into the iOS app (`composeApp.podspec` depends on `gRPC-ProtoRPC`), which
carries that chat.

## The system

| Part | Source | State | Operations |
|---|---|---|---|
| Data layer | `data/*.kt`, `di/Koin.kt` | the refresh coroutine, the list it holds, the storage's `StateFlow` | create the repository (once, lazily), `getData`, `saveObjects`, the two queries |
| List | `screens/list/*.kt` | `ListViewModel.objects`, the sharing command and its 5 s timer, the screen's `State` | compose, subscribe, start and stop sharing, copy, show, dispose, clear |
| Detail | `screens/detail/*.kt` | per back stack entry: route, `State`, the contents of `AnimatedContent` | compose, collect, receive, recompose (`obj!!`), finish an exit animation |
| Chat | `ListViewModel.init`, `protos/chat.proto` | the call, what went out, what came in, what was logged | open, emit, stream, log, complete, fail, cancel |
| App | `App.kt`, `MainActivity.kt`, `MuseumApp.kt`, `iosMain`, `iosApp/iosApp` | back stack, lifecycle, what ended the process | launch, navigate, pop, back gesture, background, recreate, process death, crash and restart |
| iOS channel pool | `GRPCChannelPool.mm`, `GRPCChannel.mm`, `GRPCWrappedCall.mm` | pooled channels, their weak tables of calls, the destroy timers | get a channel, make a call, a call's dealloc in two halves, timer, disconnect |
| Request pipe | `GRXBufferedPipe.m` | state, suspended queue, running block, writeable | write, end, run a block, set the state, start |
| iOS call | `GRPCCallLegacy.mm`, `GRPCCallInternal.mm`, `GRPCTransport+Private.mm`, `GRXConcurrentWriteable.m`, `GRPCWrappedCall.mm`, `GRPCCompletionQueue.mm` | one streaming call over four queues and two threads | the user's commands, token, batches and their ends, cancel, disconnection |
| Proto call | `ProtoRPC.m`, `GRPCCall.mm`, `GRPCInterceptor.mm` | the protobuf call, one queue per stage of the interceptor chain | the user's commands, interception, dispatch, callbacks |

How they interact: the first view model makes Koin create the repository, whose
creation launches `refresh()` on a background thread; that one coroutine is all
that runs beside the main thread on the Kotlin side. Both screens observe the storage through
flows. `ListViewModel` opens the chat. The back stack decides which screens are
composed, and during a transition two or more are. On iOS a protobuf call sends
commands down a chain of interceptors to the transport and gets events back up;
the transport makes a `GRPCCall`, which takes a wrapped call from a pooled
channel, reads its requests from a buffered pipe and gives batches to gRPC Core.

What is hard to test here, in short (`PROJECT.json` lists each hazard at its
line): a refresh that lands in any state of the screens; the sharing timer
racing a subscriber that comes back; `obj!!` in content that outlives the test
it was chosen by; a new flow in every composition; double clicks during
transitions; process death, which keeps the back stack and loses the data; and in
the gRPC client, a pipe paused, resumed and finished by three threads, a cancel
meeting a status, a value and a late token on different queues, and a destroy
timer that fires after new calls were made.

## Modules

- `MuseumObjects`: objects, lists, `Find` (`objects.find { ... }`), unique keys.
- `LoadOnce`: the abstract specification of the storage. It is empty, is
  replaced at most once by a list that is not, and then stays. `MuseumStorage`
  declares the storage's variable and states `LoadOnce` of it; `Lifecycle`
  declares the lifecycle that the screens observe; `Streams` says when one
  sequence is the start of another.
- `MuseumData`: the data layer of one process. `refresh` is the program counter
  of the coroutine (`none`, `launched`, `fetching`, `fetched`, `done`,
  `cancelled`). A failed `getData` returns the empty list, as the handler does.
- `ListObjects`: `stateIn(..., WhileSubscribed(5000), emptyList())` and
  `ListScreen`. Each reaction of the sharing coroutine is a step of its own,
  since a change of the subscription count reaches it by a dispatch; so the
  timer may expire although a subscriber is back.
- `DetailObjects`: `DetailScreen` for every entry. `pane[e].contents` is the set
  of `AnimatedContent` targets that are composed; `RecomposeDetail` evaluates
  `obj!!` for `TRUE` among them. `crash` records a failed one.
- `ChatStream`: one call of `ChatService.ChatStream` at a time.
- `MuseumApp`: extends the four components, which share `storedObjects` and
  `ui`, with navigation, lifecycle, process death and crashes. Its actions
  are built from theirs: the first `ShowList` creates the repository, composes the
  list and opens the chat.

- `ChannelPool`: every `@synchronized` block of the pool is a step. A timer may
  fire at any time after it is set; a wrapped call's `dealloc` is two steps,
  since weak references are nil before the pooled channel is told.
- `BufferedPipe`: `suspended` counts the suspensions of the pipe's queue;
  `startWithWriteable:` and the end block are two steps each, as they release or
  never take the lock.
- `ResponseContract`: the abstract specification of what a response handler
  hears: metadata once and first, messages in order without gaps, at most one
  close, nothing after it, and a close without an error only after every message.
  `Given` is the set of the numbers of the messages handed over: message `n` may
  come when it is `1..(n - 1)`. The methods of a `GRPCProtoResponseHandler` are
  optional, so the contract has the set `methods` of those a handler has: it
  hears the other events never; one without a close method may miss a message,
  since a message that does not parse is then dropped and the call goes on.
- `GrpcCall`: one call, with the pipe of `BufferedPipe` as its request writer.
  `thread` holds what a thread does after it released a lock: start or finish
  the request writer, or wait for the token. The two batches of `invokeCall` go
  to the core one after the other. A batch that has ended waits on the completion
  queue, so its handlers may run after a cancel, a disconnection or the status of
  a failed RPC: `MessageDone`, `MessageTooLarge`, `SendDone` and `MetadataDone`
  ask for none of these to be absent.
- `ProtoCall`: the protobuf call and the chain of interceptors above a transport
  that behaves as `ResponseContract` allows. `user.methods` is the set of
  methods that the handler implements; `Responds` is `respondsToSelector:`.
- `SequenceLemmas` and the `...Proofs` modules: see Proofs.

The call's parts fit as the app's do. `GrpcCall` implements `ResponseContract`
(`HandlerContract`), `ProtoCall` assumes it of its transport and implements it
again for the user's handler (`ProtoContract`). `GrpcCall` uses the pipe as
`PipeSpec` says it may be used (`PipeContract`). It meets the pool in
`startCallWithWriteable` (a wrapped call or none) and `channelDisconnected`.

Components are separate specifications with an explicit environment: the list
and the details run over any storage that behaves as `LoadOnce`, which
`MuseumData` implements (`LoadsOnce`). `ListEnvironmentHolds`,
`DetailEnvironmentHolds` and `ChatEnvironmentHolds` check that the composed app
does to each component only what its environment may do, within one process.
The safety results of the small specifications therefore carry over to the app,
and `MuseumAppProofs` proves that they do; liveness does not, since the app
states no fairness yet. TLC checks them on Android, whose steps within a process
include those of iOS.

Definitions named in a comment that begins "Variant" are faults: a plausible
mistake in the code, used to confirm that a property would notice it. No
specification uses them.

Library behaviour is modelled from how the code uses it: Koin `single` is lazy
and unique; `StateFlow` conflates and drops equal values;
`collectAsStateWithLifecycle` collects while STARTED, keeps its `State` and
restarts when it gets another flow; `AnimatedContent` and `NavHost` keep what
leaves composed until the animation ends; `popBackStack` pops the top, the
start destination included; an empty back stack is not saved;
`viewModelScope` has no exception handler. Of libdispatch: a serial queue runs
one block at a time, in order; a suspension does not stop a block that has
begun; to resume a queue that is not suspended traps. Of gRPC Core: the status
batch ends once it is started and the call is cancelled or unreferenced; sends
end while the RPC runs; there is no message before the metadata. One more
assumption about the core comes from its source, `chttp2_transport.cc`:
`grpc_chttp2_maybe_complete_recv_trailing_metadata` completes the status of a
stream without an error only when `frame_storage` is empty, that is, when every
message has been given to a RECV_MESSAGE; and one thread takes the ends of
batches from the completion queue in order. So no message handler runs after a
status handler that got OK (`MessageCanArrive`). After a failed status one may.

## Runs

| Run | Specification | Bounds | Shows |
|---|---|---|---|
| `data` | `MuseumData` | 2 ids, 2 titles, lists up to 3 | the list is loaded at most once (`LoadsOnce`, a refinement of `LoadOnce`), is what `getData` returned, and arrives |
| `list` | `ListObjects` | 2 ids, lists up to 2 | the collection and its timer do not outlive the view model, and no late STOP meets a new START; screen and view model hold nothing or the stored list; a grid never turns into "No data available"; a stored list is shown, also when the sharing was stopped; unobserved sharing stops |
| `detail` | `DetailObjects` | 2 ids, 2 titles, lists up to 2, 2 entries | `obj!!` is safe; a pane shows its own object; a stored object is shown; recomposition ends |
| `chat` | `ChatStream` | 2 messages, streams up to 3 | the log is the stream, in order, without gaps |
| `chat_timestamp` | `ChatStream` | streams up to 1 | violated: see below |
| `app_android` | `MuseumApp` | 2 ids, lists of 1 and 2, 2 entries, no streamed messages | crashes are explained; scopes end; a blank screen needs a stale click; the environments hold |
| `app_ios` | `MuseumApp` | the same and a list that repeats an id, streams up to 1 | the same crashes; every detail on the stack has a stored object, so its back button comes |
| `pool` | `ChannelPool` | 3 calls, one host with and without its port | a call keeps its channel; an idle channel is destroyed |
| `call` | `GrpcCall` | 4 scenarios, 2 values, 2 replies, `NSUInteger` of 4 | one batch of a kind at a time and requests in order; with flow control no read that was not asked for; the pipe is used and works as it should; the handler hears a legal sequence; calls close; writes go out |
| `call_leak` | `GrpcCall` | the same | violated: see below |
| `proto` | `ProtoCall` | 1 interceptor, 2 messages, 2 scripts, 3 handlers | the handler hears a legal sequence; the chain comes down as a whole, with a close |
| `proto_cancel` | `ProtoCall` | the same | violated: see below |

Bounds. Lists need a match and a non-match, two different objects with one id,
and two different lists in sequence: length 2 or 3 over 2 ids and 2 titles has
them. Two entries are a double click, or a leaving and an entering detail; the
back stack is bounded by `Entries`, and nothing the code does depends on its
depth beyond top, next and bottom. The entries of the app are symmetric. The
chat shares only `viewModel` with the rest, so one message at most is streamed
in the app. Three calls on one pooled channel are one before a timer, one after
it, and one more whose end sets another; pooled channels share nothing. A
scenario of `GrpcCall` fixes the options and the order of the user's calls, and
a cancel may come at any point of it: two writes that the pipe must hold apart;
flow control with a message asked for before and after the start; a token with a
write before the start and the end after it; a token for a call without flow
control that leaves its requests open. Two replies are a message that is next and
one that is not, so a message out of order or a gap could show. The handlers of
`ProtoCall` have all the methods, only the close, and only the messages; the
second and the third each take one way through `cancel` and `didReceiveData:`
that the first does not.
One interceptor is enough for a stage that has neighbours on both sides. An
`NSUInteger` of 4 values wraps within these scenarios, and the size is a
constant. The runs of calls turn the deadlock check off, because a call ends;
`CallCloses` and `ChainEnds` say that it ends with a close. No other does.

Fairness. The dispatchers run coroutines that are ready, frames are drawn in the
foreground, and `delay` ends: weak fairness of the steps that are then enabled.
Nothing is assumed of the network, the server, the user or the system, so no
property says that a list ever arrives. `Unsubscribe`, `StopCollecting` and
`CancelStopTimer` need none. In the gRPC client every dispatch queue runs its
blocks, every thread goes on from where it is, and `dispatch_after` fires; gRPC
Core ends the status batch of a call that is cancelled and sends while the RPC
runs. Nothing is assumed of the user, the token provider, the server or faults.

Findings.

1. `chat.proto` says of `timestamp` "Timestamp as string (milliseconds
since epoch)"; `ListViewModel` sends `timestamp = ""`.
2. `call_leak`: `startCallWithWriteable:` starts the request pipe after its lock
   is released. A status or a cancel in between sets the pipe to `Finished`,
   which a pipe that is not started ignores; then the pipe is started and keeps
   the `GRPCCall`, which keeps the pipe, the wrapped call and so its channel.
   The end that the completion handler writes ("Clean up the request writers")
   does not help: `GRXBufferedPipe`'s `finishWithError:` neither releases the
   writeable nor changes the state, as `GRXWriter.h` says it does.
3. `proto_cancel`: `finish` lets go of the `GRPCCall2`, so a later `cancel`
   closes for the handler and never reaches the transport, where `ProtoRPC.h`
   says that it "attempts to notify the server". A unary call finishes as it
   starts, so this is every cancel of one.

Behaviour worth knowing that the model reaches and no document contradicts: a
failed first fetch leaves the app empty until the process restarts; a second
click on a leaving detail's back button leaves a blank screen; a chat server
that is not there ends the process. In the gRPC client, a channel that is
disconnected before the status batch is started leaves a call without a close
(`CallCloses` speaks of the others), and a refused call calls a pending destroy
timer off, so that an idle channel stays (`IdleChannelIsDestroyed` leaves out the
channels marked `refused`: nothing in the code brings their timer back). A
handler without a close method is let go of by `cancel` without a word, and is
kept after the transport has closed.

Locks. Every `@synchronized` block is one step, so a deadlock of locks is out of
sight. By inspection they nest in one order: pipe or `GRPCCall2Internal`, then
`GRPCCall`, then writeable, wrapped call, pool and pooled channel. `GRPCCall`
sets its request writer's state only after its own lock is released, which is
why those are steps of their own (`StartWriter`, `FinishWriter`).

## Proofs

All theorems hold for every value of the constants, from the named assumptions
of the modules: `ResponsesAssumption` (responses are lists of objects),
`NoObjectAssumption` (null is no object), `MaxMessagesAssumption` and
`ChainAssumption` (bounds and the length of the chain are naturals; the user's
script consists of calls), `PlatformAssumption`, `EntriesAssumption` (the list's
destination is no detail), `NoDateAssumption` (nil is no date), `EOSAssumption`
(the end is no value) and `ScenariosAssumption` (the user keeps to the order
that `GRPCInterceptor.h` asks for; `NSUInteger` has at least one value).

Every invariant and every action property of the passing runs is stated by a
theorem, but for `ReadsAreAskedFor`, which sums over what the user asked for and
would need an induction. `ProtoContract` is proved for handlers with all the
methods (`Complete`), as `GRPCUnaryResponseHandler` has them; for the others TLC
checks it, and the theorem `EndIsFinal` says that they hear nothing after the
end. The two refinements of `ResponseContract` and those of `LoadOnce` and
`PipeSpec` are proved step by step: an initial state maps to an initial state,
and under the invariant each step maps to a step or a stutter.

- `MuseumProofs`, the components of the app.
  *Data*: types; `StorageFollowsRefresh`, inductive together with "`fetched` is
  a response or empty"; from the two, that each step is a `Load` or leaves the
  storage alone, hence `DataSpec => LoadsOnce`.
  *List*: types; `SharingIsScoped`, inductive with "a composed list has its view
  model"; `ListIsEmptyOrStored` and the action property
  `GridNeverEmpties`. `ListInv` adds that a screen which is not composed neither
  collects nor remembers a list. `Load` keeps it because the storage was empty,
  so view model and screen were.
  *Detail*: types, `NoNullDereference`, `PaneShowsItsObject`, from one inductive
  invariant `DetailInv`: a composed or chosen content `TRUE` has an object, and
  a screen that is not composed remembers nothing. The argument: an object
  equals `Find` on the stored list; `Find` on the empty list is null; `LoadOnce`
  changes only the empty list; so an object never goes back to null.
  *Chat*: types and `LogFollowsStream`.
- `MuseumAppProofs`, the app as a whole. `AppInv` joins the components'
  invariants and adds what the app has to see to: a cleared view model leaves
  neither a sharing, a timer nor an open call behind (`ScopeInv`); the list is
  at the bottom of the back stack and no entry is on it twice (`StackInv`); an
  empty back stack has no view model (`BlankInv`); a crash for a repeated key
  was caused by one (`CrashInv`). Each action of the app is shown to be, for
  every component, a step of that component's own specification or the loss of
  the process, so that the lemmas of `MuseumProofs` apply; these are also the
  three environment theorems. The rest follows: `CrashesAreExplained`,
  `PanesShowTheirObjects`, `ScopeEndsWithViewModel`, `DetailsHaveObjects`, and
  the action property `BlankNeedsStaleClick`.
- `ChannelPoolProofs`: types and `CallsKeepTheirChannel`. The strengthening,
  `TimersSpareCalls`, says that a pooled channel whose timer would destroy it has
  no call with a `grpc_call`: a timer is set only when the weak table shows none,
  and a new call clears the date the timer compares with.
- `GrpcCallProofs`, the request pipe. `PipeCorrect` is inductive with types and
  with "the pipe has its writeable exactly while it is started or paused, and
  nothing runs before it is started". Then `CallSpec` implements `PipeSpec`: the
  invariant `CallInv` says that whoever holds the pipe has not ended it, and
  that what waits on the dispatch queue has its type. So `PipeCorrect` holds of
  the pipe of every call.
- `GrpcBatchProofs`, the batches: `CallTypeOK` and `BatchesInOrder`. `BatchInv`
  follows each kind of batch through its queues. Before the call has joined the
  core nothing runs below it (`StartInv`); while a message is on the call queue
  or in the core the pipe is paused, so there is no second (`SendInv`); what the
  pipe passed on is with the core, but for one request on the call queue
  (`OrderInv`); a read is on the call queue, in the core, or a value on the
  dispatch queue, and in one of them only (`ReadInv`).
- `GrpcResponseProofs`: `CallSpec` implements `ResponseContract`. `ResponseInv`
  says how the blocks on the dispatch queue stand to what was heard: one
  `complete` makes one close, and a value comes after it only when the writeable
  is cancelled and drops it (`EndInv`); a call that has its writeable finishes
  with the writeable cancelled or with the core's status OK, after which the core
  has no message (`OutcomeInv`), and this is what makes late messages harmless;
  metadata is
  queued or heard once and before data (`HeaderInv`); at most one message is
  between the core and the handler, it is the next one, and none was dropped
  unless the call was cancelled, which closes with an error (`MessageInv`).
- `ProtoCallProofs`: `ProtoSpec` implements `ResponseContract`, for a chain of
  any length and a handler with all the methods. `FlowInv` reads the protoQueue and the queues of the stages, in
  this order, as one tape: from what the handler has heard, a reader finds the
  metadata and the messages numbered without a gap, up to the first block that
  ends the call; it finds a close without an error only when it has counted
  everything. A function gives the count on entry to every queue, so each step
  is a change of one or two queues (the lemmas `FlowMove`, `FlowDrop`,
  `FlowOrder`, `FlowBreak`, `FlowClose`, `FlowDispatch`, `FlowTaken`,
  `FlowEmit`), and a stage that is shut down is one that the reader never
  reaches. `EndIsFinal`, for any handler, rests on `LetGo`: the protobuf call has
  no handler any more after a close, or after a cancel that could not be heard.
- `SequenceLemmas`: moving the head of one sequence to the end of another,
  prefixes, and which blocks of a queue come before which.

Model-checked only: `ReadsAreAskedFor`; `ProtoContract` for handlers that lack a
method; and the liveness properties (`FetchedIsStored`,
`StoredListIsShown`, `UnobservedSharingStops`, `StoredObjectIsShown`,
`RecompositionSettles`, `StreamIsLogged`, `IdleChannelIsDestroyed`,
`CallCloses`, `WritesGoOut`, `ChainEnds`), because fairness and `ENABLED` are out
of the prover's reach. The three findings are counterexamples, which TLC gives.

## Not modelled

- gRPC Core, BoringSSL, abseil and the Protobuf runtime. They are nearly all of
  the code under `iosApp/Pods` (about 775,000 lines of C, C++ and Objective-C, of
  which the gRPC client's own are some 6,000). The app meets them through
  `grpc_call_start_batch`, the completion queue and message parsing, which the
  models state as environment, but for the order of messages and status, which is
read from `chttp2_transport.cc` (see Modules). So the models cover a small share of the lines of
  the repository: the behaviour of the app itself, the path of one call through
  the Objective-C client, and nothing of the libraries below it. To specify a
  transport, a TLS library or a container library is not a matter of this app.
- In the Objective-C client: the v1 interface (`GRPCProtoCall`, `GRPCHost`, the
  other Rx writers, `GRPCCall`'s `setState:` and its unary batch), which a
  `GRPCCall2` does not reach; call options, headers and credentials, which are
  values; interceptors with behaviour of their own.
- Build scripts, resources, layout, images, texts and logging have no behaviour
  the properties tell apart. JVM `Error`s pass through `catch (e: Exception)` and
  are left out. `SendMessage` of `chat.proto` has no caller.
- On Android the channel of the chat is grpc-java's, which is not in the
  repository.

## Plan

1. Liveness in the composition: under the fairness of the components, the top
   of the back stack is composed and settles.
2. `GrpcCall` over `ChannelPool`: several calls that share a pooled channel.
