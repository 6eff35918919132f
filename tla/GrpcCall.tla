------------------------------ MODULE GrpcCall ------------------------------
(***************************************************************************)
(* One streaming call of the Objective-C gRPC client, from the transport   *)
(* manager down to the batches it starts in gRPC Core: GRPCTransportManager*)
(* (manager), GRPCCall2Internal (internal), GRPCCall (grpcCall), the       *)
(* GRXConcurrentWriteable of its responses (writeable), its request pipe   *)
(* (BufferedPipe), and GRPCWrappedCall with the core behind it (core).     *)
(*                                                                         *)
(* Four serial queues and two threads run it: GRPCCall2Internal's          *)
(* dispatchQueue, which is also the manager's and the response queue; the  *)
(* callQueue; the pipe's writeQueue; the completion queue's loop (network);*)
(* and, when there is a token provider, the thread it answers on.  A step  *)
(* is a @synchronized block, or the part of a queue's block that no other  *)
(* thread can tell from it.                                                *)
(***************************************************************************)
EXTENDS BufferedPipe

CONSTANTS
  Scenarios,        \* call options and an order of the user's calls
  MaxReplies,       \* bound: the messages the server sends
  NSUIntegerSize    \* 2^64 in the code

Block(what, arg) == [do |-> what, arg |-> arg]
Ending(what, status) == [do |-> what, status |-> status]

(* What the user asks of GRPCCall2, in the order of the state diagram of   *)
(* GRPCInterceptor.h: one start, finish after it, no write after finish.   *)
UserBlocks ==
  [do : {"write"}, arg : Values]
    \union [do : {"start", "finish", "receive"}, arg : Nat]

Legal(script) ==
  \A i, j \in 1..Len(script) :
    /\ i < j /\ script[i].do = "start" => script[j].do # "start"
    /\ i < j /\ script[i].do = "finish"
         => script[j].do \notin {"start", "write", "finish"}

ASSUME ScenariosAssumption ==
  /\ \A s \in Scenarios :
       /\ {s.flowControl, s.tokenProvider} \subseteq BOOLEAN
       /\ s.script \in Seq(UserBlocks)
       /\ Legal(s.script)
  /\ MaxReplies \in Nat
  /\ NSUIntegerSize \in Nat \ {0}

VARIABLES
  scenario,        \* the one of this call
  user,            \* how far the user of GRPCCall2 has come in its script
  manager,         \* GRPCTransportManager: _previousInterceptor, _transport
  internal,        \* GRPCCall2Internal
  grpcCall,        \* GRPCCall
  writeable,       \* GRXConcurrentWriteable
  core,            \* GRPCWrappedCall and the batches gRPC Core has accepted
  dispatchQueue,
  callQueue,
  thread,          \* what each thread is in the middle of
  heard            \* the callbacks handed to the previous interceptor

callVars == <<scenario, user, manager, internal, grpcCall, writeable, core,
              dispatchQueue, callQueue, thread, heard>>
vars == <<pipeVars, callVars>>

Event(what, arg) == [event |-> what, arg |-> arg]
Close(status) == [event |-> "close", status |-> status]

CallInit ==
  /\ PipeInit
  /\ scenario \in Scenarios
  /\ user = [asked |-> 0, cancel |-> FALSE]
  /\ manager = [previous |-> TRUE, transport |-> TRUE]
  /\ internal = [started |-> FALSE, canceled |-> FALSE, finished |-> FALSE,
                 call |-> FALSE, pipe |-> TRUE, published |-> FALSE,
                 pendingReceive |-> 0]
  /\ grpcCall = [state |-> "NotStarted", pendingCoreRead |-> TRUE,
                 pendingReceive |-> 0, headers |-> FALSE]
  /\ writeable = [made |-> FALSE, cancelled |-> FALSE, finished |-> FALSE]
  /\ core = [connected |-> FALSE, broken |-> FALSE, metadata |-> "none",
             status |-> "none", send |-> 0, receive |-> 0,
             sent |-> << >>, received |-> 0]
  /\ dispatchQueue = << >>
  /\ callQueue = << >>
  /\ thread = [dispatch |-> "idle", network |-> "idle", token |-> "idle"]
  /\ heard = << >>

-----------------------------------------------------------------------------
(* GRPCCall2: each method is one dispatch_async to the first interceptor,  *)
(* here the transport manager.  The user goes through the script as far as *)
(* it likes, and may cancel at any point; after the close it would only be *)
(* ignored.                                                                *)
UserAsks(b, u) ==
  /\ dispatchQueue' = Append(dispatchQueue, b)
  /\ user' = u
  /\ UNCHANGED <<pipeVars, scenario, manager, internal, grpcCall, writeable,
                 core, callQueue, thread, heard>>

UserCalls ==
  LET i == user.asked + 1 IN
    /\ i <= Len(scenario.script) /\ manager.previous
    /\ UserAsks(scenario.script[i], [user EXCEPT !.asked = i])

UserCancels ==
  /\ ~user.cancel /\ manager.previous
  /\ UserAsks(Block("cancel", 0), [user EXCEPT !.cancel = TRUE])

User == UserCalls \/ UserCancels

-----------------------------------------------------------------------------
(* GRPCCall: reading and finishing.                                        *)

(* Variant, a fault: no look at _pendingReceiveNextMessages, which wraps.  *)
MayReadUnasked(g) ==
  /\ g.state = "Started"
  /\ scenario.flowControl => ~g.pendingCoreRead

(* maybeStartNextRead, on the call g: with flow control it waits for the   *)
(* core's last read and for a message the user asked for.                  *)
MayRead(g) ==
  /\ g.state = "Started"
  /\ scenario.flowControl => ~g.pendingCoreRead /\ g.pendingReceive > 0

maybeStartNextRead(g) ==
  IF MayRead(g)
    THEN /\ grpcCall' = [g EXCEPT !.pendingCoreRead = TRUE,
                           !.pendingReceive = (@ - 1) % NSUIntegerSize]
         /\ callQueue' = Append(callQueue, Block("read", 0))
    ELSE grpcCall' = g /\ UNCHANGED callQueue

(* finishWithError: once only.  An error cancels the writeable, which      *)
(* drops the values enqueued before; a success is enqueued behind them.    *)
(* The call is g, its writeable w, and queue is on the dispatchQueue.      *)
finishWithError(g, w, status, queue) ==
  /\ grpcCall' = [g EXCEPT !.state = "Finished"]
  /\ IF g.state = "Finished" \/ ~w.made
       THEN dispatchQueue' = queue /\ writeable' = w
       ELSE /\ dispatchQueue' = Append(queue, Ending("complete", status))
            /\ writeable' = [w EXCEPT !.cancelled = @ \/ status # "ok"]

(* [_wrappedCall cancel]: a no-op without a grpc_call.                     *)
CancelWrappedCall == core' = [core EXCEPT !.broken = @ \/ core.connected]

(* startCallWithWriteable:, in its lock: the writeable, and either the     *)
(* wrapped call with the two batches of invokeCall on the callQueue (the   *)
(* one of sendHeaders has no handler), or no wrapped call and an end.  With*)
(* a wrapped call, the thread who then starts the request pipe.            *)
startCallWithWriteable(g, queue, who) ==
  LET w == [writeable EXCEPT !.made = TRUE] IN
    \/ /\ grpcCall' = g
       /\ writeable' = w
       /\ dispatchQueue' = queue
       /\ core' = [core EXCEPT !.connected = TRUE]
       /\ callQueue' = callQueue \o <<Block("recvMetadata", 0),
                                      Block("recvStatus", 0)>>
       /\ thread' = [thread EXCEPT ![who] = "startWriter"]
    \/ /\ finishWithError(g, w, "error", queue)
       /\ thread' = [thread EXCEPT ![who] = "idle"]
       /\ UNCHANGED <<core, callQueue>>

-----------------------------------------------------------------------------
(* GRPCCall2Internal and GRPCTransportManager: the dispatchQueue.          *)

Rest == Tail(dispatchQueue)

Runs(what) ==
  /\ thread.dispatch = "idle"
  /\ dispatchQueue # << >>
  /\ Head(dispatchQueue).do = what

Commands == {"start", "write", "finish", "cancel", "receive"}

(* After shutDown the manager has no transport to pass a command to.       *)
DropCommand ==
  /\ \E what \in Commands : Runs(what)
  /\ ~manager.transport
  /\ dispatchQueue' = Rest
  /\ UNCHANGED <<pipeVars, scenario, user, manager, internal, grpcCall,
                 writeable, core, callQueue, thread, heard>>

(* startWithRequestOptions: makes the GRPCCall, hands it the receives      *)
(* asked for so far, and starts it; a token provider is asked first.       *)
Start ==
  /\ Runs("start") /\ manager.transport
  /\ ~internal.started /\ ~internal.canceled
  /\ internal' = [internal EXCEPT !.started = TRUE, !.call = TRUE,
                                  !.pendingReceive = 0]
  /\ LET g == [grpcCall EXCEPT !.state = "Started",
                               !.pendingReceive = internal.pendingReceive]
     IN  IF scenario.tokenProvider
           THEN /\ grpcCall' = g
                /\ dispatchQueue' = Rest
                /\ thread' = [thread EXCEPT !.token = "asked"]
                /\ UNCHANGED <<writeable, core, callQueue>>
           ELSE startCallWithWriteable(g, Rest, "dispatch")
  /\ UNCHANGED <<pipeVars, scenario, user, manager, heard>>

(* The handler of getTokenWithHandler:, on any thread.                     *)
TokenArrives ==
  /\ thread.token = "asked"
  /\ IF grpcCall.state = "Finished"
       THEN /\ thread' = [thread EXCEPT !.token = "idle"]
            /\ UNCHANGED <<grpcCall, writeable, core, dispatchQueue,
                           callQueue>>
       ELSE startCallWithWriteable(grpcCall, dispatchQueue, "token")
  /\ UNCHANGED <<pipeVars, scenario, user, manager, internal, heard>>

(* [_requestWriter startWithWriteable:self], with no lock held.            *)
StartWriter(who) ==
  /\ thread[who] = "startWriter"
  /\ IF resuming THEN ResumeStarted ELSE StartWithWriteable
  /\ thread' = [thread EXCEPT ![who] = IF resuming THEN "idle" ELSE @]
  /\ UNCHANGED <<scenario, user, manager, internal, grpcCall, writeable, core,
                 dispatchQueue, callQueue, heard>>

(* _requestWriter.state = GRXWriterStateFinished, with no lock held.       *)
FinishWriter(who) ==
  /\ thread[who] = "finishWriter"
  /\ SetState("Finished")
  /\ thread' = [thread EXCEPT ![who] = "idle"]
  /\ UNCHANGED <<scenario, user, manager, internal, grpcCall, writeable, core,
                 dispatchQueue, callQueue, heard>>

writeData ==
  /\ Runs("write") /\ manager.transport
  /\ IF internal.canceled \/ internal.finished \/ ~internal.pipe
       THEN UNCHANGED pipeVars
       ELSE Write(Head(dispatchQueue).arg)
  /\ dispatchQueue' = Rest
  /\ UNCHANGED <<scenario, user, manager, internal, grpcCall, writeable, core,
                 callQueue, thread, heard>>

(* Variant, a fault: the pipe is kept for the completion to end again.     *)
finishKeepingPipe ==
  /\ Runs("finish") /\ manager.transport
  /\ IF ~internal.started \/ internal.canceled \/ internal.finished
       THEN UNCHANGED <<pipeVars, internal>>
       ELSE /\ IF internal.pipe THEN Write(EOS) ELSE UNCHANGED pipeVars
            /\ internal' = [internal EXCEPT !.finished = TRUE]
  /\ dispatchQueue' = Rest
  /\ UNCHANGED <<scenario, user, manager, grpcCall, writeable, core,
                 callQueue, thread, heard>>

finish ==
  /\ Runs("finish") /\ manager.transport
  /\ IF ~internal.started \/ internal.canceled \/ internal.finished
       THEN UNCHANGED <<pipeVars, internal>>
       ELSE /\ IF internal.pipe THEN Write(EOS) ELSE UNCHANGED pipeVars
            /\ internal' = [internal EXCEPT !.finished = TRUE, !.pipe = FALSE]
  /\ dispatchQueue' = Rest
  /\ UNCHANGED <<scenario, user, manager, grpcCall, writeable, core,
                 callQueue, thread, heard>>

(* receiveNextMessages: counts for a call that is still to be made, or     *)
(* goes on to GRPCCall's, which reads only under flow control.             *)
receiveNextMessages ==
  LET n == Head(dispatchQueue).arg
      g == [grpcCall EXCEPT !.pendingReceive = (@ + n) % NSUIntegerSize]
  IN  /\ Runs("receive") /\ manager.transport
      /\ IF ~internal.call
           THEN /\ internal' = [internal EXCEPT
                                  !.pendingReceive = (@ + n) % NSUIntegerSize]
                /\ UNCHANGED <<grpcCall, callQueue>>
           ELSE /\ IF scenario.flowControl /\ n > 0
                     THEN maybeStartNextRead(g)
                     ELSE grpcCall' = g /\ UNCHANGED callQueue
                /\ UNCHANGED internal
      /\ dispatchQueue' = Rest
      /\ UNCHANGED <<pipeVars, scenario, user, manager, writeable, core,
                     thread, heard>>

(* Variant, a fault: the manager is left with its previous interceptor.    *)
cancelWithoutShutDown ==
  /\ Runs("cancel") /\ manager.transport /\ ~internal.canceled
  /\ internal' = [internal EXCEPT !.canceled = TRUE, !.call = FALSE,
                                  !.pipe = FALSE]
  /\ heard' = IF manager.previous
                THEN Append(heard, Close("cancelled")) ELSE heard
  /\ IF internal.call /\ grpcCall.state # "Finished"
       THEN /\ finishWithError(grpcCall, writeable, "cancelled", Rest)
            /\ CancelWrappedCall
            /\ thread' = [thread EXCEPT !.dispatch = "finishWriter"]
       ELSE /\ dispatchQueue' = Rest
            /\ UNCHANGED <<grpcCall, writeable, core, thread>>
  /\ UNCHANGED <<pipeVars, scenario, user, manager, callQueue>>

(* cancel: the close goes out and the manager shuts down at once; then the *)
(* GRPCCall, unless it is finished, is finished and its core call and its  *)
(* request pipe after it.                                                  *)
cancel ==
  /\ Runs("cancel") /\ manager.transport /\ ~internal.canceled
  /\ internal' = [internal EXCEPT !.canceled = TRUE, !.call = FALSE,
                                  !.pipe = FALSE]
  /\ heard' = IF manager.previous
                THEN Append(heard, Close("cancelled")) ELSE heard
  /\ manager' = [previous |-> FALSE, transport |-> FALSE]
  /\ IF internal.call /\ grpcCall.state # "Finished"
       THEN /\ finishWithError(grpcCall, writeable, "cancelled", Rest)
            /\ CancelWrappedCall
            /\ thread' = [thread EXCEPT !.dispatch = "finishWriter"]
       ELSE /\ dispatchQueue' = Rest
            /\ UNCHANGED <<grpcCall, writeable, core, thread>>
  /\ UNCHANGED <<pipeVars, scenario, user, callQueue>>

(* The response handlers publish the initial metadata with the first value *)
(* or at the end, if the GRPCCall is there and has it.                     *)
Metadata ==
  IF ~internal.published /\ internal.call /\ grpcCall.headers
    THEN <<Block("metadata", 0)>> ELSE << >>

(* enqueueValue:'s block, with the valueHandler and the next read.         *)
WriteResponse ==
  /\ Runs("value")
  /\ IF writeable.finished \/ writeable.cancelled
       THEN /\ dispatchQueue' = Rest
            /\ UNCHANGED <<internal, grpcCall, callQueue>>
       ELSE /\ dispatchQueue' = Rest \o Metadata
                                  \o <<Block("data", Head(dispatchQueue).arg)>>
            /\ internal' = [internal EXCEPT !.published = TRUE]
            /\ maybeStartNextRead([grpcCall EXCEPT !.pendingCoreRead = FALSE])
  /\ UNCHANGED <<pipeVars, scenario, user, manager, writeable, core, thread,
                 heard>>

(* Variant, a fault: the block of cancelWithError: looks at _cancelled too. *)
CompleteUncancelled ==
  LET status == Head(dispatchQueue).status IN
    /\ Runs("complete")
    /\ IF writeable.finished \/ writeable.cancelled
         THEN /\ dispatchQueue' = Rest
              /\ UNCHANGED <<pipeVars, internal, writeable>>
         ELSE /\ dispatchQueue' = Rest \o Metadata
                                    \o <<Ending("close", status)>>
              /\ writeable' = [writeable EXCEPT !.finished = TRUE]
              /\ internal' = [internal EXCEPT !.published = TRUE,
                                 !.call = FALSE, !.pipe = @ /\ ~internal.call]
              /\ IF internal.call /\ internal.pipe THEN Write(EOS)
                                                  ELSE UNCHANGED pipeVars
    /\ UNCHANGED <<scenario, user, manager, grpcCall, core, callQueue, thread,
                   heard>>

(* enqueueSuccessfulCompletion's or cancelWithError:'s block, with the     *)
(* completionHandler, which also ends the request pipe.                    *)
Complete ==
  LET status == Head(dispatchQueue).status IN
    /\ Runs("complete")
    /\ IF writeable.finished \/ (status = "ok" /\ writeable.cancelled)
         THEN /\ dispatchQueue' = Rest
              /\ UNCHANGED <<pipeVars, internal, writeable>>
         ELSE /\ dispatchQueue' = Rest \o Metadata
                                    \o <<Ending("close", status)>>
              /\ writeable' = [writeable EXCEPT !.finished = TRUE]
              /\ internal' = [internal EXCEPT !.published = TRUE,
                                 !.call = FALSE, !.pipe = @ /\ ~internal.call]
              /\ IF internal.call /\ internal.pipe THEN Write(EOS)
                                                  ELSE UNCHANGED pipeVars
    /\ UNCHANGED <<scenario, user, manager, grpcCall, core, callQueue, thread,
                   heard>>

(* forwardPreviousInterceptor...: nothing is left to forward to after the  *)
(* close.                                                                  *)
Forward ==
  /\ \E what \in {"metadata", "data", "didWrite"} : Runs(what)
  /\ heard' = IF manager.previous
                THEN Append(heard, Event(Head(dispatchQueue).do,
                                         Head(dispatchQueue).arg))
                ELSE heard
  /\ dispatchQueue' = Rest
  /\ UNCHANGED <<pipeVars, scenario, user, manager, internal, grpcCall,
                 writeable, core, callQueue, thread>>

ForwardClose ==
  /\ Runs("close")
  /\ heard' = IF manager.previous
                THEN Append(heard, Close(Head(dispatchQueue).status))
                ELSE heard
  /\ manager' = [previous |-> FALSE, transport |-> FALSE]
  /\ dispatchQueue' = Rest
  /\ UNCHANGED <<pipeVars, scenario, user, internal, grpcCall, writeable, core,
                 callQueue, thread>>

Dispatch ==
  \/ DropCommand
  \/ Start \/ StartWriter("dispatch")
  \/ writeData \/ finish \/ receiveNextMessages
  \/ cancel \/ FinishWriter("dispatch")
  \/ WriteResponse \/ Complete \/ Forward \/ ForwardClose

-----------------------------------------------------------------------------
(* The request pipe's queue, with GRPCCall as its writeable.               *)

PassTo(b) ==
  /\ callQueue' = IF passed' = passed THEN callQueue ELSE Append(callQueue, b)
  /\ UNCHANGED <<scenario, user, manager, internal, grpcCall, writeable, core,
                 dispatchQueue, thread, heard>>

(* Variant, a fault: the pipe runs on while the core sends.                *)
writeValueUnpaused == RunValue(FALSE) /\ PassTo(Block("send", Head(block)))

(* writeValue: pauses the pipe until the core has sent the message.        *)
writeValue ==
  IF grpcCall.state = "Finished"
    THEN RunValue(FALSE) /\ UNCHANGED callVars
    ELSE RunValue(TRUE) /\ PassTo(Block("send", Head(block)))

writesFinishedWithError == PassFinished /\ PassTo(Block("sendClose", EOS))

PipeQueue ==
  \/ BeginBlock /\ UNCHANGED callVars
  \/ writeValue
  \/ CheckFinished /\ UNCHANGED callVars
  \/ writesFinishedWithError

-----------------------------------------------------------------------------
(* The callQueue: startBatchWithOperations:, a no-op without a grpc_call.  *)

startBatch(b) ==
  CASE b.do = "recvMetadata" -> [core EXCEPT !.metadata = "out"]
    [] b.do = "recvStatus" -> [core EXCEPT !.status = "out"]
    [] b.do = "read" -> [core EXCEPT !.receive = @ + 1]
    [] b.do = "send" -> [core EXCEPT !.send = @ + 1,
                                     !.sent = Append(@, b.arg)]
    [] OTHER -> [core EXCEPT !.sent = Append(@, b.arg)]

CallQueue ==
  /\ callQueue # << >>
  /\ callQueue' = Tail(callQueue)
  /\ core' = IF core.connected THEN startBatch(Head(callQueue)) ELSE core
  /\ UNCHANGED <<pipeVars, scenario, user, manager, internal, grpcCall,
                 writeable, dispatchQueue, thread, heard>>

-----------------------------------------------------------------------------
(* The completion queue's loop takes the end of a batch from the queue and *)
(* runs the handlers of its operations.  It does not if the batch failed,  *)
(* and a RECV_MESSAGE that found the end of the stream does nothing: either*)
(* is a batch that does not end.  A batch may have ended, and wait on the  *)
(* queue, before a cancel or a disconnection: its handlers run after it.   *)

Over == core.broken \/ core.status \in {"ok", "error"}

MetadataDone ==
  /\ thread.network = "idle" /\ core.metadata = "out"
  /\ core' = [core EXCEPT !.metadata = "done"]
  /\ maybeStartNextRead([grpcCall EXCEPT !.headers = TRUE,
                                         !.pendingCoreRead = FALSE])
  /\ UNCHANGED <<pipeVars, scenario, user, manager, internal, writeable,
                 dispatchQueue, thread, heard>>

(* Variant, a fault: the request pipe is not resumed.                      *)
SendDoneUnresumed ==
  /\ thread.network = "idle" /\ core.send > 0
  /\ core' = [core EXCEPT !.send = @ - 1]
  /\ UNCHANGED pipeVars
  /\ dispatchQueue' = Append(dispatchQueue, Block("didWrite", 0))
  /\ UNCHANGED <<scenario, user, manager, internal, grpcCall, writeable,
                 callQueue, thread, heard>>

(* The handler of a SEND_MESSAGE resumes the request pipe and issues a     *)
(* didWriteData.                                                           *)
SendDone ==
  /\ thread.network = "idle" /\ core.send > 0
  /\ core' = [core EXCEPT !.send = @ - 1]
  /\ SetState("Started")
  /\ dispatchQueue' = Append(dispatchQueue, Block("didWrite", 0))
  /\ UNCHANGED <<scenario, user, manager, internal, grpcCall, writeable,
                 callQueue, thread, heard>>

(* A message.  It may come after a cancel, a disconnection or the status of*)
(* a failed RPC; the core ends a stream with the status OK only when every *)
(* message of it has been read.                                            *)
MessageCanArrive ==
  thread.network = "idle" /\ core.receive > 0 /\ core.status # "ok"

MessageDone ==
  /\ MessageCanArrive /\ core.received < MaxReplies
  /\ core' = [core EXCEPT !.receive = @ - 1, !.received = @ + 1]
  /\ dispatchQueue' = Append(dispatchQueue, Block("value", core.received + 1))
  /\ UNCHANGED <<pipeVars, scenario, user, manager, internal, grpcCall,
                 writeable, callQueue, thread, heard>>

(* A message there is no memory for finishes and cancels the call.         *)
MessageTooLarge ==
  /\ MessageCanArrive
  /\ finishWithError([grpcCall EXCEPT !.pendingCoreRead = FALSE], writeable,
                     "error", dispatchQueue)
  /\ core' = [core EXCEPT !.receive = @ - 1, !.broken = @ \/ core.connected]
  /\ thread' = [thread EXCEPT !.network = "finishWriter"]
  /\ UNCHANGED <<pipeVars, scenario, user, manager, internal, callQueue,
                 heard>>

(* The completionHandler of invokeCall.                                    *)
StatusDone(status) ==
  /\ thread.network = "idle" /\ core.status = "out"
  /\ core' = [core EXCEPT !.status = status]
  /\ finishWithError(grpcCall, writeable, status, dispatchQueue)
  /\ thread' = [thread EXCEPT !.network = "finishWriter"]
  /\ UNCHANGED <<pipeVars, scenario, user, manager, internal, callQueue,
                 heard>>

(* channelDisconnected: the pool takes the grpc_call away.                 *)
channelDisconnected ==
  /\ core.connected
  /\ core' = [core EXCEPT !.connected = FALSE, !.broken = TRUE]
  /\ UNCHANGED <<pipeVars, scenario, user, manager, internal, grpcCall,
                 writeable, dispatchQueue, callQueue, thread, heard>>

Network ==
  \/ MetadataDone
  \/ SendDone
  \/ MessageDone \/ MessageTooLarge
  \/ \E status \in {"ok", "error"} : StatusDone(status)
  \/ FinishWriter("network")

CallNext ==
  \/ User
  \/ Dispatch
  \/ TokenArrives \/ StartWriter("token")
  \/ PipeQueue
  \/ CallQueue
  \/ Network
  \/ channelDisconnected

(* Every queue runs what is on it and every thread goes on.  The core ends *)
(* each batch of an RPC that is over, and sends while it is not; it need   *)
(* not receive anything.  User, token provider and faults owe nothing.     *)
CallFairness ==
  /\ WF_vars(Dispatch)
  /\ WF_vars(StartWriter("token"))
  /\ WF_vars(PipeQueue)
  /\ WF_vars(CallQueue)
  /\ WF_vars(FinishWriter("network"))
  /\ WF_vars(~Over /\ SendDone)
  /\ WF_vars(core.broken /\ \E status \in {"ok", "error"} : StatusDone(status))

CallSpec == CallInit /\ [][CallNext]_vars /\ CallFairness

-----------------------------------------------------------------------------
Managers   == [previous : BOOLEAN, transport : BOOLEAN]
Internals  == [started : BOOLEAN, canceled : BOOLEAN, finished : BOOLEAN,
               call : BOOLEAN, pipe : BOOLEAN, published : BOOLEAN,
               pendingReceive : 0..(NSUIntegerSize - 1)]
GrpcCalls  == [state : WriterStates \ {"Paused"}, pendingCoreRead : BOOLEAN,
               pendingReceive : 0..(NSUIntegerSize - 1), headers : BOOLEAN]
Writeables == [made : BOOLEAN, cancelled : BOOLEAN, finished : BOOLEAN]
Cores      == [connected : BOOLEAN, broken : BOOLEAN,
               metadata : {"none", "out", "done"},
               status : {"none", "out", "ok", "error"},
               send : Nat, receive : Nat,
               sent : Seq(Blocks), received : 0..MaxReplies]
Threads    == [dispatch : {"idle", "startWriter", "finishWriter"},
               network : {"idle", "finishWriter"},
               token : {"idle", "asked", "startWriter"}]

CallTypeOK ==
  /\ PipeTypeOK
  /\ scenario \in Scenarios
  /\ user \in [asked : 0..Len(scenario.script), cancel : BOOLEAN]
  /\ manager \in Managers
  /\ internal \in Internals
  /\ grpcCall \in GrpcCalls
  /\ writeable \in Writeables
  /\ core \in Cores
  /\ thread \in Threads

(* The comment on GRPCCall's batches: at most one SEND_MESSAGE and one     *)
(* RECV_MESSAGE is in the core at a time, the close is sent when nothing   *)
(* else is, and as long as the RPC is not over the core has been given the *)
(* requests in the order in which they were written, with none left out.   *)
BatchesInOrder ==
  /\ core.send <= 1 /\ core.receive <= 1
  /\ ~Over => IsStartOf(core.sent, written)
  /\ ~Over /\ core.send > 0 => EOS \notin Range(core.sent)

(* GRPCCall2Internal and GRPCCall use the request pipe as it expects: it   *)
(* is started once, and nothing is written to it after its end.            *)
PipeContract == PipeInit /\ [][PipeNext]_pipeVars

(* The handler in front of the transport hears what ResponseContract says, *)
(* in whatever order batches, cancellation, failures and the token come.   *)
(* It is an interceptor or GRPCStreamingProtoCall, which has every method. *)
Methods == {"metadata", "data", "didWrite", "close"}

Contract == INSTANCE ResponseContract
              WITH methods <- Methods, received <- core.received

HandlerContract == Contract!ContractSpec

(* A call that is cancelled, that has finished, or whose RPC is over with  *)
(* its status batch in the core, gives its handler a close.                *)
CallCloses ==
  \/ user.cancel
  \/ grpcCall.state = "Finished"
  \/ core.broken /\ core.status = "out"
  ~> ~manager.previous

(* GRPCCallOptions.h, of flowControlEnabled: "receiveNextMessage: must be  *)
(* called each time before gRPC call issues a didReceiveMessage callback". *)
(* With flow control no read is started that the user has not asked for,   *)
(* however calls before the start, late answers and ends come about.       *)
ReadsAreAskedFor ==
  LET Asks == {i \in 1..user.asked : scenario.script[i].do = "receive"}
      Asked == SumFunction([i \in Asks |-> scenario.script[i].arg])
  IN  scenario.flowControl => core.received + core.receive <= Asked

(* The pausing of the request pipe never wedges: what was written to a     *)
(* call that has been started goes to the core, or the RPC is over.        *)
WritesGoOut ==
  LET GoneOut == Range(written) \ {EOS} \subseteq Range(core.sent)
  IN  core.connected /\ ~GoneOut ~> GoneOut \/ Over

(* completionHandler in GRPCCall2Internal: "Clean up the request writers". *)
(* After the close the request pipe lets go of its writeable, the GRPCCall.*)
WriterIsCleanedUp == ~manager.previous ~> ~pipeWriteable

-----------------------------------------------------------------------------
(* What keeps PipeContract: whoever holds the pipe has not ended it, and   *)
(* the writes that wait on the dispatchQueue are of values.                *)
DispatchBlocks ==
  UserBlocks
    \union [do : {"value", "data"}, arg : Nat]
    \union [do : {"cancel", "metadata", "didWrite"}, arg : {0}]
    \union [do : {"complete", "close"}, status : {"ok", "error", "cancelled"}]

CallInv ==
  /\ scenario \in Scenarios
  /\ "asked" \in DOMAIN user /\ user.asked \in Nat
  /\ written \in Seq(Blocks)
  /\ dispatchQueue \in Seq(DispatchBlocks)
  /\ "received" \in DOMAIN core /\ core.received \in Nat
  /\ "pipe" \in DOMAIN internal
  /\ internal.pipe => EOS \notin Range(written)

=============================================================================
