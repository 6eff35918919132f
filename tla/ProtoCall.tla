----------------------------- MODULE ProtoCall ------------------------------
(***************************************************************************)
(* A protobuf call of the Objective-C client above its transport:          *)
(* GRPCStreamingProtoCall (and GRPCUnaryProtoCall, which drives one), the  *)
(* GRPCCall2 under it with its GRPCResponseDispatcher, and the chain of    *)
(* interceptors.  Stage 0 is the dispatcher, stages 1..N are interceptor   *)
(* managers with the default GRPCInterceptor, and stage N + 1 is the       *)
(* transport manager.  Every stage has a serial queue of its own: commands *)
(* go down the chain and events up, each by a dispatch_async.              *)
(*                                                                         *)
(* The transport is what GrpcCall is shown to be: an implementation of     *)
(* ResponseContract.                                                       *)
(***************************************************************************)
EXTENDS Naturals, Sequences

CONSTANTS
  N,             \* interceptors
  Scripts,       \* orders of the user's calls; cancel may come anywhere
  Handlers,      \* the users' handlers: each the set of methods that it has
  MaxMessages    \* bound: the messages the server sends

(* GRPCProtoResponseHandler: the methods are optional.                     *)
Methods == {"metadata", "data", "didWrite", "close"}

ASSUME ChainAssumption ==
  /\ N \in Nat
  /\ MaxMessages \in Nat
  /\ Scripts \subseteq Seq({"start", "write", "finish", "receive"})
  /\ Handlers \subseteq SUBSET Methods

VARIABLES
  user,        \* the user: the script, the methods of the handler, how far
               \* the script is, whether the user cancelled
  protoCall,   \* _call and _handler of GRPCStreamingProtoCall are not nil
  protoQueue,  \* its _dispatchQueue
  queue,       \* the stages' queues
  shutDown,    \* the managers' _shutDown (no _thisInterceptor, no _transport)
  transport,   \* what the transport has been told and has done
  heard        \* history: the callbacks to the GRPCProtoResponseHandler

vars == <<user, protoCall, protoQueue, queue, shutDown, transport, heard>>

Transport == N + 1
Stages == 0..Transport
Managers == 1..Transport

Commands == {"start", "write", "finish", "receive", "cancel"}

Command(c) == [command |-> c]
Event(what, arg) == [event |-> what, arg |-> arg]
Close(status) == [event |-> "close", status |-> status]

IsCommand(b) == "command" \in DOMAIN b
IsClose(b) == b = Close("ok") \/ b = Close("error") \/ b = Close("cancelled")

ProtoInit ==
  /\ user \in [script : Scripts, methods : Handlers, asked : {0}, cancel : {FALSE}]
  /\ protoCall = [call |-> TRUE, handler |-> TRUE]
  /\ protoQueue = << >>
  /\ queue = [i \in Stages |-> << >>]
  /\ shutDown = [i \in Managers |-> FALSE]
  /\ transport = [started |-> FALSE, metadata |-> FALSE, writes |-> 0,
                  received |-> 0]
  /\ heard = << >>

-----------------------------------------------------------------------------
(* GRPCStreamingProtoCall and GRPCCall2, called by the user.               *)

Tell(c) == IF protoCall.call THEN [queue EXCEPT ![1] = Append(@, Command(c))]
                             ELSE queue

(* start, writeMessage:, receiveNextMessages: and finish pass the call on  *)
(* to GRPCCall2; finish also lets go of it.                                *)
UserCalls ==
  LET i == user.asked + 1 IN
    /\ i <= Len(user.script)
    /\ user' = [user EXCEPT !.asked = i]
    /\ queue' = Tell(user.script[i])
    /\ protoCall' = [protoCall EXCEPT
                       !.call = @ /\ user.script[i] # "finish"]
    /\ UNCHANGED <<protoQueue, shutDown, transport, heard>>

(* [_handler respondsToSelector:], of the method for what.                 *)
Responds(what) == protoCall.handler /\ what \in user.methods

(* cancel enqueues a close for the handler, or lets go of one that cannot  *)
(* hear it, and cancels the GRPCCall2, if it still has both.               *)
UserCancels ==
  /\ ~user.cancel
  /\ user' = [user EXCEPT !.cancel = TRUE]
  /\ protoCall' = [call |-> FALSE, handler |-> Responds("close")]
  /\ protoQueue' = IF Responds("close")
                     THEN Append(protoQueue, Close("cancelled"))
                     ELSE protoQueue
  /\ queue' = Tell("cancel")
  /\ UNCHANGED <<shutDown, transport, heard>>

-----------------------------------------------------------------------------
(* GRPCInterceptorManager with the default GRPCInterceptor.                *)

(* What stage i enqueues when it is not shut down: a command to the next   *)
(* stage, which it makes if need be, an event to the previous one, and for *)
(* a cancel both, with a close of its own.                                 *)
Passes(i, b) ==
  LET down == [queue EXCEPT ![i] = Tail(@), ![i + 1] = Append(@, b)]
      up(e) == [queue EXCEPT ![i] = Tail(@), ![i - 1] = Append(@, e)]
  IN  IF b = Command("cancel")
        THEN [up(Close("cancelled")) EXCEPT ![i + 1] = Append(@, b)]
        ELSE IF IsCommand(b) THEN down ELSE up(b)

(* Variant, a fault: a cancel shuts the manager down before it is passed.  *)
InterceptShutDown(i) ==
  LET b == Head(queue[i]) IN
    /\ queue[i] # << >>
    /\ queue' = IF shutDown[i] \/ b = Command("cancel")
                  THEN [queue EXCEPT ![i] = Tail(@)] ELSE Passes(i, b)
    /\ shutDown' = [shutDown EXCEPT
                      ![i] = @ \/ b = Command("cancel") \/ IsClose(b)]
    /\ UNCHANGED <<user, protoCall, protoQueue, transport, heard>>

(* A cancel or a close shuts the manager down, after it is passed on.      *)
Intercept(i) ==
  LET b == Head(queue[i]) IN
    /\ queue[i] # << >>
    /\ queue' = IF shutDown[i] THEN [queue EXCEPT ![i] = Tail(@)]
                               ELSE Passes(i, b)
    /\ shutDown' = [shutDown EXCEPT
                      ![i] = @ \/ b = Command("cancel") \/ IsClose(b)]
    /\ UNCHANGED <<user, protoCall, protoQueue, transport, heard>>

-----------------------------------------------------------------------------
(* The dispatcher, which calls GRPCStreamingProtoCall as its response      *)
(* handler.                                                                *)

(* A message that does not parse closes the call and cancels it, unless    *)
(* the handler cannot hear the close: then it is dropped.                  *)
didReceiveUnparsable ==
  /\ IF Responds("close")
       THEN /\ protoQueue' = Append(protoQueue, Close("error"))
            /\ queue' = [Tell("cancel") EXCEPT ![0] = Tail(@)]
            /\ protoCall' = [protoCall EXCEPT !.call = FALSE]
       ELSE /\ queue' = [queue EXCEPT ![0] = Tail(@)]
            /\ UNCHANGED <<protoCall, protoQueue>>

didReceive(e) ==
  /\ protoQueue' = IF Responds(e.event) THEN Append(protoQueue, e)
                                        ELSE protoQueue
  /\ protoCall' = [protoCall EXCEPT !.call = @ /\ ~IsClose(e)]
  /\ queue' = [queue EXCEPT ![0] = Tail(@)]

Dispatch ==
  LET e == Head(queue[0]) IN
    /\ queue[0] # << >>
    /\ IF e = Event("unparsable", 0) THEN didReceiveUnparsable
                                     ELSE didReceive(e)
    /\ UNCHANGED <<user, shutDown, transport, heard>>

(* Variant, a fault: the handler is kept when it has heard the close.      *)
CallBackAgain ==
  LET e == Head(protoQueue) IN
    /\ protoQueue # << >>
    /\ protoQueue' = Tail(protoQueue)
    /\ heard' = IF protoCall.handler THEN Append(heard, e) ELSE heard
    /\ UNCHANGED <<user, protoCall, queue, shutDown, transport>>

(* A block of the _dispatchQueue: the handler, if there still is one.  It  *)
(* is let go of before it hears the close.                                 *)
CallBack ==
  LET e == Head(protoQueue) IN
    /\ protoQueue # << >>
    /\ protoQueue' = Tail(protoQueue)
    /\ heard' = IF protoCall.handler THEN Append(heard, e) ELSE heard
    /\ protoCall' = [protoCall EXCEPT !.handler = @ /\ ~IsClose(e)]
    /\ UNCHANGED <<user, queue, shutDown, transport>>

-----------------------------------------------------------------------------
(* The transport and its manager.                                          *)

(* Commands have no effect once the manager is shut down.                  *)
TransportRuns ==
  LET b == Head(queue[Transport])
      rest == [queue EXCEPT ![Transport] = Tail(@)]
      obeys(c) == b = Command(c) /\ ~shutDown[Transport]
  IN  /\ queue[Transport] # << >>
      /\ queue' = IF obeys("cancel")
                    THEN [rest EXCEPT ![N] = Append(@, Close("cancelled"))]
                    ELSE rest
      /\ shutDown' = [shutDown EXCEPT ![Transport] = @ \/ obeys("cancel")]
      /\ transport' = [transport EXCEPT
           !.started = @ \/ obeys("start"),
           !.writes = IF obeys("write") THEN @ + 1 ELSE @]
      /\ UNCHANGED <<user, protoCall, protoQueue, heard>>

Emit(e, t) ==
  /\ transport.started /\ ~shutDown[Transport]
  /\ queue' = [queue EXCEPT ![N] = Append(@, e)]
  /\ transport' = t
  /\ UNCHANGED <<user, protoCall, protoQueue, heard>>

TransportMetadata ==
  /\ ~transport.metadata
  /\ Emit(Event("metadata", 0), [transport EXCEPT !.metadata = TRUE])
  /\ UNCHANGED shutDown

(* The next message parses, or does not.                                   *)
TransportData ==
  /\ transport.metadata /\ transport.received < MaxMessages
  /\ \E e \in {Event("data", transport.received + 1), Event("unparsable", 0)} :
       Emit(e, [transport EXCEPT !.received = @ + 1])
  /\ UNCHANGED shutDown

TransportWrote ==
  /\ transport.writes > 0
  /\ Emit(Event("didWrite", 0), [transport EXCEPT !.writes = @ - 1])
  /\ UNCHANGED shutDown

TransportCloses(status) ==
  /\ Emit(Close(status), transport)
  /\ shutDown' = [shutDown EXCEPT ![Transport] = TRUE]

-----------------------------------------------------------------------------
ProtoNext ==
  \/ UserCalls
  \/ UserCancels
  \/ \E i \in 1..N : Intercept(i)
  \/ Dispatch
  \/ CallBack
  \/ TransportRuns
  \/ TransportMetadata
  \/ TransportData
  \/ TransportWrote
  \/ \E status \in {"ok", "error"} : TransportCloses(status)

(* Every queue runs.  Neither the user nor the server need do anything.    *)
ProtoFairness ==
  /\ \A i \in 1..N : WF_vars(Intercept(i))
  /\ WF_vars(Dispatch)
  /\ WF_vars(CallBack)
  /\ WF_vars(TransportRuns)

ProtoSpec == ProtoInit /\ [][ProtoNext]_vars /\ ProtoFairness

-----------------------------------------------------------------------------
Contract == INSTANCE ResponseContract
              WITH methods <- user.methods, received <- transport.received

(* ProtoRPC.h: the GRPCProtoResponseHandler hears what ResponseContract    *)
(* says, whichever of the optional methods it has and wherever a cancel, a *)
(* message that does not parse and the close of the transport meet on the  *)
(* way through the queues.                                                 *)
ProtoContract == Contract!ContractSpec

(* One stage that shuts down takes all the others down, and this, like a   *)
(* cancel, ends with a close for a handler that has the method for it.     *)
ChainEnds ==
  LET Down == \E i \in Managers : shutDown[i]
  IN  /\ Down ~> \A i \in Managers : shutDown[i]
      /\ (Down \/ user.cancel) /\ "close" \in user.methods ~> Contract!Closed

(* ProtoRPC.h, of cancel: "It attempts to notify the server that the RPC   *)
(* should be cancelled".  The transport of a cancelled call is shut down.  *)
CancelReachesTransport == user.cancel ~> shutDown[Transport]

=============================================================================
