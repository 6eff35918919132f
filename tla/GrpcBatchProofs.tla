-------------------------- MODULE GrpcBatchProofs ---------------------------
(***************************************************************************)
(* The batches of a call, for every scenario: the state of all its parts   *)
(* has its type, gRPC Core is given the requests in order and has at most  *)
(* one SEND_MESSAGE and one RECV_MESSAGE at a time.                        *)
(***************************************************************************)
EXTENDS GrpcCallProofs

CallBlocks ==
  [do : {"recvMetadata", "recvStatus", "read"}, arg : Nat]
    \union [do : {"send"}, arg : Values]
    \union [do : {"sendClose"}, arg : {EOS}]

Requests == {"send", "sendClose"}

(* The types of what is not the pipe; CallInv types the dispatchQueue.     *)
PartTypes ==
  /\ scenario \in Scenarios
  /\ user \in [asked : 0..Len(scenario.script), cancel : BOOLEAN]
  /\ manager \in Managers
  /\ internal \in Internals
  /\ grpcCall \in GrpcCalls
  /\ writeable \in Writeables
  /\ core \in Cores
  /\ thread \in Threads
  /\ callQueue \in Seq(CallBlocks)

TypeInv == CallInv /\ PipeInv /\ PartTypes

-----------------------------------------------------------------------------
(* Types.                                                                  *)
LEMMA CallBlockTypes ==
  /\ Block("recvMetadata", 0) \in CallBlocks /\ Block("recvStatus", 0) \in CallBlocks
  /\ Block("read", 0) \in CallBlocks
  /\ \A x \in Values : Block("send", x) \in CallBlocks
  /\ Block("sendClose", EOS) \in CallBlocks
BY DEF Block, CallBlocks

(* The two batches of invokeCall, one behind the other.                    *)
LEMMA InvokeIsAppend ==
  ASSUME NEW q \in Seq(CallBlocks)
  PROVE  q \o <<Block("recvMetadata", 0), Block("recvStatus", 0)>>
           = Append(Append(q, Block("recvMetadata", 0)), Block("recvStatus", 0))
<1> DEFINE a == Block("recvMetadata", 0)
           b == Block("recvStatus", 0)
<1>1. a \in CallBlocks /\ b \in CallBlocks
  BY CallBlockTypes
<1> HIDE DEF a, b
<1>2. q \o <<a, b>> = Append(Append(q, a), b)
  BY <1>1
<1> QED
  BY <1>2 DEF a, b

(* unsigned arithmetic stays in its range                                  *)
LEMMA UnsignedRange ==
  ASSUME NEW n \in Int
  PROVE  n % NSUIntegerSize \in 0..(NSUIntegerSize - 1)
BY ScenariosAssumption

LEMMA ReadTypes ==
  ASSUME NEW g \in GrpcCalls, callQueue \in Seq(CallBlocks), maybeStartNextRead(g)
  PROVE  grpcCall' \in GrpcCalls /\ callQueue' \in Seq(CallBlocks)
<1>1. (g.pendingReceive - 1) % NSUIntegerSize \in 0..(NSUIntegerSize - 1)
  <2>1. g.pendingReceive - 1 \in Int
    BY ScenariosAssumption DEF GrpcCalls
  <2> QED
    BY <2>1, UnsignedRange, Zenon
<1>2. CASE MayRead(g)
  <2>1. grpcCall' = [g EXCEPT !.pendingCoreRead = TRUE,
                       !.pendingReceive = (g.pendingReceive - 1) % NSUIntegerSize]
    BY <1>2 DEF maybeStartNextRead
  <2>2. grpcCall' \in GrpcCalls
    BY <1>1, <2>1, Zenon DEF GrpcCalls
  <2>3. callQueue' \in Seq(CallBlocks)
    BY <1>2, CallBlockTypes DEF maybeStartNextRead
  <2> QED
    BY <2>2, <2>3
<1>3. CASE ~MayRead(g)
  BY <1>3 DEF maybeStartNextRead
<1> QED
  BY <1>2, <1>3

LEMMA FinishedTypes ==
  ASSUME NEW g \in GrpcCalls, NEW w \in Writeables, NEW status, NEW q,
         finishWithError(g, w, status, q)
  PROVE  grpcCall' \in GrpcCalls /\ writeable' \in Writeables
<1>1. grpcCall' \in GrpcCalls
  BY DEF finishWithError, GrpcCalls, WriterStates
<1>2. writeable' \in Writeables
  <2>1. (w.cancelled \/ status # "ok") \in BOOLEAN
    OBVIOUS
  <2>2. [w EXCEPT !.cancelled = w.cancelled \/ status # "ok"] \in Writeables
    BY <2>1, Zenon DEF Writeables
  <2> QED
    BY <2>2 DEF finishWithError
<1> QED
  BY <1>1, <1>2

LEMMA StartedTypes ==
  ASSUME PartTypes, NEW g \in GrpcCalls, NEW q, NEW who \in {"dispatch", "token"},
         startCallWithWriteable(g, q, who)
  PROVE  /\ grpcCall' \in GrpcCalls /\ writeable' \in Writeables
         /\ core' \in Cores /\ thread' \in Threads
         /\ callQueue' \in Seq(CallBlocks)
<1> DEFINE w == [writeable EXCEPT !.made = TRUE]
<1>1. w \in Writeables
  BY Zenon DEF PartTypes, Writeables
<1>2. thread' \in Threads
  BY DEF startCallWithWriteable, PartTypes, Threads
<1>3. [core EXCEPT !.connected = TRUE] \in Cores
  BY Zenon DEF PartTypes, Cores
<1> HIDE DEF w
<1>4. CASE finishWithError(g, w, "error", q) /\ UNCHANGED <<core, callQueue>>
  BY <1>1, <1>2, <1>4, FinishedTypes DEF PartTypes
<1>5. CASE /\ grpcCall' = g /\ writeable' = w
           /\ core' = [core EXCEPT !.connected = TRUE]
           /\ callQueue' = callQueue \o <<Block("recvMetadata", 0), Block("recvStatus", 0)>>
  <2>1. callQueue' \in Seq(CallBlocks)
    BY <1>5, CallBlockTypes, InvokeIsAppend DEF PartTypes
  <2> QED
    BY <1>1, <1>2, <1>3, <1>5, <2>1 DEF PartTypes
<1> QED
  BY <1>4, <1>5 DEF startCallWithWriteable, w

LEMMA UserPartTypes ==
  ASSUME TypeInv, User
  PROVE  PartTypes'
<1>1. UNCHANGED <<scenario, manager, internal, grpcCall, writeable, core, callQueue, thread>>
  BY DEF User, UserCalls, UserCancels, UserAsks
<1>2. user' \in [asked : 0..Len(scenario.script), cancel : BOOLEAN]
  <2>1. Len(scenario.script) \in Nat
    BY ScenariosAssumption DEF TypeInv, PartTypes
  <2>2. CASE UserCalls
    BY <2>1, <2>2 DEF UserCalls, UserAsks, TypeInv, PartTypes
  <2>3. CASE UserCancels
    BY <2>1, <2>3, Zenon DEF UserCancels, UserAsks, TypeInv, PartTypes
  <2> QED
    BY <2>2, <2>3 DEF User
<1> QED
  BY <1>1, <1>2 DEF TypeInv, PartTypes

LEMMA CommandPartTypes ==
  ASSUME TypeInv, \/ DropCommand \/ writeData \/ finish \/ receiveNextMessages
                  \/ cancel \/ Forward \/ ForwardClose
  PROVE  PartTypes'
<1>0. PartTypes
  BY DEF TypeInv
<1>1. CASE DropCommand \/ writeData \/ Forward
  BY <1>0, <1>1 DEF DropCommand, writeData, Forward, PartTypes
<1>2. CASE ForwardClose
  BY <1>0, <1>2 DEF ForwardClose, PartTypes, Managers
<1>3. CASE finish
  <2>1. internal' \in Internals
    BY <1>0, <1>3, Zenon DEF finish, PartTypes, Internals
  <2> QED
    BY <1>0, <1>3, <2>1 DEF finish, PartTypes
<1>4. CASE receiveNextMessages
  <2> DEFINE n == Head(dispatchQueue).arg
             g == [grpcCall EXCEPT
                     !.pendingReceive = (grpcCall.pendingReceive + n) % NSUIntegerSize]
  <2>1. n \in Nat
    <3>1. Head(dispatchQueue) \in DispatchBlocks /\ Head(dispatchQueue).do = "receive"
      BY <1>4, FrontTypes DEF receiveNextMessages, TypeInv
    <3> QED
      BY <3>1 DEF DispatchBlocks, UserBlocks
  <2> HIDE DEF n
  <2>2. /\ (grpcCall.pendingReceive + n) % NSUIntegerSize \in 0..(NSUIntegerSize - 1)
        /\ (internal.pendingReceive + n) % NSUIntegerSize \in 0..(NSUIntegerSize - 1)
    <3>1. grpcCall.pendingReceive + n \in Int /\ internal.pendingReceive + n \in Int
      BY <1>0, <2>1, ScenariosAssumption DEF PartTypes, GrpcCalls, Internals
    <3> QED
      BY <3>1, UnsignedRange
  <2>3. g \in GrpcCalls
    BY <1>0, <2>2 DEF PartTypes, GrpcCalls
  <2>4. internal' \in Internals
    BY <1>0, <1>4, <2>2 DEF receiveNextMessages, PartTypes, Internals, n
  <2>5. \/ UNCHANGED <<grpcCall, callQueue>>
        \/ grpcCall' = g /\ UNCHANGED callQueue
        \/ maybeStartNextRead(g)
    BY <1>4 DEF receiveNextMessages, n
  <2> HIDE DEF g
  <2>6. grpcCall' \in GrpcCalls /\ callQueue' \in Seq(CallBlocks)
    BY <1>0, <2>3, <2>5, ReadTypes DEF PartTypes
  <2> QED
    BY <1>0, <1>4, <2>4, <2>6 DEF receiveNextMessages, PartTypes
<1>5. CASE cancel
  <2>1. internal' \in Internals
    BY <1>0, <1>5, Zenon DEF cancel, PartTypes, Internals
  <2>2. manager' \in Managers /\ UNCHANGED <<scenario, user, callQueue>>
    BY <1>5 DEF cancel, Managers
  <2>3. core' \in Cores
    BY <1>0, <1>5, ZenonT(30) DEF cancel, CancelWrappedCall, PartTypes, Cores
  <2>4. thread' \in Threads
    BY <1>0, <1>5 DEF cancel, PartTypes, Threads
  <2>5. grpcCall' \in GrpcCalls /\ writeable' \in Writeables
    BY <1>0, <1>5, FinishedTypes DEF cancel, PartTypes
  <2> QED
    BY <1>0, <2>1, <2>2, <2>3, <2>4, <2>5 DEF PartTypes
<1> QED
  BY <1>1, <1>2, <1>3, <1>4, <1>5

LEMMA StartPartTypes ==
  ASSUME TypeInv, NEW who \in {"dispatch", "token", "network"},
         Start \/ TokenArrives \/ StartWriter(who) \/ FinishWriter(who)
  PROVE  PartTypes'
<1>0. PartTypes
  BY DEF TypeInv
<1>1. CASE StartWriter(who) \/ FinishWriter(who)
  <2>1. thread' \in Threads
    BY <1>0, <1>1 DEF StartWriter, FinishWriter, PartTypes, Threads
  <2> QED
    BY <1>0, <1>1, <2>1 DEF StartWriter, FinishWriter, PartTypes
<1>2. CASE TokenArrives
  <2>1. CASE startCallWithWriteable(grpcCall, dispatchQueue, "token")
    BY <1>0, <1>2, <2>1, StartedTypes DEF TokenArrives, PartTypes
  <2>2. CASE /\ thread' = [thread EXCEPT !.token = "idle"]
             /\ UNCHANGED <<grpcCall, writeable, core, callQueue>>
    <3>1. thread' \in Threads
      BY <1>0, <2>2 DEF PartTypes, Threads
    <3> QED
      BY <1>0, <1>2, <2>2, <3>1 DEF TokenArrives, PartTypes
  <2> QED
    BY <1>2, <2>1, <2>2 DEF TokenArrives
<1>3. CASE Start
  <2> DEFINE g == [grpcCall EXCEPT !.state = "Started",
                                   !.pendingReceive = internal.pendingReceive]
  <2>1. internal' \in Internals
    <3>1. 0 \in 0..(NSUIntegerSize - 1)
      BY ScenariosAssumption
    <3> QED
      BY <1>0, <1>3, <3>1, Zenon DEF Start, PartTypes, Internals
  <2>2. g \in GrpcCalls
    BY <1>0, Zenon DEF PartTypes, GrpcCalls, Internals, WriterStates
  <2>3. \/ startCallWithWriteable(g, Rest, "dispatch")
        \/ /\ grpcCall' = g /\ thread' = [thread EXCEPT !.token = "asked"]
           /\ UNCHANGED <<writeable, core, callQueue>>
    BY <1>3 DEF Start
  <2>4. UNCHANGED <<scenario, user, manager>>
    BY <1>3 DEF Start
  <2> HIDE DEF g
  <2>5. CASE startCallWithWriteable(g, Rest, "dispatch")
    BY <1>0, <2>1, <2>2, <2>4, <2>5, StartedTypes DEF PartTypes
  <2>6. CASE /\ grpcCall' = g /\ thread' = [thread EXCEPT !.token = "asked"]
             /\ UNCHANGED <<writeable, core, callQueue>>
    <3>1. thread' \in Threads
      BY <1>0, <2>6 DEF PartTypes, Threads
    <3> QED
      BY <1>0, <2>1, <2>2, <2>4, <2>6, <3>1 DEF PartTypes
  <2> QED
    BY <2>3, <2>5, <2>6
<1> QED
  BY <1>1, <1>2, <1>3

LEMMA ResponsePartTypes ==
  ASSUME TypeInv, WriteResponse \/ Complete
  PROVE  PartTypes'
<1>0. PartTypes
  BY DEF TypeInv
<1>1. CASE WriteResponse
  <2> DEFINE g == [grpcCall EXCEPT !.pendingCoreRead = FALSE]
  <2>1. g \in GrpcCalls
    BY <1>0, Zenon DEF PartTypes, GrpcCalls
  <2>2. internal' \in Internals
    BY <1>0, <1>1, ZenonT(30) DEF WriteResponse, PartTypes, Internals
  <2>3. UNCHANGED <<grpcCall, callQueue>> \/ maybeStartNextRead(g)
    BY <1>1 DEF WriteResponse
  <2> HIDE DEF g
  <2>4. grpcCall' \in GrpcCalls /\ callQueue' \in Seq(CallBlocks)
    BY <1>0, <2>1, <2>3, ReadTypes DEF PartTypes
  <2> QED
    BY <1>0, <1>1, <2>2, <2>4 DEF WriteResponse, PartTypes
<1>2. CASE Complete
  <2>1. writeable' \in Writeables
    BY <1>0, <1>2, Zenon DEF Complete, PartTypes, Writeables
  <2>2. internal' \in Internals
    BY <1>0, <1>2, ZenonT(30) DEF Complete, PartTypes, Internals
  <2> QED
    BY <1>0, <1>2, <2>1, <2>2 DEF Complete, PartTypes
<1> QED
  BY <1>1, <1>2

(* The pipe runs one block at a time.                                      *)
LEMMA OneBlock ==
  ASSUME TypeInv, block # << >>
  PROVE  block = <<Head(block)>> /\ Head(block) \in Blocks
<1>1. block \in Seq(Blocks) /\ Len(block) <= 1
  BY DEF TypeInv, PipeInv, PipeTypeOK
<1>2. Len(block) \in Nat /\ Len(block) # 0
  BY <1>1, EmptySeq, LenProperties
<1>3. Len(block) = 1
  <2>1. \A n \in Nat : n # 0 /\ n <= 1 => n = 1
    OBVIOUS
  <2> QED
    BY <1>1, <1>2, <2>1, Zenon
<1> QED
  BY <1>1, <1>3

(* What the pipe passes on becomes one block of the callQueue.             *)
LEMMA PipePartTypes ==
  ASSUME TypeInv, PipeQueue
  PROVE  PartTypes'
<1>0. PartTypes
  BY DEF TypeInv
<1>1. CASE UNCHANGED callVars
  BY <1>0, <1>1 DEF callVars, PartTypes
<1>2. ASSUME NEW b \in CallBlocks, PassTo(b)
      PROVE  PartTypes'
  <2>1. callQueue' \in Seq(CallBlocks)
    BY <1>0, <1>2 DEF PassTo, PartTypes
  <2> QED
    BY <1>0, <1>2, <2>1 DEF PassTo, PartTypes
<1>3. CASE writeValue /\ ~UNCHANGED callVars
  <2>1. block # << >> /\ block # <<EOS>> /\ PassTo(Block("send", Head(block)))
    BY <1>3 DEF writeValue, RunValue
  <2>2. Head(block) \in Values
    BY <2>1, OneBlock DEF Blocks
  <2> QED
    BY <1>2, <2>1, <2>2, CallBlockTypes
<1> QED
  BY <1>1, <1>2, <1>3, CallBlockTypes DEF PipeQueue, writesFinishedWithError

LEMMA CallQueuePartTypes ==
  ASSUME TypeInv, CallQueue \/ channelDisconnected
  PROVE  PartTypes'
<1>0. PartTypes
  BY DEF TypeInv
<1>1. CASE channelDisconnected
  <2>1. core' \in Cores
    BY <1>0, <1>1, Zenon DEF channelDisconnected, PartTypes, Cores
  <2> QED
    BY <1>0, <1>1, <2>1 DEF channelDisconnected, PartTypes
<1>2. CASE CallQueue
  <2>1. Head(callQueue) \in CallBlocks /\ callQueue' \in Seq(CallBlocks)
    BY <1>0, <1>2 DEF CallQueue, PartTypes
  <2>2. Head(callQueue).do \in Requests => Head(callQueue).arg \in Blocks
    BY <2>1 DEF CallBlocks, Requests, Blocks
  <2>3. Head(callQueue).do \in {"recvMetadata", "recvStatus", "read", "send", "sendClose"}
    BY <2>1 DEF CallBlocks
  <2> DEFINE b == Head(callQueue)
  <2> HIDE DEF b
  <2>4. startBatch(b) \in Cores
    <3>0. core \in Cores
      BY <1>0 DEF PartTypes
    <3>1. CASE b.do \in {"recvMetadata", "recvStatus"}
      BY <3>0, <3>1, SMTT(20) DEF startBatch, Cores
    <3>2. CASE b.do = "read"
      BY <3>0, <3>2 DEF startBatch, Cores
    <3>3. CASE b.do \in Requests
      <4>1. Append(core.sent, b.arg) \in Seq(Blocks)
        BY <2>2, <3>0, <3>3 DEF Cores, b
      <4>2. CASE b.do = "send"
        <5>1. startBatch(b) = [core EXCEPT !.send = core.send + 1,
                                           !.sent = Append(core.sent, b.arg)]
          BY <4>2 DEF startBatch
        <5>2. core.send + 1 \in Nat
          BY <3>0 DEF Cores
        <5> HIDE DEF startBatch
        <5> QED
          BY <3>0, <4>1, <5>1, <5>2, Zenon DEF Cores
      <4>3. CASE b.do = "sendClose"
        BY <3>0, <4>1, <4>3, Zenon DEF startBatch, Cores
      <4> QED
        BY <3>3, <4>2, <4>3 DEF Requests
    <3> QED
      BY <2>3, <3>1, <3>2, <3>3 DEF Requests, b
  <2>5. core' \in Cores
    BY <1>0, <1>2, <2>4 DEF CallQueue, PartTypes, b
  <2> QED
    BY <1>0, <1>2, <2>1, <2>5 DEF CallQueue, PartTypes
<1> QED
  BY <1>1, <1>2

LEMMA NetworkPartTypes ==
  ASSUME TypeInv, \/ MetadataDone \/ SendDone \/ MessageDone \/ MessageTooLarge
                  \/ \E status \in {"ok", "error"} : StatusDone(status)
  PROVE  PartTypes'
<1>0. PartTypes
  BY DEF TypeInv
<1>1. CASE MetadataDone
  <2> DEFINE g == [grpcCall EXCEPT !.headers = TRUE, !.pendingCoreRead = FALSE]
  <2>1. g \in GrpcCalls
    BY <1>0, Zenon DEF PartTypes, GrpcCalls
  <2>2. core' \in Cores
    BY <1>0, <1>1, SMTT(20) DEF MetadataDone, PartTypes, Cores
  <2>3. maybeStartNextRead(g)
    BY <1>1 DEF MetadataDone
  <2> HIDE DEF g
  <2>4. grpcCall' \in GrpcCalls /\ callQueue' \in Seq(CallBlocks)
    BY <1>0, <2>1, <2>3, ReadTypes DEF PartTypes
  <2> QED
    BY <1>0, <1>1, <2>2, <2>4 DEF MetadataDone, PartTypes
<1>2. CASE SendDone
  <2>0. core \in Cores /\ core.send - 1 \in Nat
    BY <1>0, <1>2 DEF SendDone, PartTypes, Cores
  <2>1. core' \in Cores
    BY <1>2, <2>0, Zenon DEF SendDone, Cores
  <2> QED
    BY <1>0, <1>2, <2>1 DEF SendDone, PartTypes
<1>3. CASE MessageDone
  <2>0. core \in Cores /\ core.receive - 1 \in Nat /\ core.received + 1 \in 0..MaxReplies
    BY <1>0, <1>3, ScenariosAssumption DEF MessageDone, MessageCanArrive, PartTypes, Cores
  <2>1. core' \in Cores
    BY <1>3, <2>0, Zenon DEF MessageDone, Cores
  <2> QED
    BY <1>0, <1>3, <2>1 DEF MessageDone, PartTypes
<1>4. CASE MessageTooLarge
  <2>0. core \in Cores /\ core.receive - 1 \in Nat
    BY <1>0, <1>4 DEF MessageTooLarge, MessageCanArrive, PartTypes, Cores
  <2>1. core' \in Cores
    BY <1>4, <2>0, Zenon DEF MessageTooLarge, Cores
  <2>2. thread' \in Threads
    BY <1>0, <1>4 DEF MessageTooLarge, PartTypes, Threads
  <2>3. [grpcCall EXCEPT !.pendingCoreRead = FALSE] \in GrpcCalls
    BY <1>0, Zenon DEF PartTypes, GrpcCalls
  <2>4. grpcCall' \in GrpcCalls /\ writeable' \in Writeables
    BY <1>0, <1>4, <2>3, FinishedTypes DEF MessageTooLarge, PartTypes
  <2> QED
    BY <1>0, <1>4, <2>1, <2>2, <2>4 DEF MessageTooLarge, PartTypes
<1>5. ASSUME NEW status \in {"ok", "error"}, StatusDone(status)
      PROVE  PartTypes'
  <2>1. core' \in Cores
    BY <1>0, <1>5, Zenon DEF StatusDone, PartTypes, Cores
  <2>2. thread' \in Threads
    BY <1>0, <1>5 DEF StatusDone, PartTypes, Threads
  <2>3. grpcCall' \in GrpcCalls /\ writeable' \in Writeables
    BY <1>0, <1>5, FinishedTypes DEF StatusDone, PartTypes
  <2> QED
    BY <1>0, <1>5, <2>1, <2>2, <2>3 DEF StatusDone, PartTypes
<1> QED
  BY <1>1, <1>2, <1>3, <1>4, <1>5

LEMMA TypeStep == TypeInv /\ [CallNext]_vars => TypeInv'
<1> SUFFICES ASSUME TypeInv, [CallNext]_vars PROVE TypeInv'
  OBVIOUS
<1>1. CallInv' /\ PipeInv'
  BY CallStep, PipeInductive DEF Goal, TypeInv
<1>2. CASE UNCHANGED vars
  BY <1>1, <1>2 DEF vars, callVars, TypeInv, PartTypes
<1>3. CASE Dispatch
  BY <1>1, <1>3, StartPartTypes, CommandPartTypes, ResponsePartTypes DEF Dispatch, TypeInv
<1>4. CASE Network
  BY <1>1, <1>4, StartPartTypes, NetworkPartTypes DEF Network, TypeInv
<1> QED
  BY <1>1, <1>2, <1>3, <1>4, UserPartTypes, StartPartTypes, PipePartTypes,
     CallQueuePartTypes
  DEF CallNext, TypeInv

LEMMA TypeInitially == CallInit => TypeInv
<1> SUFFICES ASSUME CallInit PROVE TypeInv
  OBVIOUS
<1>1. CallInv /\ PipeInv
  BY CallInitially, PipeInitially
<1>2. /\ manager \in Managers /\ writeable \in Writeables /\ thread \in Threads
      /\ callQueue \in Seq(CallBlocks)
  BY DEF CallInit, Managers, Writeables, Threads
<1>3. internal \in Internals /\ grpcCall \in GrpcCalls
  BY ScenariosAssumption DEF CallInit, Internals, GrpcCalls, WriterStates
<1>4. core \in Cores
  BY ScenariosAssumption DEF CallInit, Cores
<1>5. user \in [asked : 0..Len(scenario.script), cancel : BOOLEAN]
  BY ScenariosAssumption DEF CallInit
<1> QED
  BY <1>1, <1>2, <1>3, <1>4, <1>5 DEF TypeInv, PartTypes, CallInit

LEMMA TypeInvariant == CallSpec => []TypeInv
BY TypeInitially, TypeStep, PTL DEF CallSpec

(* The parts of a call, from GRPCTransportManager to gRPC Core, keep to    *)
(* their types: the unsigned counters stay in their range, no batch counter *)
(* goes below zero and the core is given nothing but requests.             *)
THEOREM CallTypeCorrect == CallSpec => []CallTypeOK
<1>1. TypeInv => CallTypeOK
  BY DEF TypeInv, PartTypes, PipeInv, CallTypeOK
<1> QED
  BY <1>1, TypeInvariant, PTL

-----------------------------------------------------------------------------
(* The batches.  The RPC begins when startCallWithWriteable: has made the  *)
(* wrapped call; until then nothing runs below GRPCCall, and once it has   *)
(* begun, to finish the GRPCCall is to end it.                             *)
Joined == core.connected \/ core.broken

StartInv ==
  /\ internal.call => internal.started
  /\ ~internal.started => grpcCall.state = "NotStarted" /\ thread.token = "idle" /\ ~Joined
  /\ thread.token = "asked" => ~Joined
  /\ ~Joined => /\ callQueue = << >> /\ core.sent = << >> /\ core.send = 0
                /\ core.receive = 0 /\ core.metadata = "none" /\ core.status = "none"
                /\ pipeState = "NotStarted" /\ passed = << >>
                /\ thread.dispatch # "startWriter" /\ thread.token # "startWriter"
  /\ Once(callQueue, {"recvMetadata"}) /\ Once(callQueue, {"recvStatus"})
  /\ Has(callQueue, {"recvMetadata"}) => core.metadata = "none"
  /\ Has(callQueue, {"recvStatus"}) => core.status = "none"
  /\ grpcCall.state = "Finished" /\ Joined => Over
  /\ "finishWriter" \in {thread.network, thread.dispatch} => grpcCall.state = "Finished"
  /\ pipeState = "Finished" => Over

(* The pipe is paused while a message is on its way to the wire.           *)
SendInv ==
  /\ core.send <= 1 /\ Once(callQueue, {"send"})
  /\ Has(callQueue, {"send"}) => core.send = 0
  /\ Has(callQueue, {"send"}) \/ core.send > 0 => pipeState \in {"Paused", "Finished"}
  /\ pipeState = "Paused" => block = << >>

(* What the pipe has passed on is with the core, but for one request that  *)
(* may be on the callQueue.                                                *)
EndIsLast == \A i \in 1..(Len(written) - 1) : written[i] # EOS

OrderInv ==
  ~Over =>
    /\ Once(callQueue, Requests) /\ Completes(callQueue, Requests, core.sent, passed)
    /\ Has(callQueue, Requests) \/ passed = core.sent
    /\ core.send > 0 => ~Has(callQueue, Requests) /\ EOS \notin Range(core.sent)

(* One read is under way at a time: on the callQueue, in the core, or with *)
(* its message on the dispatchQueue.                                       *)
ReadInv ==
  /\ core.receive <= 1 /\ Once(callQueue, {"read"}) /\ Once(dispatchQueue, {"value"})
  /\ Has(callQueue, {"read"}) => core.receive = 0 /\ ~Has(dispatchQueue, {"value"})
  /\ core.receive > 0 => ~Has(dispatchQueue, {"value"})
  /\ Has(callQueue, {"read"}) \/ core.receive > 0 \/ Has(dispatchQueue, {"value"})
       => grpcCall.pendingCoreRead /\ core.metadata = "done"
  /\ core.metadata # "done" => grpcCall.pendingCoreRead

BatchInv == TypeInv /\ StartInv /\ SendInv /\ EndIsLast /\ OrderInv /\ ReadInv

Batches == StartInv /\ SendInv /\ OrderInv /\ ReadInv

(* Where the one read is.                                                  *)
LEMMA OneRead ==
  ASSUME TypeInv, Batches
  PROVE  /\ core.receive \in {0, 1} /\ Once(callQueue, {"read"}) /\ Once(dispatchQueue, {"value"})
         /\ core.receive > 0 => ~Has(callQueue, {"read"}) /\ ~Has(dispatchQueue, {"value"})
         /\ Has(dispatchQueue, {"value"}) => core.receive = 0 /\ ~Has(callQueue, {"read"})
         /\ core.receive > 0 \/ Has(dispatchQueue, {"value"})
              => grpcCall.pendingCoreRead /\ core.metadata = "done"
         /\ core.metadata # "done" => /\ core.receive = 0 /\ ~Has(callQueue, {"read"})
                                      /\ ~Has(dispatchQueue, {"value"})
         /\ core.metadata # "none" \/ core.receive > 0 => Joined
<1> DEFINE onQueue == Has(callQueue, {"read"})
           inFront == Has(dispatchQueue, {"value"})
<1>1. core.receive \in Nat
  BY Zenon DEF TypeInv, PartTypes, Cores
<1>2. Once(callQueue, {"read"}) /\ Once(dispatchQueue, {"value"})
  BY Zenon DEF Batches, ReadInv
<1>3. /\ core.receive <= 1 /\ (onQueue => core.receive = 0 /\ ~inFront)
      /\ core.receive > 0 => ~inFront
      /\ onQueue \/ core.receive > 0 \/ inFront => grpcCall.pendingCoreRead /\ core.metadata = "done"
  BY Zenon DEF Batches, ReadInv
<1>4. ~Joined => core.receive = 0 /\ core.metadata = "none"
  BY Zenon DEF Batches, StartInv
<1> HIDE DEF onQueue, inFront, Joined
<1>5. /\ core.receive \in {0, 1}
      /\ core.receive > 0 => ~onQueue /\ ~inFront
      /\ inFront => core.receive = 0 /\ ~onQueue
      /\ core.receive > 0 \/ inFront => grpcCall.pendingCoreRead /\ core.metadata = "done"
      /\ core.metadata # "done" => core.receive = 0 /\ ~onQueue /\ ~inFront
      /\ core.metadata # "none" \/ core.receive > 0 => Joined
  BY <1>1, <1>3, <1>4
<1> QED
  BY <1>2, <1>5, Zenon DEF onQueue, inFront

(* The dispatchQueue gets no new value.                                    *)
NoNewValue ==
  /\ Once(dispatchQueue, {"value"}) => Once(dispatchQueue', {"value"})
  /\ Has(dispatchQueue', {"value"}) => Has(dispatchQueue, {"value"})

LEMMA RestHasNoNew ==
  ASSUME TypeInv, dispatchQueue # << >>, dispatchQueue' = Rest
  PROVE  NoNewValue
<1>1. dispatchQueue \in Seq(DispatchBlocks)
  BY DEF TypeInv, CallInv
<1> QED
  BY <1>1, OnTail DEF NoNewValue, Rest

LEMMA AppendHasNoNew ==
  ASSUME TypeInv, NEW b \in DispatchBlocks, b.do # "value",
         dispatchQueue' = Append(dispatchQueue, b)
  PROVE  NoNewValue
<1>1. dispatchQueue \in Seq(DispatchBlocks)
  BY DEF TypeInv, CallInv
<1>2. b.do \notin {"value"}
  OBVIOUS
<1> QED
  BY <1>1, <1>2, OnAppend, Zenon DEF NoNewValue

(* A finish appends nothing or a complete.                                 *)
LEMMA FinishHasNoNew ==
  ASSUME TypeInv, NEW g, NEW w, NEW status \in Statuses,
         finishWithError(g, w, status, dispatchQueue)
  PROVE  NoNewValue
<1>1. CASE dispatchQueue' = dispatchQueue
  BY <1>1, Zenon DEF NoNewValue
<1>2. CASE dispatchQueue' = Append(dispatchQueue, Ending("complete", status))
  <2>1. Ending("complete", status) \in DispatchBlocks /\ Ending("complete", status).do # "value"
    BY BlockTypes, Zenon DEF Ending
  <2> QED
    BY <1>2, <2>1, AppendHasNoNew
<1> QED
  BY <1>1, <1>2 DEF finishWithError

LEMMA FinishAfterRest ==
  ASSUME TypeInv, dispatchQueue # << >>, NEW g, NEW w, NEW status \in Statuses,
         finishWithError(g, w, status, Rest)
  PROVE  NoNewValue
<1> DEFINE b == Ending("complete", status)
<1>0. b \in DispatchBlocks /\ b.do \notin {"value"}
  BY BlockTypes, Zenon DEF Ending
<1>1. dispatchQueue \in Seq(DispatchBlocks) /\ Rest \in Seq(DispatchBlocks)
  BY DEF TypeInv, CallInv, Rest
<1>2. /\ Once(dispatchQueue, {"value"}) => Once(Rest, {"value"})
      /\ Has(Rest, {"value"}) => Has(dispatchQueue, {"value"})
  BY <1>1, OnTail DEF Rest
<1> HIDE DEF b
<1>3. /\ Once(Rest, {"value"}) => Once(Append(Rest, b), {"value"})
      /\ Has(Append(Rest, b), {"value"}) => Has(Rest, {"value"})
  BY <1>0, <1>1, OnAppend, Zenon
<1>4. dispatchQueue' = Rest \/ dispatchQueue' = Append(Rest, b)
  BY DEF finishWithError, b
<1> QED
  BY <1>2, <1>3, <1>4, Zenon DEF NoNewValue

(* What a response handler issues has no new value.                        *)
LEMMA IssueHasNoNew ==
  ASSUME TypeInv, dispatchQueue # << >>, NEW b \in DispatchBlocks, b.do # "value"
  PROVE  /\ Once(dispatchQueue, {"value"}) => Once(Rest \o Metadata \o <<b>>, {"value"})
         /\ Has(Rest \o Metadata \o <<b>>, {"value"}) => Has(Rest, {"value"})
         /\ Has(Rest, {"value"}) => Has(dispatchQueue, {"value"})
<1> DEFINE m == Block("metadata", 0)
<1>1. /\ dispatchQueue \in Seq(DispatchBlocks) /\ Rest \in Seq(DispatchBlocks)
      /\ m \in DispatchBlocks /\ m.do \notin {"value"} /\ b.do \notin {"value"}
  BY BlockTypes DEF TypeInv, CallInv, Rest, Block
<1>2. /\ Once(dispatchQueue, {"value"}) => Once(Rest, {"value"})
      /\ Has(Rest, {"value"}) => Has(dispatchQueue, {"value"})
  BY <1>1, OnTail DEF Rest
<1> HIDE DEF m
<1>3. ASSUME NEW q \in Seq(DispatchBlocks), NEW c \in DispatchBlocks, c.do \notin {"value"}
      PROVE  /\ Once(q, {"value"}) => Once(Append(q, c), {"value"})
             /\ Has(Append(q, c), {"value"}) => Has(q, {"value"})
  BY <1>3, OnAppend, Zenon
<1>4. Append(Rest, m) \in Seq(DispatchBlocks)
  BY <1>1, EnqueueTypes
<1>5. \/ Rest \o Metadata \o <<b>> = Append(Append(Rest, m), b)
      \/ Rest \o Metadata \o <<b>> = Append(Rest, b)
  BY <1>1, IssueIsAppend DEF m
<1> QED
  BY <1>1, <1>2, <1>3, <1>4, <1>5, Zenon

(* What leaves the RPC alone.                                              *)
LEMMA QuietSteps ==
  ASSUME Batches, NoNewValue,
         UNCHANGED <<grpcCall.state, grpcCall.pendingCoreRead>>,
         UNCHANGED <<core, callQueue, thread, pipeState, block, passed>>,
         internal'.started = internal.started, internal'.call => internal.call
  PROVE  Batches'
<1>1. StartInv'
  BY DEF Batches, StartInv, Joined, Over
<1>2. SendInv'
  BY DEF Batches, SendInv
<1>3. OrderInv'
  BY DEF Batches, OrderInv, Over
<1>4. ReadInv'
  BY DEF Batches, ReadInv, NoNewValue
<1> QED
  BY <1>1, <1>2, <1>3, <1>4 DEF Batches

LEMMA UserBatches ==
  ASSUME TypeInv, Batches, User
  PROVE  Batches'
<1>1. UNCHANGED <<pipeVars, internal, grpcCall, core, callQueue, thread>>
  BY DEF User, UserCalls, UserCancels, UserAsks
<1>2. NoNewValue
  <2>1. CASE UserCancels
    <3>1. Block("cancel", 0) \in DispatchBlocks /\ Block("cancel", 0).do # "value"
      BY BlockTypes DEF Block
    <3> QED
      BY <2>1, <3>1, AppendHasNoNew DEF UserCancels, UserAsks
  <2>2. CASE UserCalls
    <3> DEFINE b == scenario.script[user.asked + 1]
    <3>1. /\ scenario.script \in Seq(UserBlocks) /\ user.asked \in Nat
          /\ user.asked + 1 <= Len(scenario.script)
      BY <2>2, ScenariosAssumption DEF TypeInv, CallInv, UserCalls
    <3>2. b \in UserBlocks
      BY <3>1
    <3>3. b \in DispatchBlocks /\ b.do # "value"
      BY <3>2 DEF DispatchBlocks, UserBlocks
    <3>4. dispatchQueue' = Append(dispatchQueue, b)
      BY <2>2 DEF UserCalls, UserAsks
    <3> HIDE DEF b
    <3> QED
      BY <3>3, <3>4, AppendHasNoNew
  <2> QED
    BY <2>1, <2>2 DEF User
<1> QED
  BY <1>1, <1>2, QuietSteps DEF pipeVars

LEMMA CommandBatches ==
  ASSUME TypeInv, Batches, DropCommand \/ Forward \/ ForwardClose \/ writeData \/ finish
  PROVE  Batches'
<1>1. UNCHANGED <<grpcCall, core, callQueue, thread, pipeState, block, passed>>
  BY DEF DropCommand, Forward, ForwardClose, writeData, finish, Write, pipeVars
<1>2. internal'.started = internal.started /\ internal'.call = internal.call
  BY Zenon DEF DropCommand, Forward, ForwardClose, writeData, finish, TypeInv, PartTypes, Internals
<1>3. dispatchQueue # << >> /\ dispatchQueue' = Rest
  BY DEF DropCommand, Forward, ForwardClose, writeData, finish, Runs
<1> QED
  BY <1>1, <1>2, <1>3, RestHasNoNew, QuietSteps

LEMMA CompleteBatches ==
  ASSUME TypeInv, Batches, Complete
  PROVE  Batches'
<1>1. UNCHANGED <<grpcCall, core, callQueue, thread, pipeState, block, passed>>
  BY DEF Complete, Write, pipeVars
<1>2. internal'.started = internal.started /\ (internal'.call => internal.call)
  BY Zenon DEF Complete, TypeInv, PartTypes, Internals
<1>3. dispatchQueue # << >>
  BY DEF Complete, Runs
<1>4. NoNewValue
  <2> DEFINE b == Ending("close", Head(dispatchQueue).status)
  <2>1. b \in DispatchBlocks /\ b.do # "value"
    BY FrontTypes, FrontArguments, BlockTypes, ZenonT(30) DEF Complete, TypeInv, Ending
  <2>2. dispatchQueue' = Rest \/ dispatchQueue' = Rest \o Metadata \o <<b>>
    BY DEF Complete
  <2> HIDE DEF b
  <2> QED
    BY <1>3, <2>1, <2>2, RestHasNoNew, IssueHasNoNew, Zenon DEF NoNewValue
<1> QED
  BY <1>1, <1>2, <1>4, QuietSteps

(* startCallWithWriteable: begins the RPC, or the call has failed.         *)
LEMMA StartCallBatches ==
  ASSUME TypeInv, Batches, ~Joined, grpcCall.state # "Finished", NoNewValue,
         internal'.started, UNCHANGED <<pipeState, block, passed>>,
         NEW g \in GrpcCalls, g.state # "Finished",
         g.pendingCoreRead = grpcCall.pendingCoreRead,
         NEW q, NEW who \in {"dispatch", "token"},
         who = "dispatch" => thread.token = "idle",
         startCallWithWriteable(g, q, who)
  PROVE  Batches'
<1>0. /\ callQueue = << >> /\ core.sent = << >> /\ core.send = 0
      /\ core.receive = 0 /\ core.metadata = "none" /\ core.status = "none"
      /\ pipeState = "NotStarted" /\ passed = << >>
      /\ thread.dispatch = "idle" /\ thread.network = "idle" /\ thread.token \in {"idle", "asked"}
  BY DEF Batches, StartInv, TypeInv, PartTypes, Threads
<1>1. /\ thread \in Threads /\ core \in Cores /\ writeable \in Writeables
      /\ ~core.connected /\ ~core.broken
  BY DEF TypeInv, PartTypes, Joined
<1>2. CASE /\ grpcCall' = g
           /\ core' = [core EXCEPT !.connected = TRUE]
           /\ callQueue' = callQueue \o <<Block("recvMetadata", 0), Block("recvStatus", 0)>>
           /\ thread' = [thread EXCEPT ![who] = "startWriter"]
  <2> DEFINE m == Block("recvMetadata", 0)
             n == Block("recvStatus", 0)
  <2>1. /\ << >> \in Seq(CallBlocks) /\ m \in CallBlocks /\ n \in CallBlocks
        /\ m.do = "recvMetadata" /\ n.do = "recvStatus"
        /\ callQueue' = Append(Append(<< >>, m), n) /\ Append(<< >>, m) \in Seq(CallBlocks)
    BY <1>0, <1>2, CallBlockTypes, InvokeIsAppend DEF Block
  <2> HIDE DEF m, n
  <2>2. ASSUME NEW K
        PROVE  /\ ~("recvMetadata" \in K /\ "recvStatus" \in K) => Once(callQueue', K)
               /\ Has(callQueue', K) <=> "recvMetadata" \in K \/ "recvStatus" \in K
    <3>1. ~Has(<< >>, K) /\ Once(<< >>, K)
      BY OnEmpty
    <3>2. Once(Append(<< >>, m), K) /\ (Has(Append(<< >>, m), K) <=> "recvMetadata" \in K)
      BY <2>1, <3>1, OnAppend, Zenon
    <3> QED
      BY <2>1, <3>2, OnAppend, ZenonT(30)
  <2>3. /\ ~Has(callQueue', {"send"}) /\ ~Has(callQueue', {"read"})
        /\ ~Has(callQueue', Requests)
    BY <2>2 DEF Requests
  <2>4. /\ core'.connected /\ ~core'.broken /\ core'.sent = << >> /\ core'.send = 0
        /\ core'.receive = 0 /\ core'.metadata = "none" /\ core'.status = "none"
    BY <1>0, <1>1, <1>2 DEF Cores
  <2>5. /\ thread'.token # "asked"
        /\ thread'.network # "finishWriter" /\ thread'.dispatch # "finishWriter"
    BY <1>0, <1>1, <1>2 DEF Threads
  <2>6. StartInv'
    BY <1>0, <1>2, <2>2, <2>4, <2>5 DEF StartInv, Joined, Over
  <2>7. SendInv'
    BY <1>0, <2>2, <2>3, <2>4 DEF Batches, SendInv
  <2>8. OrderInv'
    BY <1>0, <2>2, <2>3, <2>4, CompletesNone DEF OrderInv
  <2>9. ReadInv'
    BY <1>0, <1>2, <2>2, <2>3, <2>4 DEF Batches, ReadInv, NoNewValue
  <2> QED
    BY <2>6, <2>7, <2>8, <2>9 DEF Batches
<1>3. CASE /\ grpcCall' = [g EXCEPT !.state = "Finished"]
           /\ thread' = [thread EXCEPT ![who] = "idle"]
           /\ UNCHANGED <<core, callQueue>>
  <2>1. grpcCall'.state = "Finished" /\ grpcCall'.pendingCoreRead = grpcCall.pendingCoreRead
    BY <1>3 DEF GrpcCalls
  <2>2. /\ thread'.dispatch = "idle" /\ thread'.network = "idle"
        /\ thread'.token \in {"idle", "asked"}
    BY <1>0, <1>1, <1>3 DEF Threads
  <2>3. StartInv'
    BY <1>0, <1>1, <1>3, <2>2 DEF Batches, StartInv, Joined, Over
  <2>4. SendInv' /\ OrderInv'
    BY <1>3 DEF Batches, SendInv, OrderInv, Over
  <2>5. ReadInv'
    BY <1>3, <2>1 DEF Batches, ReadInv, NoNewValue
  <2> QED
    BY <2>3, <2>4, <2>5 DEF Batches
<1> QED
  BY <1>2, <1>3 DEF startCallWithWriteable, finishWithError

LEMMA StartBatches ==
  ASSUME TypeInv, Batches, Start
  PROVE  Batches'
<1>1. /\ ~internal.started /\ ~Joined /\ grpcCall.state = "NotStarted"
      /\ thread.token = "idle" /\ dispatchQueue # << >>
  BY DEF Start, Runs, Batches, StartInv
<1> DEFINE g == [grpcCall EXCEPT !.state = "Started",
                                 !.pendingReceive = internal.pendingReceive]
<1>2. g \in GrpcCalls /\ g.state = "Started" /\ g.pendingCoreRead = grpcCall.pendingCoreRead
  BY ZenonT(30) DEF TypeInv, PartTypes, GrpcCalls, Internals, WriterStates
<1>3. internal'.started
  BY DEF Start, TypeInv, PartTypes, Internals
<1>4. UNCHANGED <<pipeState, block, passed>>
  BY DEF Start, pipeVars
<1>5. CASE /\ grpcCall' = g /\ dispatchQueue' = Rest
           /\ thread' = [thread EXCEPT !.token = "asked"]
           /\ UNCHANGED <<core, callQueue>>
  <2>1. NoNewValue
    BY <1>1, <1>5, RestHasNoNew
  <2>2. thread'.token = "asked" /\ UNCHANGED <<thread.dispatch, thread.network>>
    BY <1>5 DEF TypeInv, PartTypes, Threads
  <2> HIDE DEF g
  <2>3. StartInv'
    BY <1>1, <1>2, <1>3, <1>4, <1>5, <2>2 DEF Batches, StartInv, Joined, Over
  <2>4. SendInv' /\ OrderInv'
    BY <1>4, <1>5 DEF Batches, SendInv, OrderInv, Over
  <2>5. ReadInv'
    BY <1>2, <1>5, <2>1 DEF Batches, ReadInv, NoNewValue
  <2> QED
    BY <2>3, <2>4, <2>5 DEF Batches
<1>6. CASE startCallWithWriteable(g, Rest, "dispatch")
  <2>1. NoNewValue
    <3>1. \/ dispatchQueue' = Rest
          \/ \E w : finishWithError(g, w, "error", Rest)
      BY <1>6 DEF startCallWithWriteable
    <3> QED
      BY <1>1, <3>1, RestHasNoNew, FinishAfterRest DEF Statuses
  <2> HIDE DEF g
  <2> QED
    BY <1>1, <1>2, <1>3, <1>4, <1>6, <2>1, StartCallBatches
<1> QED
  BY <1>5, <1>6 DEF Start

LEMMA TokenBatches ==
  ASSUME TypeInv, Batches, TokenArrives
  PROVE  Batches'
<1>1. ~Joined /\ internal.started /\ thread.token = "asked" /\ grpcCall \in GrpcCalls
  BY DEF TokenArrives, Batches, StartInv, TypeInv, PartTypes
<1>2. UNCHANGED <<pipeState, block, passed, internal>>
  BY DEF TokenArrives, pipeVars
<1>3. CASE /\ thread' = [thread EXCEPT !.token = "idle"]
           /\ UNCHANGED <<grpcCall, core, dispatchQueue, callQueue>>
  <2>1. thread'.token = "idle" /\ UNCHANGED <<thread.dispatch, thread.network>>
    BY <1>3 DEF TypeInv, PartTypes, Threads
  <2>2. StartInv'
    BY <1>1, <1>2, <1>3, <2>1 DEF Batches, StartInv, Joined, Over
  <2>3. SendInv' /\ OrderInv' /\ ReadInv'
    BY <1>2, <1>3 DEF Batches, SendInv, OrderInv, ReadInv, Over
  <2> QED
    BY <2>2, <2>3 DEF Batches
<1>4. CASE grpcCall.state # "Finished" /\ startCallWithWriteable(grpcCall, dispatchQueue, "token")
  <2>1. NoNewValue
    <3>1. \/ dispatchQueue' = dispatchQueue
          \/ \E w : finishWithError(grpcCall, w, "error", dispatchQueue)
      BY <1>4 DEF startCallWithWriteable
    <3>2. CASE dispatchQueue' = dispatchQueue
      BY <3>2, Zenon DEF NoNewValue
    <3> QED
      BY <3>1, <3>2, FinishHasNoNew DEF Statuses
  <2> QED
    BY <1>1, <1>2, <1>4, <2>1, StartCallBatches
<1> QED
  BY <1>3, <1>4 DEF TokenArrives

(* The thread that started the RPC starts its request pipe.                *)
LEMMA StartWriterBatches ==
  ASSUME TypeInv, Batches, NEW who \in {"dispatch", "token"}, StartWriter(who)
  PROVE  Batches'
<1>1. /\ UNCHANGED <<internal, grpcCall, core, callQueue, dispatchQueue, block, passed>>
      /\ pipeState' = pipeState \/ (pipeState = "NotStarted" /\ pipeState' = "Started")
  BY DEF StartWriter, ResumeStarted, StartWithWriteable
<1>2. Joined
  BY DEF StartWriter, Batches, StartInv
<1>3. /\ UNCHANGED thread.network
      /\ thread'.dispatch \in {thread.dispatch, "idle"} /\ thread'.token \in {thread.token, "idle"}
  BY DEF StartWriter, TypeInv, PartTypes, Threads
<1>4. StartInv'
  BY <1>1, <1>2, <1>3 DEF Batches, StartInv, Joined, Over
<1>5. SendInv'
  BY <1>1 DEF Batches, SendInv
<1>6. OrderInv' /\ ReadInv'
  BY <1>1 DEF Batches, OrderInv, ReadInv, Over
<1> QED
  BY <1>4, <1>5, <1>6 DEF Batches

LEMMA FinishWriterBatches ==
  ASSUME TypeInv, Batches, NEW who \in {"dispatch", "network"}, FinishWriter(who)
  PROVE  Batches'
<1>1. /\ UNCHANGED <<internal, grpcCall, core, callQueue, dispatchQueue, block, passed>>
      /\ pipeState' = Manual("Finished")
  BY DEF FinishWriter, SetState
<1>2. grpcCall.state = "Finished"
  BY DEF FinishWriter, Batches, StartInv
<1>3. /\ UNCHANGED thread.token
      /\ thread'.dispatch \in {thread.dispatch, "idle"} /\ thread'.network \in {thread.network, "idle"}
  BY DEF FinishWriter, TypeInv, PartTypes, Threads
<1>4. StartInv'
  BY <1>1, <1>2, <1>3 DEF Batches, StartInv, Joined, Over, Manual
<1>5. SendInv'
  BY <1>1 DEF Batches, SendInv, Manual
<1>6. OrderInv' /\ ReadInv'
  BY <1>1 DEF Batches, OrderInv, ReadInv, Over
<1> QED
  BY <1>4, <1>5, <1>6 DEF Batches

(* cancel and a failure finish the GRPCCall, and with it the RPC.          *)
LEMMA CancelBatches ==
  ASSUME TypeInv, Batches, cancel
  PROVE  Batches'
<1>1. /\ dispatchQueue # << >> /\ thread.dispatch = "idle"
      /\ UNCHANGED <<pipeState, block, passed, callQueue>>
  BY DEF cancel, Runs, pipeVars
<1>2. internal'.started = internal.started /\ ~internal'.call
  BY DEF cancel, TypeInv, PartTypes, Internals
<1>3. CASE dispatchQueue' = Rest /\ UNCHANGED <<grpcCall, core, thread>>
  BY <1>1, <1>2, <1>3, RestHasNoNew, QuietSteps
<1>4. CASE /\ internal.call
           /\ finishWithError(grpcCall, writeable, "cancelled", Rest)
           /\ CancelWrappedCall
           /\ thread' = [thread EXCEPT !.dispatch = "finishWriter"]
  <2>1. NoNewValue
    BY <1>1, <1>4, FinishAfterRest DEF Statuses
  <2>2. grpcCall'.state = "Finished" /\ grpcCall'.pendingCoreRead = grpcCall.pendingCoreRead
    BY <1>4 DEF finishWithError, TypeInv, PartTypes, GrpcCalls
  <2>3. /\ UNCHANGED <<core.connected, core.sent, core.send, core.receive, core.metadata, core.status>>
        /\ core'.broken <=> core.broken \/ core.connected
    BY <1>4 DEF CancelWrappedCall, TypeInv, PartTypes, Cores
  <2>4. thread'.dispatch = "finishWriter" /\ UNCHANGED <<thread.token, thread.network>>
    BY <1>4 DEF TypeInv, PartTypes, Threads
  <2>5. internal.started
    BY <1>4 DEF Batches, StartInv
  <2>6. StartInv'
    BY <1>1, <1>2, <2>2, <2>3, <2>4, <2>5 DEF Batches, StartInv, Joined, Over
  <2>7. SendInv'
    BY <1>1, <2>3 DEF Batches, SendInv
  <2>8. OrderInv'
    BY <1>1, <2>3 DEF Batches, OrderInv, Over
  <2>9. ReadInv'
    BY <1>1, <2>1, <2>2, <2>3 DEF Batches, ReadInv, NoNewValue
  <2> QED
    BY <2>6, <2>7, <2>8, <2>9 DEF Batches
<1> QED
  BY <1>3, <1>4 DEF cancel

(* A read may be asked of the core.                                        *)
LEMMA NextRead ==
  ASSUME TypeInv, NEW g \in GrpcCalls, maybeStartNextRead(g)
  PROVE  /\ grpcCall'.state = g.state /\ grpcCall'.headers = g.headers
         /\ \/ UNCHANGED callQueue /\ grpcCall'.pendingCoreRead = g.pendingCoreRead
            \/ /\ MayRead(g) /\ grpcCall'.pendingCoreRead
               /\ callQueue' = Append(callQueue, Block("read", 0))
BY Zenon DEF maybeStartNextRead, GrpcCalls

LEMMA ReadQueued ==
  ASSUME TypeInv, callQueue' = Append(callQueue, Block("read", 0))
  PROVE  /\ \A K : "read" \notin K =>
              /\ Has(callQueue', K) <=> Has(callQueue, K)
              /\ Once(callQueue, K) => Once(callQueue', K)
         /\ ~Has(callQueue, {"read"}) => Once(callQueue', {"read"})
         /\ \A t, p : Completes(callQueue, Requests, t, p) => Completes(callQueue', Requests, t, p)
<1> DEFINE b == Block("read", 0)
<1>1. b \in CallBlocks /\ b.do = "read" /\ callQueue \in Seq(CallBlocks) /\ callQueue' = Append(callQueue, b)
  BY CallBlockTypes DEF Block, TypeInv, PartTypes
<1> HIDE DEF b
<1>2. ASSUME NEW K, "read" \notin K
      PROVE  /\ Has(callQueue', K) <=> Has(callQueue, K)
             /\ Once(callQueue, K) => Once(callQueue', K)
  <2>1. b.do \notin K
    BY <1>1, <1>2
  <2>2. /\ Has(Append(callQueue, b), K) <=> Has(callQueue, K) \/ b.do \in K
        /\ Once(callQueue, K) /\ (b.do \in K => ~Has(callQueue, K)) => Once(Append(callQueue, b), K)
    BY <1>1, OnAppend, Zenon
  <2> QED
    BY <1>1, <2>1, <2>2, Zenon
<1>3. ASSUME ~Has(callQueue, {"read"}) PROVE Once(callQueue', {"read"})
  <2>1. Once(callQueue, {"read"})
    BY <1>3 DEF Has, Once
  <2> QED
    BY <1>1, <1>3, <2>1, OnAppend, Zenon
<1>4. ASSUME NEW t, NEW p, Completes(callQueue, Requests, t, p)
      PROVE  Completes(callQueue', Requests, t, p)
  <2>1. b.do \notin Requests
    BY <1>1 DEF Requests
  <2> QED
    BY <1>1, <1>4, <2>1, CompletesAppend, Zenon
<1> QED
  BY <1>2, <1>3, <1>4, Zenon

LEMMA ReadBatches ==
  ASSUME TypeInv, Batches, NEW g \in GrpcCalls, g.state = grpcCall.state,
         maybeStartNextRead(g), MayRead(g) => Joined,
         UNCHANGED <<thread, pipeState, block, passed>>,
         UNCHANGED <<core.connected, core.broken, core.sent, core.send, core.receive, core.status>>,
         core'.metadata = core.metadata \/ core.metadata = "out",
         internal'.started = internal.started, internal'.call => internal.call
  PROVE  StartInv' /\ SendInv' /\ OrderInv'
<1>1. CASE UNCHANGED callQueue /\ grpcCall'.state = grpcCall.state
  <2>1. StartInv'
    BY <1>1 DEF Batches, StartInv, Joined, Over
  <2> QED
    BY <1>1, <2>1 DEF Batches, SendInv, OrderInv, Over
<1>2. CASE /\ MayRead(g) /\ grpcCall'.state = grpcCall.state
           /\ callQueue' = Append(callQueue, Block("read", 0))
  <2>1. /\ Has(callQueue', {"recvMetadata"}) <=> Has(callQueue, {"recvMetadata"})
        /\ Once(callQueue, {"recvMetadata"}) => Once(callQueue', {"recvMetadata"})
        /\ Has(callQueue', {"recvStatus"}) <=> Has(callQueue, {"recvStatus"})
        /\ Once(callQueue, {"recvStatus"}) => Once(callQueue', {"recvStatus"})
    BY <1>2, ReadQueued
  <2>2. /\ Has(callQueue', {"send"}) <=> Has(callQueue, {"send"})
        /\ Once(callQueue, {"send"}) => Once(callQueue', {"send"})
    BY <1>2, ReadQueued
  <2>3. /\ Has(callQueue', Requests) <=> Has(callQueue, Requests)
        /\ Once(callQueue, Requests) => Once(callQueue', Requests)
    <3>1. "read" \notin Requests
      BY DEF Requests
    <3> QED
      BY <1>2, <3>1, ReadQueued, Zenon
  <2>4. Completes(callQueue, Requests, core.sent, passed) => Completes(callQueue', Requests, core.sent, passed)
    BY <1>2, ReadQueued, Zenon
  <2>5. StartInv'
    BY <1>2, <2>1 DEF Batches, StartInv, Joined, Over
  <2>6. SendInv'
    BY <2>2 DEF Batches, SendInv
  <2>7. OrderInv'
    BY <2>3, <2>4, Zenon DEF Batches, OrderInv, Over
  <2> QED
    BY <2>5, <2>6, <2>7
<1> QED
  BY <1>1, <1>2, NextRead

LEMMA ReceiveBatches ==
  ASSUME TypeInv, Batches, receiveNextMessages
  PROVE  Batches'
<1> DEFINE n == Head(dispatchQueue).arg
           g == [grpcCall EXCEPT !.pendingReceive = (grpcCall.pendingReceive + n) % NSUIntegerSize]
<1>1. /\ dispatchQueue # << >> /\ dispatchQueue' = Rest
      /\ UNCHANGED <<core, thread, pipeState, block, passed>>
  BY DEF receiveNextMessages, Runs, pipeVars
<1>2. internal'.started = internal.started /\ internal'.call = internal.call
  BY DEF receiveNextMessages, TypeInv, PartTypes, Internals
<1>3. g.state = grpcCall.state /\ g.pendingCoreRead = grpcCall.pendingCoreRead
  BY DEF TypeInv, PartTypes, GrpcCalls
<1>4. NoNewValue
  BY <1>1, RestHasNoNew
<1>5. CASE UNCHANGED callQueue /\ (grpcCall' = grpcCall \/ grpcCall' = g)
  <2>1. UNCHANGED <<grpcCall.state, grpcCall.pendingCoreRead>>
    BY <1>3, <1>5, Zenon
  <2> QED
    BY <1>1, <1>2, <1>4, <1>5, <2>1, QuietSteps
<1>6. CASE scenario.flowControl /\ maybeStartNextRead(g)
  <2>1. g \in GrpcCalls
    <3>1. Head(dispatchQueue) \in DispatchBlocks /\ Head(dispatchQueue).do = "receive"
      BY FrontTypes DEF receiveNextMessages, TypeInv
    <3>2. n \in Nat /\ grpcCall.pendingReceive + n \in Int
      BY <3>1, ScenariosAssumption DEF DispatchBlocks, UserBlocks, TypeInv, PartTypes, GrpcCalls
    <3> QED
      BY <3>2, UnsignedRange DEF TypeInv, PartTypes, GrpcCalls
  <2>2. MayRead(g) => ~grpcCall.pendingCoreRead
    BY <1>3, <1>6 DEF MayRead
  <2> HIDE DEF g
  <2>3. MayRead(g) => /\ core.metadata = "done" /\ Joined /\ core.receive = 0
                      /\ ~Has(callQueue, {"read"}) /\ ~Has(dispatchQueue, {"value"})
    BY <2>2 DEF Batches, ReadInv, StartInv, TypeInv, PartTypes, Cores
  <2>4. StartInv' /\ SendInv' /\ OrderInv'
    BY <1>1, <1>2, <1>3, <1>6, <2>1, <2>3, ReadBatches
  <2>5. ReadInv'
    BY <1>1, <1>3, <1>4, <1>6, <2>1, <2>3, NextRead, ReadQueued DEF Batches, ReadInv, NoNewValue
  <2> QED
    BY <2>4, <2>5 DEF Batches
<1> QED
  BY <1>5, <1>6 DEF receiveNextMessages

(* The value that is handed on makes room for the next read.               *)
LEMMA ResponseBatches ==
  ASSUME TypeInv, Batches, WriteResponse
  PROVE  Batches'
<1>1. /\ dispatchQueue # << >> /\ Head(dispatchQueue).do = "value"
      /\ UNCHANGED <<core, thread, pipeState, block, passed>>
  BY DEF WriteResponse, Runs, pipeVars
<1>2. internal'.started = internal.started /\ internal'.call = internal.call
  BY DEF WriteResponse, TypeInv, PartTypes, Internals
<1>3. CASE dispatchQueue' = Rest /\ UNCHANGED <<internal, grpcCall, callQueue>>
  BY <1>1, <1>2, <1>3, RestHasNoNew, QuietSteps
<1>4. CASE /\ dispatchQueue' = Rest \o Metadata \o <<Block("data", Head(dispatchQueue).arg)>>
           /\ maybeStartNextRead([grpcCall EXCEPT !.pendingCoreRead = FALSE])
  <2> DEFINE b == Block("data", Head(dispatchQueue).arg)
             g == [grpcCall EXCEPT !.pendingCoreRead = FALSE]
  <2>1. b \in DispatchBlocks /\ b.do # "value"
    BY FrontTypes, FrontArguments, BlockTypes, Zenon DEF WriteResponse, TypeInv, Block
  <2>2. g \in GrpcCalls /\ g.state = grpcCall.state /\ ~g.pendingCoreRead
    BY Zenon DEF TypeInv, PartTypes, GrpcCalls
  <2>3. dispatchQueue' = Rest \o Metadata \o <<b>> /\ maybeStartNextRead(g)
    BY <1>4
  <2> HIDE DEF b, g
  <2>4. Has(dispatchQueue, {"value"}) /\ ~Has(Rest, {"value"}) /\ Once(dispatchQueue, {"value"})
    <3>1. dispatchQueue \in Seq(DispatchBlocks) /\ Once(dispatchQueue, {"value"})
      BY DEF TypeInv, CallInv, Batches, ReadInv
    <3> QED
      BY <1>1, <3>1, OnTail DEF Rest
  <2>5. Once(dispatchQueue', {"value"}) /\ ~Has(dispatchQueue', {"value"})
    BY <1>1, <2>1, <2>3, <2>4, IssueHasNoNew
  <2>6. /\ core.metadata = "done" /\ Joined /\ core.receive = 0
        /\ ~Has(callQueue, {"read"})
    <3>1. core.metadata = "done" /\ core.receive = 0 /\ ~Has(callQueue, {"read"})
      BY <2>4, OneRead, Zenon
    <3> QED
      BY <3>1, OneRead
  <2>7. StartInv' /\ SendInv' /\ OrderInv'
    BY <1>1, <1>2, <2>2, <2>3, <2>6, ReadBatches
  <2>8. ReadInv'
    BY <1>1, <2>2, <2>3, <2>5, <2>6, NextRead, ReadQueued DEF Batches, ReadInv
  <2> QED
    BY <2>7, <2>8 DEF Batches
<1> QED
  BY <1>3, <1>4 DEF WriteResponse

-----------------------------------------------------------------------------
(* The end of the stream does not wait on the callQueue while the pipe has *)
(* something more to pass: it would not be the last that was written.      *)
LEMMA NothingAfterEnd ==
  ASSUME TypeInv, EndIsLast, pipeState # "Finished", block # << >>,
         NEW t \in Seq(Blocks), passed = Append(t, EOS)
  PROVE  FALSE
<1>1. /\ passed \in Seq(Blocks) /\ block \in Seq(Blocks) /\ writeQueue \in Seq(Blocks)
      /\ (passed \o block) \o writeQueue = written
  BY DEF TypeInv, PipeInv, PipeTypeOK, PipeCorrect
<1>2. Len(t) \in Nat /\ Len(passed) = Len(t) + 1 /\ passed[Len(t) + 1] = EOS
  BY DEF Blocks
<1>3. Len(block) \in Nat /\ Len(block) # 0 /\ Len(writeQueue) \in Nat
  BY <1>1, EmptySeq, LenProperties
<1> DEFINE begun == passed \o block
<1>4. /\ begun \in Seq(Blocks) /\ Len(begun) = Len(passed) + Len(block)
      /\ begun[Len(t) + 1] = EOS
  BY <1>1, <1>2, <1>3, ConcatProperties
<1>5. begun \o writeQueue = written
  BY <1>1
<1> HIDE DEF begun
<1>6. Len(written) = Len(begun) + Len(writeQueue) /\ written[Len(t) + 1] = EOS
  BY <1>1, <1>2, <1>3, <1>4, <1>5, ConcatProperties
<1>7. Len(t) + 1 \in 1..(Len(written) - 1)
  BY <1>2, <1>3, <1>4, <1>6
<1> QED
  BY <1>6, <1>7 DEF EndIsLast

LEMMA NoRequestWaits ==
  ASSUME TypeInv, Batches, EndIsLast, pipeState = "Started", block # << >>, ~Over
  PROVE  ~Has(callQueue, Requests) /\ passed = core.sent
<1>1. SUFFICES ASSUME Has(callQueue, Requests) PROVE FALSE
  BY DEF Batches, OrderInv
<1>2. PICK i \in DOMAIN callQueue : callQueue[i].do \in Requests
  BY <1>1 DEF Has
<1>3. passed = Append(core.sent, callQueue[i].arg)
  BY <1>2 DEF Batches, OrderInv, Completes
<1>4. callQueue[i].do # "send"
  <2>1. ~Has(callQueue, {"send"})
    BY DEF Batches, SendInv
  <2> QED
    BY <1>2, <2>1 DEF Has
<1>5. callQueue[i].arg = EOS
  <2>1. callQueue[i] \in CallBlocks /\ callQueue[i].do = "sendClose"
    BY <1>2, <1>4 DEF TypeInv, PartTypes, Requests
  <2> QED
    BY <2>1 DEF CallBlocks
<1>6. core.sent \in Seq(Blocks)
  BY DEF TypeInv, PartTypes, Cores
<1> QED
  BY <1>3, <1>5, <1>6, NothingAfterEnd

(* The pipe passes on a request, and pauses unless it is the end.          *)
LEMMA PassBatches ==
  ASSUME TypeInv, Batches, EndIsLast, pipeState = "Started", block # << >>,
         NEW b \in CallBlocks, b.do \in Requests, b.arg = Head(block),
         passed' = passed \o block, block' = << >>,
         pipeState' = (IF b.do = "send" THEN "Paused" ELSE "Started"), PassTo(b)
  PROVE  Batches'
<1>1. UNCHANGED <<internal, grpcCall, core, dispatchQueue, thread>>
  BY DEF PassTo
<1>2. passed' = Append(passed, b.arg)
  <2>1. block \in Seq(Blocks) /\ passed \in Seq(Blocks)
    BY DEF TypeInv, PipeInv, PipeTypeOK
  <2>2. block = <<Head(block)>> /\ Head(block) \in Blocks
    BY OneBlock
  <2> QED
    BY <2>1, <2>2, AppendIsConcat, Zenon
<1>3. callQueue' = Append(callQueue, b)
  <2>1. Len(passed') = Len(passed) + 1 /\ Len(passed) \in Nat
    BY <1>2 DEF TypeInv, PipeInv, PipeTypeOK
  <2>2. passed' # passed
    BY <2>1
  <2> QED
    BY <2>2, Zenon DEF PassTo
<1>4. callQueue \in Seq(CallBlocks)
  BY DEF TypeInv, PartTypes
<1>5. Joined /\ core.send = 0 /\ ~Has(callQueue, {"send"})
  BY DEF Batches, StartInv, SendInv, TypeInv, PartTypes, Cores
<1>6. StartInv'
  <2>1. b.do \notin {"recvMetadata"} /\ b.do \notin {"recvStatus"}
    BY DEF Requests
  <2>2. /\ Has(callQueue', {"recvMetadata"}) <=> Has(callQueue, {"recvMetadata"})
        /\ Once(callQueue, {"recvMetadata"}) => Once(callQueue', {"recvMetadata"})
        /\ Has(callQueue', {"recvStatus"}) <=> Has(callQueue, {"recvStatus"})
        /\ Once(callQueue, {"recvStatus"}) => Once(callQueue', {"recvStatus"})
    BY <1>3, <1>4, <2>1, OnAppend, Zenon
  <2> QED
    BY <1>1, <1>5, <2>2 DEF Batches, StartInv, Joined, Over
<1>7. SendInv'
  <2>1. /\ Has(callQueue', {"send"}) <=> b.do \in {"send"}
        /\ Once(callQueue, {"send"}) => Once(callQueue', {"send"})
    BY <1>3, <1>4, <1>5, OnAppend, Zenon
  <2> QED
    BY <1>1, <1>5, <2>1 DEF Batches, SendInv
<1>8. OrderInv'
  <2> SUFFICES ASSUME ~Over PROVE OrderInv'
    BY <1>1 DEF OrderInv, Over
  <2>1. ~Has(callQueue, Requests) /\ passed = core.sent
    BY NoRequestWaits
  <2>2. Once(callQueue', Requests) /\ Has(callQueue', Requests)
    BY <1>3, <1>4, <2>1, OnAppend, Zenon DEF Batches, OrderInv
  <2>3. Completes(callQueue', Requests, core.sent, passed')
    BY <1>2, <1>3, <1>4, <2>1, CompletesNone, CompletesAppend, Zenon
  <2> QED
    BY <1>1, <1>5, <2>2, <2>3 DEF OrderInv
<1>9. ReadInv'
  <2>1. b.do \notin {"read"}
    BY DEF Requests
  <2>2. /\ Has(callQueue', {"read"}) <=> Has(callQueue, {"read"})
        /\ Once(callQueue, {"read"}) => Once(callQueue', {"read"})
    BY <1>3, <1>4, <2>1, OnAppend, Zenon
  <2> QED
    BY <1>1, <2>2 DEF Batches, ReadInv
<1> QED
  BY <1>6, <1>7, <1>8, <1>9 DEF Batches

LEMMA PipeBatches ==
  ASSUME TypeInv, Batches, EndIsLast, PipeQueue
  PROVE  Batches'
<1>0. block # << >> => pipeState \in {"Started", "Finished"}
  BY DEF TypeInv, PipeInv, PipeTypeOK, Batches, SendInv, WriterStates
<1>1. CASE BeginBlock /\ UNCHANGED callVars
  <2>1. pipeState # "Paused" /\ UNCHANGED <<pipeState, passed>>
    BY <1>1 DEF BeginBlock, TypeInv, PipeInv, PipeTypeOK, PipeCorrect
  <2> QED
    BY <1>1, <2>1, ZenonT(30) DEF callVars, Batches, StartInv, SendInv, OrderInv, ReadInv, Joined, Over
<1>2. CASE CheckFinished /\ UNCHANGED callVars
  <2>1. UNCHANGED <<pipeState, passed>> /\ block' \in {block, << >>}
    BY <1>2 DEF CheckFinished
  <2> QED
    BY <1>2, <2>1, ZenonT(30) DEF callVars, Batches, StartInv, SendInv, OrderInv, ReadInv, Joined, Over
<1>3. CASE block # << >> /\ block' = << >> /\ UNCHANGED <<pipeState, callVars>> /\ (Over \/ UNCHANGED passed)
  <2>1. Joined
    BY <1>0, <1>3 DEF Batches, StartInv
  <2> QED
    BY <1>3, <2>1, ZenonT(30) DEF callVars, Batches, StartInv, SendInv, OrderInv, ReadInv, Joined, Over
<1>4. CASE writeValue
  <2>1. /\ block # << >> /\ block # <<EOS>> /\ block' = << >>
        /\ Block("send", Head(block)).do = "send" /\ Block("send", Head(block)).arg = Head(block)
    BY <1>4 DEF writeValue, RunValue, Block
  <2>2. CASE grpcCall.state = "Finished"
    <3>1. Over /\ UNCHANGED <<pipeState, callVars>>
      BY <1>0, <1>4, <2>1, <2>2 DEF writeValue, RunValue, Batches, StartInv
    <3> QED
      BY <1>3, <2>1, <3>1
  <2>3. CASE grpcCall.state # "Finished" /\ pipeState = "Finished"
    <3>1. UNCHANGED <<pipeState, passed, callVars>>
      BY <1>4, <2>3 DEF writeValue, RunValue, PassTo, callVars
    <3> QED
      BY <1>3, <2>1, <3>1
  <2>4. CASE grpcCall.state # "Finished" /\ pipeState = "Started"
    <3>1. pipeWriteable
      BY <2>4 DEF TypeInv, PipeInv
    <3>2. /\ passed' = passed \o block /\ pipeState' = "Paused"
          /\ PassTo(Block("send", Head(block)))
      BY <1>4, <2>4, <3>1 DEF writeValue, RunValue
    <3>3. Block("send", Head(block)) \in CallBlocks
      BY <2>1, OneBlock, CallBlockTypes DEF Blocks
    <3> QED
      BY <2>1, <2>4, <3>2, <3>3, PassBatches DEF Requests
  <2> QED
    BY <1>0, <2>1, <2>2, <2>3, <2>4
<1>5. CASE writesFinishedWithError
  <2>1. /\ block = <<EOS>> /\ block # << >> /\ block' = << >> /\ Head(block) = EOS
        /\ UNCHANGED pipeState
    BY <1>5 DEF writesFinishedWithError, PassFinished
  <2>2. CASE pipeState = "Finished"
    <3>1. ~pipeWriteable
      BY <2>2 DEF TypeInv, PipeInv
    <3>2. UNCHANGED <<passed, callVars>>
      BY <1>5, <3>1 DEF writesFinishedWithError, PassFinished, PassTo, callVars
    <3> QED
      BY <1>3, <2>1, <3>2
  <2>3. CASE pipeState = "Started"
    <3>1. pipeWriteable
      BY <2>3 DEF TypeInv, PipeInv
    <3>2. passed' = passed \o block /\ PassTo(Block("sendClose", EOS))
      BY <1>5, <3>1 DEF writesFinishedWithError, PassFinished
    <3>3. /\ Block("sendClose", EOS) \in CallBlocks
          /\ Block("sendClose", EOS).do = "sendClose" /\ Block("sendClose", EOS).arg = Head(block)
      BY <2>1, CallBlockTypes DEF Block
    <3> QED
      BY <2>1, <2>3, <3>2, <3>3, PassBatches DEF Requests
  <2> QED
    BY <1>0, <2>1, <2>2, <2>3
<1> QED
  BY <1>1, <1>2, <1>4, <1>5 DEF PipeQueue

(* Before a message that was passed on there is no end of the stream.      *)
LEMMA SentBeforeEnd ==
  ASSUME TypeInv, EndIsLast, NEW t \in Seq(Blocks), NEW v \in Values, passed = Append(t, v)
  PROVE  EOS \notin Range(passed)
<1>1. /\ passed \in Seq(Blocks) /\ written \in Seq(Blocks) /\ IsStartOf(passed, written)
      /\ v \in Blocks /\ v # EOS
  BY EOSAssumption DEF TypeInv, PipeInv, PipeTypeOK, PipeCorrect, Blocks
<1>2. /\ Len(t) \in Nat /\ Len(passed) = Len(t) + 1 /\ passed[Len(t) + 1] = v
      /\ Len(written) \in Nat /\ DOMAIN passed = 1..Len(passed)
  BY <1>1
<1>3. Len(passed) <= Len(written) /\ \A i \in 1..Len(passed) : passed[i] = written[i]
  BY <1>1 DEF IsStartOf
<1>4. ASSUME NEW i \in 1..Len(passed) PROVE passed[i] # EOS
  <2>1. CASE i = Len(t) + 1
    BY <1>1, <1>2, <2>1
  <2>2. CASE i # Len(t) + 1
    <3>1. i \in 1..(Len(written) - 1)
      BY <1>2, <1>3, <2>2
    <3> QED
      BY <1>3, <3>1 DEF EndIsLast
  <2> QED
    BY <2>1, <2>2
<1> QED
  BY <1>2, <1>4 DEF Range

(* The callQueue gives its first batch to the core.                        *)
LEMMA CallQueueBatches ==
  ASSUME TypeInv, Batches, EndIsLast, CallQueue
  PROVE  Batches'
<1> DEFINE b == Head(callQueue)
<1>1. /\ callQueue \in Seq(CallBlocks) /\ callQueue # << >> /\ callQueue' = Tail(callQueue)
      /\ b \in CallBlocks /\ core \in Cores
  BY DEF CallQueue, TypeInv, PartTypes
<1>2. b.do \in {"recvMetadata", "recvStatus", "read", "send", "sendClose"}
  BY <1>1 DEF CallBlocks
<1>3. UNCHANGED <<pipeState, block, passed, internal, grpcCall, dispatchQueue, thread>>
  BY DEF CallQueue, pipeVars
<1>4. core' = IF core.connected THEN startBatch(b) ELSE core
  BY DEF CallQueue
<1>5. Joined
  BY <1>1 DEF Batches, StartInv
<1>6. ASSUME NEW K
      PROVE  /\ Has(callQueue, K) <=> b.do \in K \/ Has(callQueue', K)
             /\ Once(callQueue, K) => Once(callQueue', K)
             /\ Once(callQueue, K) /\ b.do \in K => ~Has(callQueue', K)
  BY <1>1, OnTail
<1>7. /\ Completes(callQueue, Requests, core.sent, passed) => Completes(callQueue', Requests, core.sent, passed)
      /\ Completes(callQueue, Requests, core.sent, passed) /\ b.do \in Requests
           => passed = Append(core.sent, b.arg)
  BY <1>1, CompletesTail
<1> HIDE DEF b
<1>8. UNCHANGED <<core.connected, core.broken>>
  BY <1>1, <1>4 DEF startBatch, Cores
<1>9. StartInv'
  <2>1. /\ b.do # "recvMetadata" => UNCHANGED core.metadata
        /\ b.do # "recvStatus" => UNCHANGED core.status
        /\ b.do = "recvMetadata" => ~Has(callQueue', {"recvMetadata"})
        /\ b.do = "recvStatus" => core.status = "none" /\ ~Has(callQueue', {"recvStatus"})
    BY <1>1, <1>4, <1>6 DEF startBatch, Cores, Batches, StartInv
  <2>2. core.status \in {"ok", "error"} => core'.status = core.status
    BY <2>1
  <2> QED
    BY <1>3, <1>5, <1>6, <1>8, <2>1, <2>2, ZenonT(30) DEF Batches, StartInv, Joined, Over
<1>10. SendInv'
  <2>1. core'.send = IF core.connected /\ b.do = "send" THEN core.send + 1 ELSE core.send
    BY <1>1, <1>2, <1>4 DEF startBatch, Cores
  <2>2. core.send \in Nat
    BY <1>1 DEF Cores
  <2> QED
    BY <1>3, <1>6, <2>1, <2>2 DEF Batches, SendInv
<1>11. ReadInv'
  <2>1. core'.receive = IF core.connected /\ b.do = "read" THEN core.receive + 1 ELSE core.receive
    BY <1>1, <1>2, <1>4 DEF startBatch, Cores
  <2>2. core.receive \in Nat
    BY <1>1 DEF Cores
  <2>3. /\ core'.metadata = IF core.connected /\ b.do = "recvMetadata" THEN "out" ELSE core.metadata
        /\ b.do = "recvMetadata" => core.metadata = "none"
    BY <1>1, <1>2, <1>4, <1>6 DEF startBatch, Cores, Batches, StartInv
  <2> QED
    BY <1>3, <1>6, <2>1, <2>2, <2>3 DEF Batches, ReadInv
<1>12. OrderInv'
  <2> SUFFICES ASSUME ~Over' PROVE OrderInv'
    BY DEF OrderInv
  <2>1. ~Over /\ core.connected
    <3>1. core.status \in {"ok", "error"} => core'.status = core.status
      BY <1>1, <1>4, <1>6 DEF startBatch, Cores, Batches, StartInv
    <3> QED
      BY <1>5, <1>8, <3>1 DEF Over, Joined
  <2>2. core.send \in Nat /\ core.sent \in Seq(Blocks)
    BY <1>1 DEF Cores
  <2>3. CASE b.do \in Requests
    <3>1. /\ passed = Append(core.sent, b.arg) /\ ~Has(callQueue', Requests)
          /\ Once(callQueue', Requests) /\ ~(core.send > 0)
      BY <1>6, <1>7, <2>1, <2>3 DEF Batches, OrderInv
    <3>2. core'.sent = passed
      BY <1>1, <1>2, <1>4, <2>1, <2>3, <3>1 DEF startBatch, Cores, Requests
    <3>3. CASE b.do = "send"
      <4>1. b.arg \in Values
        BY <1>1, <3>3 DEF CallBlocks
      <4>2. EOS \notin Range(core'.sent)
        BY <2>2, <3>1, <3>2, <4>1, SentBeforeEnd, SMTT(20)
      <4> QED
        BY <1>3, <3>1, <3>2, <4>2, CompletesNone DEF OrderInv
    <3>4. CASE b.do # "send"
      <4>1. core'.send = core.send
        BY <1>1, <1>2, <1>4, <3>4 DEF startBatch, Cores
      <4> QED
        BY <1>3, <3>1, <3>2, <4>1, CompletesNone DEF OrderInv
    <3> QED
      BY <3>3, <3>4
  <2>4. CASE b.do \notin Requests
    <3>1. UNCHANGED <<core.sent, core.send>>
      BY <1>1, <1>2, <1>4, <2>4 DEF startBatch, Cores, Requests
    <3> QED
      BY <1>3, <1>6, <1>7, <2>1, <2>4, <3>1 DEF Batches, OrderInv
  <2> QED
    BY <2>3, <2>4
<1> QED
  BY <1>9, <1>10, <1>11, <1>12 DEF Batches

-----------------------------------------------------------------------------
(* The core ends a batch, or loses its channel.                            *)
LEMMA MetadataBatches ==
  ASSUME TypeInv, Batches, MetadataDone
  PROVE  Batches'
<1> DEFINE g == [grpcCall EXCEPT !.headers = TRUE, !.pendingCoreRead = FALSE]
<1>1. g \in GrpcCalls /\ g.state = grpcCall.state /\ ~g.pendingCoreRead
  BY ZenonT(30) DEF TypeInv, PartTypes, GrpcCalls
<1>2. maybeStartNextRead(g) /\ core.metadata = "out"
  BY DEF MetadataDone
<1> HIDE DEF g
<1>3. /\ UNCHANGED <<core.connected, core.broken, core.sent, core.send, core.receive, core.status>>
      /\ core'.metadata = "done"
  BY DEF MetadataDone, TypeInv, PartTypes, Cores
<1>4. UNCHANGED <<thread, pipeState, block, passed, internal, dispatchQueue>>
  BY DEF MetadataDone, pipeVars
<1>5. /\ Joined /\ core.receive = 0
      /\ ~Has(callQueue, {"read"}) /\ ~Has(dispatchQueue, {"value"})
  <2>1. core.metadata # "done" /\ core.metadata # "none"
    BY <1>2
  <2> QED
    BY <2>1, OneRead, Zenon
<1>6. StartInv' /\ SendInv' /\ OrderInv'
  BY <1>1, <1>2, <1>3, <1>4, <1>5, ReadBatches, ZenonT(30)
<1>7. ReadInv'
  BY <1>1, <1>2, <1>3, <1>4, <1>5, NextRead, ReadQueued, ZenonT(30) DEF Batches, ReadInv
<1> QED
  BY <1>6, <1>7 DEF Batches

LEMMA SendBatches ==
  ASSUME TypeInv, Batches, SendDone
  PROVE  Batches'
<1>1. /\ UNCHANGED <<thread, block, passed, internal, grpcCall, callQueue>>
      /\ pipeState' = Manual("Started")
  BY DEF SendDone, SetState
<1>2. NoNewValue
  <2>1. Block("didWrite", 0) \in DispatchBlocks /\ Block("didWrite", 0).do # "value"
    BY BlockTypes DEF Block
  <2> QED
    BY <2>1, AppendHasNoNew DEF SendDone
<1>3. /\ UNCHANGED <<core.connected, core.broken, core.sent, core.metadata, core.receive, core.status>>
      /\ core.send \in Nat /\ core.send > 0 /\ core'.send = core.send - 1
  BY DEF SendDone, TypeInv, PartTypes, Cores
<1>4. Joined /\ core.send = 1 /\ core'.send = 0 /\ ~Has(callQueue, {"send"})
  <2>1. core.send <= 1 /\ (Has(callQueue, {"send"}) => core.send = 0)
    BY ZenonT(30) DEF Batches, SendInv
  <2>2. ~Joined => core.send = 0
    BY ZenonT(30) DEF Batches, StartInv
  <2> HIDE DEF Joined
  <2> QED
    BY <1>3, <2>1, <2>2
<1>5. StartInv'
  BY <1>1, <1>3, <1>4, ZenonT(30) DEF Batches, StartInv, Joined, Over, Manual
<1>6. SendInv'
  BY <1>1, <1>4 DEF Batches, SendInv, Manual
<1>7. OrderInv'
  BY <1>1, <1>3, <1>4, ZenonT(30) DEF Batches, OrderInv, Over
<1>8. ReadInv'
  BY <1>1, <1>2, <1>3, ZenonT(30) DEF Batches, ReadInv, NoNewValue
<1> QED
  BY <1>5, <1>6, <1>7, <1>8 DEF Batches

LEMMA MessageBatches ==
  ASSUME TypeInv, Batches, MessageDone
  PROVE  Batches'
<1>1. UNCHANGED <<thread, pipeState, block, passed, internal, grpcCall, callQueue>>
  BY DEF MessageDone, pipeVars
<1>2. /\ UNCHANGED <<core.connected, core.broken, core.sent, core.metadata, core.send, core.status>>
      /\ core.receive \in Nat /\ core.receive > 0 /\ core'.receive = core.receive - 1
  BY DEF MessageDone, MessageCanArrive, TypeInv, PartTypes, Cores
<1>3. StartInv'
  <2>1. Joined
    <3>1. ~Joined => core.receive = 0
      BY ZenonT(30) DEF Batches, StartInv
    <3> QED
      BY <1>2, <3>1
  <2> QED
    BY <1>1, <1>2, <2>1, ZenonT(30) DEF Batches, StartInv, Joined, Over
<1>4. SendInv' /\ OrderInv'
  BY <1>1, <1>2, ZenonT(30) DEF Batches, SendInv, OrderInv, Over
<1>5. /\ core'.receive = 0 /\ core.metadata = "done" /\ grpcCall.pendingCoreRead
      /\ ~Has(dispatchQueue, {"value"}) /\ ~Has(callQueue, {"read"})
  <2>1. core'.receive = 0
    BY <1>2, OneRead
  <2> QED
    BY <1>2, <2>1, OneRead, Zenon
<1>6. Once(dispatchQueue', {"value"})
  <2> DEFINE b == Block("value", core.received + 1)
  <2>1. b \in DispatchBlocks /\ dispatchQueue \in Seq(DispatchBlocks) /\ dispatchQueue' = Append(dispatchQueue, b)
    BY BlockTypes DEF MessageDone, TypeInv, CallInv
  <2>2. Once(dispatchQueue, {"value"})
    BY OneRead, Zenon
  <2> HIDE DEF b
  <2> QED
    BY <1>5, <2>1, <2>2, OnAppend
<1>7. Once(callQueue, {"read"})
  BY OneRead, Zenon
<1>8. ReadInv'
  <2>1. core'.receive <= 1 /\ ~(core'.receive > 0)
    BY <1>5
  <2>2. /\ Once(callQueue', {"read"}) /\ ~Has(callQueue', {"read"})
        /\ grpcCall'.pendingCoreRead /\ core'.metadata = "done"
    BY <1>1, <1>2, <1>5, <1>7, Zenon
  <2> QED
    BY <1>6, <2>1, <2>2, Zenon DEF ReadInv
<1> QED
  BY <1>3, <1>4, <1>8 DEF Batches

(* The GRPCCall is finished by what the core reports, and the RPC is over. *)
LEMMA EndBatches ==
  ASSUME TypeInv, Batches,
         NoNewValue, grpcCall'.state = "Finished", thread'.network = "finishWriter",
         UNCHANGED <<thread.dispatch, thread.token, pipeState, block, passed, internal, callQueue>>,
         UNCHANGED <<core.connected, core.sent, core.metadata, core.send>>,
         core.metadata # "none" \/ core.status # "none",
         core'.status = core.status \/ core.status = "out",
         core.broken => core'.broken,
         Over', ReadInv'
  PROVE  Batches'
<1>1. Joined /\ internal.started /\ (core.status = "out" => ~Has(callQueue, {"recvStatus"}))
  BY DEF Batches, StartInv
<1>2. StartInv'
  BY <1>1 DEF Batches, StartInv, Joined
<1>3. SendInv' /\ OrderInv'
  BY Zenon DEF Batches, SendInv, OrderInv
<1> QED
  BY <1>2, <1>3 DEF Batches

LEMMA EndingBatches ==
  ASSUME TypeInv, Batches, MessageTooLarge \/ \E status \in {"ok", "error"} : StatusDone(status)
  PROVE  Batches'
<1>1. UNCHANGED <<pipeState, block, passed, internal, callQueue>>
  BY DEF MessageTooLarge, StatusDone, pipeVars
<1>2. thread'.network = "finishWriter" /\ UNCHANGED <<thread.dispatch, thread.token>>
  BY DEF MessageTooLarge, StatusDone, TypeInv, PartTypes, Threads
<1>3. CASE MessageTooLarge
  <2>1. /\ UNCHANGED <<core.connected, core.sent, core.metadata, core.send, core.status>>
        /\ core.receive \in Nat /\ core.receive > 0 /\ core'.receive = core.receive - 1
        /\ core'.broken <=> core.broken \/ core.connected
    BY <1>3 DEF MessageTooLarge, MessageCanArrive, TypeInv, PartTypes, Cores
  <2>2. core'.broken /\ core.metadata = "done"
    BY <2>1 DEF Batches, StartInv, ReadInv, Joined
  <2>3. NoNewValue
    BY <1>3, FinishHasNoNew DEF MessageTooLarge, Statuses
  <2>4. grpcCall'.state = "Finished"
    BY <1>3 DEF MessageTooLarge, finishWithError, TypeInv, PartTypes, GrpcCalls
  <2>5. ReadInv'
    <3>1. /\ Once(callQueue, {"read"}) /\ Once(dispatchQueue, {"value"}) /\ core.receive <= 1
          /\ ~Has(callQueue, {"read"}) /\ ~Has(dispatchQueue, {"value"})
      <4>1. core.receive <= 1
        BY OneRead
      <4> QED
        BY <2>1, <4>1, OneRead, Zenon
    <3>2. core'.receive = 0 /\ core'.metadata = "done"
      BY <2>1, <2>2, <3>1
    <3> QED
      BY <1>1, <2>3, <3>1, <3>2 DEF ReadInv, NoNewValue
  <2> QED
    BY <1>1, <1>2, <2>1, <2>2, <2>3, <2>4, <2>5, EndBatches, ZenonT(30) DEF Over
<1>4. ASSUME NEW status \in {"ok", "error"}, StatusDone(status) PROVE Batches'
  <2>1. /\ UNCHANGED <<core.connected, core.broken, core.sent, core.metadata, core.send, core.receive>>
        /\ core.status = "out" /\ core'.status = status
    BY <1>4 DEF StatusDone, TypeInv, PartTypes, Cores
  <2>2. NoNewValue
    BY <1>4, FinishHasNoNew DEF StatusDone, Statuses
  <2>3. grpcCall'.state = "Finished" /\ UNCHANGED grpcCall.pendingCoreRead
    BY <1>4 DEF StatusDone, finishWithError, TypeInv, PartTypes, GrpcCalls
  <2>4. ReadInv'
    BY <1>1, <2>1, <2>2, <2>3 DEF Batches, ReadInv, NoNewValue
  <2> QED
    BY <1>1, <1>2, <2>1, <2>2, <2>3, <2>4, EndBatches DEF Over
<1> QED
  BY <1>3, <1>4

LEMMA DisconnectBatches ==
  ASSUME TypeInv, Batches, channelDisconnected
  PROVE  Batches'
<1>1. UNCHANGED <<thread, pipeState, block, passed, internal, grpcCall, callQueue, dispatchQueue>>
  BY DEF channelDisconnected, pipeVars
<1>2. /\ UNCHANGED <<core.sent, core.metadata, core.send, core.receive, core.status>>
      /\ core'.broken /\ core.connected
  BY DEF channelDisconnected, TypeInv, PartTypes, Cores
<1>3. StartInv'
  BY <1>1, <1>2, ZenonT(30) DEF Batches, StartInv, Joined, Over
<1>4. SendInv' /\ OrderInv' /\ ReadInv'
  BY <1>1, <1>2, ZenonT(30) DEF Batches, SendInv, OrderInv, ReadInv, Over
<1> QED
  BY <1>3, <1>4 DEF Batches

-----------------------------------------------------------------------------
(* Nothing is written after the end of the stream: the pipe's contract.    *)
LEMMA EndStaysLast ==
  ASSUME TypeInv, EndIsLast, [PipeNext]_pipeVars
  PROVE  EndIsLast'
<1>1. CASE UNCHANGED written
  BY <1>1 DEF EndIsLast
<1>2. ASSUME NEW x \in Values \union {EOS}, EOS \notin Range(written), Write(x)
      PROVE  EndIsLast'
  <2>1. written \in Seq(Blocks) /\ x \in Blocks /\ written' = Append(written, x)
    BY <1>2 DEF Write, TypeInv, CallInv, Blocks
  <2>2. /\ Len(written) \in Nat /\ Len(written') = Len(written) + 1
        /\ \A i \in 1..Len(written) : written'[i] = written[i]
        /\ DOMAIN written = 1..Len(written)
    BY <2>1
  <2>3. \A i \in 1..Len(written) : written[i] # EOS
    BY <1>2, <2>2 DEF Range
  <2>4. Len(written') - 1 = Len(written)
    BY <2>2
  <2> QED
    BY <2>2, <2>3, <2>4 DEF EndIsLast
<1>3. CASE \/ BeginBlock \/ \E pauses \in BOOLEAN : RunValue(pauses)
           \/ CheckFinished \/ PassFinished
  BY <1>1, <1>3 DEF BeginBlock, RunValue, CheckFinished, PassFinished
<1>4. CASE \/ \E new \in {"Started", "Paused", "Finished"} : SetState(new)
           \/ StartWithWriteable \/ ResumeStarted
  BY <1>1, <1>4 DEF SetState, StartWithWriteable, ResumeStarted
<1> QED
  BY <1>1, <1>2, <1>3, <1>4 DEF PipeNext, pipeVars

LEMMA BatchStep == BatchInv /\ [CallNext]_vars => BatchInv'
<1> SUFFICES ASSUME BatchInv, [CallNext]_vars PROVE BatchInv'
  OBVIOUS
<1>1. TypeInv /\ Batches /\ EndIsLast
  BY DEF BatchInv, Batches
<1>2. TypeInv'
  BY <1>1, TypeStep
<1>3. EndIsLast'
  <2>1. [PipeNext]_pipeVars
    BY <1>1, CallStep DEF Goal, TypeInv
  <2> QED
    BY <1>1, <2>1, EndStaysLast
<1>4. Batches'
  <2>1. CASE UNCHANGED vars
    BY <1>1, <2>1, ZenonT(30) DEF vars, pipeVars, callVars, Batches, StartInv, SendInv, OrderInv,
                      ReadInv, Joined, Over
  <2>2. CASE Dispatch
    <3>1. \/ DropCommand \/ Start \/ StartWriter("dispatch") \/ writeData \/ finish
          \/ receiveNextMessages \/ cancel \/ FinishWriter("dispatch")
          \/ WriteResponse \/ Complete \/ Forward \/ ForwardClose
      BY <2>2 DEF Dispatch
    <3> QED
      BY <1>1, <3>1, StartBatches, StartWriterBatches, FinishWriterBatches, CommandBatches,
         ReceiveBatches, CancelBatches, ResponseBatches, CompleteBatches
  <2>3. CASE Network
    BY <1>1, <2>3, MetadataBatches, SendBatches, MessageBatches, EndingBatches,
       FinishWriterBatches
    DEF Network
  <2>4. CASE User \/ TokenArrives \/ StartWriter("token")
    BY <1>1, <2>4, UserBatches, TokenBatches, StartWriterBatches
  <2>5. CASE PipeQueue \/ CallQueue \/ channelDisconnected
    BY <1>1, <2>5, PipeBatches, CallQueueBatches, DisconnectBatches
  <2> QED
    BY <2>1, <2>2, <2>3, <2>4, <2>5 DEF CallNext
<1> QED
  BY <1>2, <1>3, <1>4 DEF BatchInv, Batches

LEMMA BatchInitially == CallInit => BatchInv
<1> SUFFICES ASSUME CallInit PROVE BatchInv
  OBVIOUS
<1>1. TypeInv
  BY TypeInitially
<1>2. /\ callQueue = << >> /\ dispatchQueue = << >> /\ core.sent = << >> /\ core.send = 0
      /\ core.receive = 0 /\ core.metadata = "none" /\ core.status = "none"
      /\ ~core.connected /\ ~core.broken /\ ~internal.call
      /\ grpcCall.state = "NotStarted" /\ grpcCall.pendingCoreRead
      /\ thread.token = "idle" /\ thread.dispatch = "idle" /\ thread.network = "idle"
  BY ZenonT(30) DEF CallInit
<1>3. pipeState = "NotStarted" /\ passed = << >> /\ written = << >> /\ block = << >>
  BY ZenonT(30) DEF CallInit, PipeInit
<1>4. StartInv
  BY <1>2, <1>3, OnEmpty DEF StartInv, Joined
<1>5. SendInv
  BY <1>2, <1>3, OnEmpty DEF SendInv
<1>6. EndIsLast
  BY <1>3 DEF EndIsLast
<1>7. OrderInv
  <2>1. Once(callQueue, Requests) /\ ~Has(callQueue, Requests)
    BY <1>2, OnEmpty
  <2>2. passed = core.sent /\ core.send = 0
    BY <1>2, <1>3
  <2>3. Completes(callQueue, Requests, core.sent, passed)
    BY <2>1, <2>2, CompletesNone
  <2> QED
    BY <2>1, <2>2, <2>3 DEF OrderInv
<1>8. ReadInv
  BY <1>2, OnEmpty DEF ReadInv
<1> QED
  BY <1>1, <1>4, <1>5, <1>6, <1>7, <1>8 DEF BatchInv

LEMMA BatchInvariant == CallSpec => []BatchInv
BY BatchInitially, BatchStep, PTL DEF CallSpec

(* GRPCCall starts its batches as its comments promise, however the        *)
(* threads, the token and a disconnect interleave: one SEND_MESSAGE and one *)
(* RECV_MESSAGE at a time, and requests in the order they were written.    *)
THEOREM BatchesCorrect == CallSpec => []BatchesInOrder
<1>1. BatchInv => BatchesInOrder
  <2> SUFFICES ASSUME BatchInv PROVE BatchesInOrder
    OBVIOUS
  <2>1. core.send <= 1 /\ core.receive <= 1
    BY DEF BatchInv, SendInv, ReadInv
  <2>2. ASSUME ~Over PROVE IsStartOf(core.sent, written)
    <3>1. /\ passed \in Seq(Blocks) /\ written \in Seq(Blocks) /\ IsStartOf(passed, written)
          /\ core.sent \in Seq(Blocks)
      BY DEF BatchInv, TypeInv, PipeInv, PipeTypeOK, PipeCorrect, PartTypes, Cores
    <3>2. CASE passed = core.sent
      BY <3>1, <3>2
    <3>3. CASE Has(callQueue, Requests)
      <4>1. PICK i \in DOMAIN callQueue : callQueue[i].do \in Requests
        BY <3>3 DEF Has
      <4>2. passed = Append(core.sent, callQueue[i].arg)
        BY <2>2, <4>1 DEF BatchInv, OrderInv, Completes
      <4>3. callQueue[i].arg \in Blocks
        BY <4>1 DEF BatchInv, TypeInv, PartTypes, CallBlocks, Requests, Blocks
      <4> QED
        BY <3>1, <4>2, <4>3, StartWithoutLast
    <3> QED
      BY <2>2, <3>2, <3>3 DEF BatchInv, OrderInv
  <2>3. ~Over /\ core.send > 0 => EOS \notin Range(core.sent)
    BY DEF BatchInv, OrderInv
  <2> QED
    BY <2>1, <2>2, <2>3 DEF BatchesInOrder
<1> QED
  BY <1>1, BatchInvariant, PTL

=============================================================================
