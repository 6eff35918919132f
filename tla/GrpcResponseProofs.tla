------------------------- MODULE GrpcResponseProofs -------------------------
(***************************************************************************)
(* What the handler in front of the transport hears, for every scenario:   *)
(* CallSpec implements ResponseContract.                                   *)
(***************************************************************************)
EXTENDS GrpcBatchProofs

HeardEvents ==
  [event : {"metadata", "data", "didWrite"}, arg : Nat]
    \union [event : {"close"}, status : Statuses]

Heard(what) == {i \in DOMAIN heard : heard[i].event = what}

(* The messages that the handler was given are the first ones.             *)
Given    == {heard[i].arg : i \in Heard("data")}
Messages == CHOOSE n \in Nat : Given = 1..n

(* The kinds of blocks that the handler's callbacks come from.             *)
Marked == {"value", "complete", "close", "metadata", "data"}

WithArg(n) == {b \in DispatchBlocks : b.arg = n}
Failures   == {b \in DispatchBlocks : b.status # "ok"}

(* The end of the call: one complete makes one close.  A message that the  *)
(* core still reads for a call without an error is in front of it; the     *)
(* others may come after it, and the cancelled writeable drops them.       *)
EndInv ==
  /\ Once(dispatchQueue, {"complete"}) /\ Once(dispatchQueue, {"close"})
  /\ Has(dispatchQueue, {"complete"}) => grpcCall.state = "Finished" /\ ~writeable.finished
  /\ Has(dispatchQueue, {"close"}) => writeable.finished
  /\ writeable.finished => /\ grpcCall.state = "Finished"
                           /\ Has(dispatchQueue, {"value"}) => writeable.cancelled
  /\ ~writeable.cancelled => Before(dispatchQueue, {"value"}, {"complete"})
  /\ writeable.cancelled => /\ grpcCall.state = "Finished"
                            /\ Each(dispatchQueue, {"complete", "close"}, Failures)
  /\ manager.previous => Heard("close") = {}

(* A GRPCCall that has its writeable finishes without an error only with   *)
(* the status of the RPC, after which the core reads no message.           *)
OutcomeInv ==
  /\ Joined => writeable.made
  /\ grpcCall.state = "Finished" /\ writeable.made => writeable.cancelled \/ core.status = "ok"

(* While the handler is there, so is the GRPCCall that holds the headers.  *)
HoldInv == manager.previous /\ internal.started /\ ~writeable.finished => internal.call

(* The initial metadata comes first, and once.                             *)
HeaderInv ==
  /\ core.metadata = "done" => grpcCall.headers
  /\ Once(dispatchQueue, {"metadata"})
  /\ Has(dispatchQueue, {"metadata"}) => Heard("metadata") = {}
  /\ ~internal.published => /\ Heard("metadata") = {}
                            /\ ~Has(dispatchQueue, {"metadata"}) /\ ~Has(dispatchQueue, {"data"})
  /\ manager.previous /\ ((internal.published /\ ~writeable.finished) \/ Has(dispatchQueue, {"data"}))
       => Heard("metadata") # {} \/ Has(dispatchQueue, {"metadata"})
  /\ Before(dispatchQueue, {"metadata"}, {"data"})

(* At most one message is between the core and the handler, and it is the  *)
(* next one.                                                               *)
MessageInv ==
  /\ Messages \in Nat /\ Given = 1..Messages
  /\ Once(dispatchQueue, {"data"})
  /\ Before(dispatchQueue, {"data"}, {"value"}) /\ Before(dispatchQueue, {"data"}, {"close"})
  /\ Each(dispatchQueue, {"value"}, WithArg(core.received))
  /\ manager.previous => /\ Each(dispatchQueue, {"data"}, WithArg(Messages + 1))
                         /\ Has(dispatchQueue, {"data"}) => Messages < core.received
  /\ manager.previous /\ ~writeable.cancelled =>
       core.received = Messages + (IF Has(dispatchQueue, {"data"}) THEN 1 ELSE 0)
                         + (IF Has(dispatchQueue, {"value"}) THEN 1 ELSE 0)

ResponseInv ==
  heard \in Seq(HeardEvents) /\ EndInv /\ HoldInv /\ HeaderInv /\ MessageInv

-----------------------------------------------------------------------------
(* The callbacks.                                                          *)
LEMMA CountUpTo ==
  ASSUME NEW n \in Nat
  PROVE  (CHOOSE m \in Nat : 1..n = 1..m) = n
<1>1. \A m, k \in Nat : m < k => k \in 1..k /\ k \notin 1..m
  OBVIOUS
<1>2. \A m \in Nat : 1..n = 1..m => m = n
  BY <1>1
<1> QED
  BY <1>2

LEMMA MessagesKept ==
  ASSUME ResponseInv, UNCHANGED heard \/ Given' = Given
  PROVE  Messages \in Nat /\ Given = 1..Messages /\ Messages' = Messages /\ Given' = Given
<1>1. Given' = Given
  BY DEF Given, Heard
<1>2. Messages' = Messages
  BY <1>1 DEF Messages
<1> QED
  BY <1>1, <1>2 DEF ResponseInv, MessageInv

LEMMA HeardAppend ==
  ASSUME heard \in Seq(HeardEvents), NEW e \in HeardEvents, heard' = Append(heard, e)
  PROVE  /\ heard' \in Seq(HeardEvents)
         /\ \A what : e.event = what => Heard(what)' # {}
         /\ \A what : e.event # what => Heard(what)' = Heard(what)
         /\ Given' = IF e.event = "data" THEN Given \union {e.arg} ELSE Given
<1> DEFINE n == Len(heard) + 1
<1>1. /\ heard' \in Seq(HeardEvents) /\ n \in Nat /\ DOMAIN heard = 1..Len(heard)
      /\ Len(heard) \in Nat /\ DOMAIN heard' = 1..n
      /\ \A i \in 1..Len(heard) : heard'[i] = heard[i]
      /\ heard'[n] = e
  OBVIOUS
<1>2. n \notin 1..Len(heard) /\ 1..n = 1..Len(heard) \union {n}
  BY <1>1
<1> HIDE DEF n
<1>3. ASSUME NEW what
      PROVE  Heard(what)' = Heard(what) \union (IF e.event = what THEN {n} ELSE {})
  BY <1>1, <1>2 DEF Heard
<1>4. Given' = IF e.event = "data" THEN Given \union {e.arg} ELSE Given
  <2>1. \A i \in Heard("data") : heard'[i] = heard[i]
    BY <1>1 DEF Heard
  <2>2. Heard("data")' = Heard("data") \union (IF e.event = "data" THEN {n} ELSE {})
    BY <1>3
  <2>3. Given' = {heard'[i].arg : i \in Heard("data")'}
    BY DEF Given
  <2>4. CASE e.event = "data"
    <3>1. Given' = {heard'[i].arg : i \in Heard("data")} \union {heard'[n].arg}
      BY <2>2, <2>3, <2>4, Zenon
    <3>2. {heard'[i].arg : i \in Heard("data")} = Given
      BY <2>1, Zenon DEF Given
    <3> QED
      BY <1>1, <2>4, <3>1, <3>2, Zenon
  <2>5. CASE e.event # "data"
    BY <2>1, <2>2, <2>3, <2>5, Zenon DEF Given
  <2> QED
    BY <2>4, <2>5
<1>5. \A what : e.event = what => Heard(what)' # {}
  BY <1>3, Zenon
<1>6. \A what : e.event # what => Heard(what)' = Heard(what)
  BY <1>3, Zenon
<1> QED
  BY <1>1, <1>4, <1>5, <1>6

(* The handler hears nothing that counts, or it hears the close and is     *)
(* gone.                                                                   *)
HeardKept ==
  /\ heard' \in Seq(HeardEvents)
  /\ Heard("metadata")' = Heard("metadata") /\ Given' = Given
  /\ manager'.previous => manager.previous /\ Heard("close")' = Heard("close")

LEMMA CloseHeard ==
  ASSUME heard \in Seq(HeardEvents), ~manager'.previous, NEW status \in Statuses,
         heard' = IF manager.previous THEN Append(heard, Close(status)) ELSE heard
  PROVE  HeardKept
<1>1. Close(status) \in HeardEvents /\ Close(status).event = "close"
  BY DEF Close, HeardEvents
<1>2. CASE heard' = Append(heard, Close(status))
  <2> DEFINE e == Close(status)
  <2>1. e \in HeardEvents /\ e.event # "metadata" /\ heard' = Append(heard, e)
    BY <1>1, <1>2
  <2> HIDE DEF e
  <2>2. /\ heard' \in Seq(HeardEvents) /\ Heard("metadata")' = Heard("metadata")
        /\ Given' = Given
    BY <1>1, <2>1, HeardAppend DEF e
  <2> QED
    BY <2>2 DEF HeardKept
<1>3. CASE heard' = heard
  BY <1>3 DEF HeardKept, Heard, Given
<1> QED
  BY <1>2, <1>3

LEMMA NothingHeard ==
  ASSUME heard \in Seq(HeardEvents), UNCHANGED <<heard, manager>>
  PROVE  HeardKept
BY DEF HeardKept, Heard, Given

-----------------------------------------------------------------------------
(* What keeps the response handlers' blocks as they are on the queue.      *)
AlikeQueue == Alike(Marked, dispatchQueue, dispatchQueue')

(* What the invariant needs of a queue that is alike, kind by kind.        *)
LEMMA AlikeFacts ==
  ASSUME NEW q, NEW p, Alike(Marked, q, p)
  PROVE  /\ Has(p, {"value"}) <=> Has(q, {"value"})
         /\ Has(p, {"complete"}) <=> Has(q, {"complete"})
         /\ Has(p, {"close"}) <=> Has(q, {"close"})
         /\ Has(p, {"metadata"}) <=> Has(q, {"metadata"})
         /\ Has(p, {"data"}) <=> Has(q, {"data"})
         /\ Once(q, {"complete"}) => Once(p, {"complete"})
         /\ Once(q, {"close"}) => Once(p, {"close"})
         /\ Once(q, {"metadata"}) => Once(p, {"metadata"})
         /\ Once(q, {"data"}) => Once(p, {"data"})
         /\ Before(q, {"value"}, {"complete"}) => Before(p, {"value"}, {"complete"})
         /\ Before(q, {"metadata"}, {"data"}) => Before(p, {"metadata"}, {"data"})
         /\ Before(q, {"data"}, {"value"}) => Before(p, {"data"}, {"value"})
         /\ Before(q, {"data"}, {"close"}) => Before(p, {"data"}, {"close"})
         /\ \A S : Each(q, {"complete", "close"}, S) => Each(p, {"complete", "close"}, S)
         /\ \A S : Each(q, {"value"}, S) => Each(p, {"value"}, S)
         /\ \A S : Each(q, {"data"}, S) => Each(p, {"data"}, S)
<1>1. /\ "value" \in Marked /\ "complete" \in Marked /\ "close" \in Marked
      /\ "metadata" \in Marked /\ "data" \in Marked
      /\ {"complete", "close"} \in SUBSET Marked
      /\ {"value"} \in SUBSET Marked /\ {"data"} \in SUBSET Marked
  BY DEF Marked
<1> QED
  BY <1>1, Zenon DEF Alike

LEMMA AlikeResponse ==
  ASSUME ResponseInv, AlikeQueue, HeardKept, UNCHANGED <<writeable.cancelled, writeable.finished>>,
         core'.received = core.received, core'.metadata = "done" => grpcCall'.headers,
         internal'.published = internal.published, HoldInv',
         grpcCall.state = "Finished" => grpcCall'.state = "Finished"
  PROVE  ResponseInv'
<1>1. Messages' = Messages
  BY DEF HeardKept, Messages
<1>2. EndInv'
  BY <1>1, AlikeFacts DEF AlikeQueue, ResponseInv, EndInv, HeardKept
<1>3. HeaderInv'
  BY AlikeFacts DEF AlikeQueue, ResponseInv, HeaderInv, HeardKept
<1>4. MessageInv'
  BY <1>1, AlikeFacts DEF AlikeQueue, ResponseInv, MessageInv, HeardKept, WithArg
<1> QED
  BY <1>2, <1>3, <1>4 DEF ResponseInv, HeardKept

(* finishWithError: adds the complete of a call that was not finished.     *)
LEMMA FinishResponse ==
  ASSUME ResponseInv, HeardKept,
         NEW q \in Seq(DispatchBlocks), Alike(Marked, dispatchQueue, q),
         NEW g \in GrpcCalls, g.state = "Finished" <=> grpcCall.state = "Finished",
         NEW w \in Writeables, w.cancelled = writeable.cancelled, w.finished = writeable.finished,
         NEW status \in Statuses, finishWithError(g, w, status, q),
         core'.received = core.received, core'.metadata = "done" => g.headers,
         internal'.published = internal.published, HoldInv'
  PROVE  ResponseInv'
<1>1. grpcCall'.state = "Finished" /\ grpcCall'.headers = g.headers
  BY DEF finishWithError, GrpcCalls
<1>2. CASE dispatchQueue' = q /\ writeable' = w
  BY <1>1, <1>2, AlikeResponse DEF AlikeQueue
<1>3. CASE /\ g.state # "Finished"
           /\ dispatchQueue' = Append(q, Ending("complete", status))
           /\ writeable' = [w EXCEPT !.cancelled = w.cancelled \/ status # "ok"]
  <2> DEFINE b == Ending("complete", status)
             p == Append(q, b)
  <2>1. b \in DispatchBlocks /\ b.do = "complete" /\ b.status = status
    BY BlockTypes, Zenon DEF Ending
  <2>2. dispatchQueue' = p
    BY <1>3
  <2>3. /\ ~Has(q, {"complete"}) /\ ~Has(q, {"close"})
        /\ ~writeable.cancelled /\ ~writeable.finished
    BY <1>3, AlikeFacts DEF ResponseInv, EndInv
  <2>4. writeable'.finished = writeable.finished /\ (writeable'.cancelled <=> status # "ok")
    BY <1>3, <2>3, Zenon DEF Writeables
  <2>5. ASSUME NEW k, k # "complete"
        PROVE  (Has(p, {k}) <=> Has(q, {k})) /\ (Once(q, {k}) => Once(p, {k}))
    <3>1. b.do \notin {k}
      BY <2>1, <2>5
    <3> HIDE DEF b
    <3> QED
      BY <2>1, <3>1, OnAppend, Zenon
  <2>6. ASSUME NEW k, NEW l, k # "complete", Before(q, {k}, {l})
        PROVE  Before(p, {k}, {l})
    <3>1. b.do \notin {k}
      BY <2>1, <2>6
    <3> HIDE DEF b
    <3> QED
      BY <2>1, <2>6, <3>1, OrderOnAppend, Zenon
  <2>7. ASSUME NEW k, NEW S, k # "complete", Each(q, {k}, S)
        PROVE  Each(p, {k}, S)
    <3>1. b.do \notin {k}
      BY <2>1, <2>7
    <3> HIDE DEF b
    <3> QED
      BY <2>1, <2>7, <3>1, OrderOnAppend, Zenon
  <2>8. Once(p, {"complete"})
    <3>1. Once(q, {"complete"})
      BY <2>3 DEF Has, Once
    <3> HIDE DEF b
    <3> QED
      BY <2>1, <2>3, <3>1, OnAppend, Zenon
  <2>9. status # "ok" => Each(p, {"complete", "close"}, Failures)
    <3>1. ~Has(q, {"complete", "close"})
      BY <2>3 DEF Has
    <3>2. Each(q, {"complete", "close"}, Failures)
      BY <3>1, EachOfNone
    <3>3. status # "ok" => b \in Failures
      BY <2>1 DEF Failures
    <3> HIDE DEF b
    <3> QED
      BY <2>1, <3>2, <3>3, OrderOnAppend, Zenon
  <2> HIDE DEF p, b
  <2>10. Messages' = Messages
    BY DEF HeardKept, Messages
  <2>11. EndInv'
    <3>1. ~Has(p, {"close"}) /\ Once(p, {"close"})
      BY <2>3, <2>5, AlikeFacts, Zenon DEF ResponseInv, EndInv
    <3>2. Before(p, {"value"}, {"complete"})
      BY <2>3, <2>6, AlikeFacts, ZenonT(30) DEF ResponseInv, EndInv
    <3> QED
      BY <1>1, <2>2, <2>3, <2>4, <2>8, <2>9, <2>10, <3>1, <3>2 DEF ResponseInv, EndInv, HeardKept
  <2>12. HeaderInv'
    <3>1. /\ Has(p, {"metadata"}) <=> Has(dispatchQueue, {"metadata"})
          /\ Has(p, {"data"}) <=> Has(dispatchQueue, {"data"})
      BY <2>5, AlikeFacts, Zenon
    <3>2. Once(p, {"metadata"}) /\ Before(p, {"metadata"}, {"data"})
      BY <2>5, <2>6, AlikeFacts, ZenonT(30) DEF ResponseInv, HeaderInv
    <3> QED
      BY <1>1, <2>2, <2>4, <3>1, <3>2 DEF ResponseInv, HeaderInv, HeardKept
  <2>13. MessageInv'
    <3>1. /\ Has(p, {"value"}) <=> Has(dispatchQueue, {"value"})
          /\ Has(p, {"data"}) <=> Has(dispatchQueue, {"data"})
      BY <2>5, AlikeFacts, Zenon
    <3>2. /\ Once(p, {"data"}) /\ Before(p, {"data"}, {"value"}) /\ Before(p, {"data"}, {"close"})
          /\ Each(p, {"value"}, WithArg(core.received))
      BY <2>5, <2>6, <2>7, AlikeFacts, Zenon DEF ResponseInv, MessageInv
    <3>3. manager.previous => Each(p, {"data"}, WithArg(Messages + 1))
      BY <2>7, AlikeFacts, ZenonT(30) DEF ResponseInv, MessageInv
    <3> QED
      BY <2>2, <2>3, <2>10, <3>1, <3>2, <3>3 DEF ResponseInv, MessageInv, HeardKept, WithArg
  <2> QED
    BY <2>11, <2>12, <2>13 DEF ResponseInv, HeardKept
<1> QED
  BY <1>2, <1>3 DEF finishWithError

-----------------------------------------------------------------------------
(* Steps that the response handlers do not notice.                         *)
LEMMA QuietResponse ==
  ASSUME ResponseInv, AlikeQueue, UNCHANGED <<writeable, manager, heard>>,
         UNCHANGED <<internal.published, internal.started, internal.call>>,
         core'.received = core.received, core'.metadata = "done" => grpcCall'.headers,
         grpcCall.state = "Finished" => grpcCall'.state = "Finished"
  PROVE  ResponseInv'
<1>1. HeardKept /\ HoldInv'
  BY NothingHeard DEF ResponseInv, HoldInv
<1> QED
  BY <1>1, AlikeResponse

LEMMA UserResponse ==
  ASSUME TypeInv, ResponseInv, User
  PROVE  ResponseInv'
<1>1. /\ UNCHANGED <<internal, grpcCall, core, writeable, manager, heard>>
      /\ dispatchQueue \in Seq(DispatchBlocks)
  BY DEF User, UserCalls, UserCancels, UserAsks, TypeInv, CallInv
<1>2. AlikeQueue
  <2>1. CASE UserCancels
    <3> DEFINE b == Block("cancel", 0)
    <3>1. /\ b \in DispatchBlocks /\ b.do \notin Marked
          /\ dispatchQueue' = Append(dispatchQueue, b)
      BY <2>1, BlockTypes DEF Block, Marked, UserCancels, UserAsks
    <3> HIDE DEF b
    <3> QED
      BY <1>1, <3>1, AlikeAppend DEF AlikeQueue
  <2>2. CASE UserCalls
    <3> DEFINE b == scenario.script[user.asked + 1]
    <3>1. /\ scenario.script \in Seq(UserBlocks) /\ user.asked \in Nat
          /\ user.asked + 1 <= Len(scenario.script)
      BY <2>2, ScenariosAssumption DEF TypeInv, CallInv, UserCalls
    <3>2. b \in UserBlocks
      BY <3>1
    <3>3. b \in DispatchBlocks /\ b.do \notin Marked
      BY <3>2 DEF DispatchBlocks, UserBlocks, Marked
    <3>4. dispatchQueue' = Append(dispatchQueue, b)
      BY <2>2 DEF UserCalls, UserAsks
    <3> HIDE DEF b
    <3> QED
      BY <1>1, <3>3, <3>4, AlikeAppend DEF AlikeQueue
  <2> QED
    BY <2>1, <2>2 DEF User
<1> QED
  BY <1>1, <1>2, QuietResponse DEF ResponseInv, HeaderInv

LEMMA SendResponse ==
  ASSUME TypeInv, ResponseInv, SendDone
  PROVE  ResponseInv'
<1> DEFINE b == Block("didWrite", 0)
<1>1. /\ UNCHANGED <<internal, grpcCall, writeable, manager, heard>>
      /\ UNCHANGED <<core.received, core.metadata>>
  BY DEF SendDone, TypeInv, PartTypes, Cores
<1>2. /\ dispatchQueue \in Seq(DispatchBlocks) /\ dispatchQueue' = Append(dispatchQueue, b)
      /\ b \in DispatchBlocks /\ b.do \notin Marked
  BY BlockTypes DEF SendDone, TypeInv, CallInv, Block, Marked
<1> HIDE DEF b
<1>3. AlikeQueue
  BY <1>2, AlikeAppend DEF AlikeQueue
<1> QED
  BY <1>1, <1>3, QuietResponse DEF ResponseInv, HeaderInv

(* The other queues and threads.                                           *)
LEMMA ThreadResponse ==
  ASSUME TypeInv, ResponseInv,
         \/ \E who \in {"dispatch", "token"} : StartWriter(who)
         \/ \E who \in {"dispatch", "network"} : FinishWriter(who)
         \/ PipeQueue \/ channelDisconnected \/ CallQueue
  PROVE  ResponseInv'
<1>1. UNCHANGED <<internal, grpcCall, writeable, manager, heard, dispatchQueue>>
  BY Zenon DEF StartWriter, FinishWriter, PipeQueue, writeValue, writesFinishedWithError, PassTo,
         channelDisconnected, CallQueue, callVars
<1>2. AlikeQueue
  BY <1>1, AlikeSelf DEF AlikeQueue
<1>3. core'.received = core.received /\ (core'.metadata = "done" => core.metadata = "done")
  <2>1. core \in Cores
    BY DEF TypeInv, PartTypes
  <2>2. CASE UNCHANGED core
    BY <2>2
  <2>3. CASE channelDisconnected
    BY <2>1, <2>3 DEF channelDisconnected, Cores
  <2>4. CASE CallQueue
    <3> DEFINE b == Head(callQueue)
    <3>1. core' = core \/ core' = startBatch(b)
      BY <2>4 DEF CallQueue
    <3> HIDE DEF b
    <3> QED
      BY <2>1, <3>1, ZenonT(30) DEF startBatch, Cores
  <2> QED
    BY <2>2, <2>3, <2>4, Zenon
    DEF StartWriter, FinishWriter, PipeQueue, writeValue, writesFinishedWithError, PassTo, callVars
<1> QED
  BY <1>1, <1>2, <1>3, QuietResponse DEF ResponseInv, HeaderInv

LEMMA RestAlike ==
  ASSUME TypeInv, NEW what, Runs(what), what \notin Marked
  PROVE  Alike(Marked, dispatchQueue, Rest)
<1>1. /\ dispatchQueue \in Seq(DispatchBlocks) /\ dispatchQueue # << >>
      /\ Head(dispatchQueue).do \notin Marked
  BY DEF TypeInv, CallInv, Runs
<1> QED
  BY <1>1, AlikeTail DEF Rest

LEMMA CommandResponse ==
  ASSUME TypeInv, ResponseInv, DropCommand \/ writeData \/ finish \/ receiveNextMessages
  PROVE  ResponseInv'
<1>1. /\ UNCHANGED <<core, writeable, manager, heard>> /\ dispatchQueue' = Rest
      /\ \E what \in Commands : Runs(what)
  BY DEF DropCommand, writeData, finish, receiveNextMessages, Commands
<1>2. UNCHANGED <<internal.published, internal.started, internal.call>>
  BY Zenon DEF DropCommand, writeData, finish, receiveNextMessages, TypeInv, PartTypes, Internals
<1>3. AlikeQueue
  BY <1>1, RestAlike DEF AlikeQueue, Commands, Marked
<1>4. UNCHANGED <<grpcCall.state, grpcCall.headers>>
  BY Zenon DEF DropCommand, writeData, finish, receiveNextMessages, maybeStartNextRead,
         TypeInv, PartTypes, GrpcCalls
<1> QED
  BY <1>1, <1>2, <1>3, <1>4, QuietResponse DEF ResponseInv, HeaderInv

LEMMA MetadataResponse ==
  ASSUME TypeInv, ResponseInv, MetadataDone
  PROVE  ResponseInv'
<1> DEFINE g == [grpcCall EXCEPT !.headers = TRUE, !.pendingCoreRead = FALSE]
<1>1. g \in GrpcCalls /\ g.state = grpcCall.state /\ g.headers
  BY ZenonT(30) DEF TypeInv, PartTypes, GrpcCalls
<1>2. /\ maybeStartNextRead(g)
      /\ UNCHANGED <<internal, writeable, manager, heard, dispatchQueue>>
  BY DEF MetadataDone
<1>3. UNCHANGED core.received
  BY DEF MetadataDone, TypeInv, PartTypes, Cores
<1> HIDE DEF g
<1>4. grpcCall'.state = grpcCall.state /\ grpcCall'.headers
  BY <1>1, <1>2, NextRead
<1> QED
  BY <1>2, <1>3, <1>4, AlikeSelf, QuietResponse DEF AlikeQueue

-----------------------------------------------------------------------------
(* The start of the call, which may fail, and the ways to its end.         *)
LEMMA StartCallResponse ==
  ASSUME TypeInv, ResponseInv, NEW q \in Seq(DispatchBlocks), Alike(Marked, dispatchQueue, q),
         NEW g \in GrpcCalls, g.state # "Finished", grpcCall.state # "Finished",
         g.headers = grpcCall.headers, NEW who, startCallWithWriteable(g, q, who),
         UNCHANGED <<manager, heard, internal.published>>, internal'.call \/ UNCHANGED internal
  PROVE  ResponseInv'
<1> DEFINE w == [writeable EXCEPT !.made = TRUE]
<1>1. w \in Writeables /\ w.cancelled = writeable.cancelled /\ w.finished = writeable.finished
  BY ZenonT(30) DEF TypeInv, PartTypes, Writeables
<1>2. \/ grpcCall' = g /\ writeable' = w /\ dispatchQueue' = q
      \/ finishWithError(g, w, "error", q)
  BY DEF startCallWithWriteable
<1>3. UNCHANGED <<core.received, core.metadata>>
  BY DEF startCallWithWriteable, TypeInv, PartTypes, Cores
<1> HIDE DEF w
<1>4. HeardKept
  BY NothingHeard DEF ResponseInv
<1>5. writeable'.finished = writeable.finished
  BY <1>1, <1>2 DEF finishWithError, Writeables
<1>6. HoldInv'
  BY <1>5 DEF ResponseInv, HoldInv
<1>7. core'.metadata = "done" => g.headers
  BY <1>3 DEF ResponseInv, HeaderInv
<1>8. CASE grpcCall' = g /\ writeable' = w /\ dispatchQueue' = q
  BY <1>1, <1>3, <1>4, <1>6, <1>7, <1>8, AlikeResponse DEF AlikeQueue
<1>9. CASE finishWithError(g, w, "error", q)
  BY <1>1, <1>3, <1>4, <1>6, <1>7, <1>9, FinishResponse DEF Statuses
<1> QED
  BY <1>2, <1>8, <1>9

LEMMA StartResponse ==
  ASSUME TypeInv, StartInv, ResponseInv, Start
  PROVE  ResponseInv'
<1> DEFINE g == [grpcCall EXCEPT !.state = "Started",
                                 !.pendingReceive = internal.pendingReceive]
<1>1. /\ g \in GrpcCalls /\ g.state # "Finished" /\ g.headers = grpcCall.headers
      /\ grpcCall.state # "Finished"
  BY ZenonT(30) DEF Start, StartInv, TypeInv, PartTypes, GrpcCalls, Internals, WriterStates
<1>2. internal'.call /\ internal'.published = internal.published
  BY DEF Start, TypeInv, PartTypes, Internals
<1>3. Rest \in Seq(DispatchBlocks) /\ Alike(Marked, dispatchQueue, Rest)
  BY FrontTypes, RestAlike DEF TypeInv, Start, Marked
<1>4. UNCHANGED <<manager, heard>>
  BY DEF Start
<1>5. CASE grpcCall' = g /\ dispatchQueue' = Rest /\ UNCHANGED <<writeable, core>>
  <2>1. HeardKept /\ HoldInv'
    BY <1>2, <1>4, NothingHeard DEF ResponseInv, HoldInv
  <2> HIDE DEF g
  <2> QED
    BY <1>1, <1>2, <1>3, <1>5, <2>1, AlikeResponse DEF AlikeQueue, ResponseInv, HeaderInv
<1>6. CASE startCallWithWriteable(g, Rest, "dispatch")
  <2> HIDE DEF g
  <2> QED
    BY <1>1, <1>2, <1>3, <1>4, <1>6, StartCallResponse
<1> QED
  BY <1>5, <1>6 DEF Start

LEMMA TokenResponse ==
  ASSUME TypeInv, ResponseInv, TokenArrives
  PROVE  ResponseInv'
<1>1. /\ UNCHANGED <<manager, heard, internal>>
      /\ dispatchQueue \in Seq(DispatchBlocks) /\ grpcCall \in GrpcCalls
      /\ Alike(Marked, dispatchQueue, dispatchQueue)
  BY AlikeSelf DEF TokenArrives, TypeInv, CallInv, PartTypes
<1>2. CASE UNCHANGED <<grpcCall, writeable, core, dispatchQueue>>
  BY <1>1, <1>2, QuietResponse DEF AlikeQueue, ResponseInv, HeaderInv
<1>3. CASE grpcCall.state # "Finished" /\ startCallWithWriteable(grpcCall, dispatchQueue, "token")
  BY <1>1, <1>3, StartCallResponse
<1> QED
  BY <1>2, <1>3 DEF TokenArrives

LEMMA CancelResponse ==
  ASSUME TypeInv, ResponseInv, cancel
  PROVE  ResponseInv'
<1>1. Rest \in Seq(DispatchBlocks) /\ Alike(Marked, dispatchQueue, Rest)
  BY FrontTypes, RestAlike DEF TypeInv, cancel, Marked
<1>2. ~manager'.previous /\ internal'.published = internal.published
  BY DEF cancel, TypeInv, PartTypes, Internals
<1>3. HeardKept /\ HoldInv'
  BY <1>2, CloseHeard DEF cancel, ResponseInv, Statuses, HoldInv
<1>4. UNCHANGED <<core.received, core.metadata>>
  BY DEF cancel, CancelWrappedCall, TypeInv, PartTypes, Cores
<1>5. CASE finishWithError(grpcCall, writeable, "cancelled", Rest)
  BY <1>1, <1>2, <1>3, <1>4, <1>5, FinishResponse
  DEF Statuses, ResponseInv, HeaderInv, TypeInv, PartTypes
<1>6. CASE dispatchQueue' = Rest /\ UNCHANGED <<grpcCall, writeable>>
  BY <1>1, <1>2, <1>3, <1>4, <1>6, AlikeResponse DEF AlikeQueue, ResponseInv, HeaderInv
<1> QED
  BY <1>5, <1>6 DEF cancel

LEMMA EndingResponse ==
  ASSUME TypeInv, ResponseInv, MessageTooLarge \/ \E status \in {"ok", "error"} : StatusDone(status)
  PROVE  ResponseInv'
<1>1. /\ UNCHANGED <<manager, heard, internal>> /\ writeable \in Writeables
      /\ dispatchQueue \in Seq(DispatchBlocks) /\ Alike(Marked, dispatchQueue, dispatchQueue)
  BY AlikeSelf DEF MessageTooLarge, StatusDone, TypeInv, CallInv, PartTypes
<1>2. UNCHANGED <<core.received, core.metadata>>
  BY ZenonT(30) DEF MessageTooLarge, StatusDone, TypeInv, PartTypes, Cores
<1> DEFINE g == [grpcCall EXCEPT !.pendingCoreRead = FALSE]
<1>3. /\ g \in GrpcCalls /\ g.state = grpcCall.state /\ g.headers = grpcCall.headers
      /\ grpcCall \in GrpcCalls
  BY Zenon DEF TypeInv, PartTypes, GrpcCalls
<1>4. \E status \in Statuses : \/ finishWithError(g, writeable, status, dispatchQueue)
                               \/ finishWithError(grpcCall, writeable, status, dispatchQueue)
  BY DEF MessageTooLarge, StatusDone, Statuses
<1>5. writeable'.finished = writeable.finished
  BY <1>1 DEF MessageTooLarge, StatusDone, finishWithError, Writeables
<1> HIDE DEF g
<1>6. HeardKept /\ HoldInv'
  BY <1>1, <1>5, NothingHeard DEF ResponseInv, HoldInv
<1>7. core'.metadata = "done" => grpcCall.headers
  BY <1>2 DEF ResponseInv, HeaderInv
<1> QED
  BY <1>1, <1>2, <1>3, <1>4, <1>6, <1>7, FinishResponse

-----------------------------------------------------------------------------
(* A block of the queue goes that nobody waits for any more.               *)
LEMMA DroppedResponse ==
  ASSUME TypeInv, ResponseInv, HeardKept, dispatchQueue # << >>, dispatchQueue' = Rest,
         UNCHANGED <<writeable, internal, grpcCall, core>>,
         ~manager'.previous \/ (writeable.cancelled /\ Head(dispatchQueue).do = "value")
  PROVE  ResponseInv'
<1> DEFINE h == Head(dispatchQueue).do
           q == Rest
<1>1. dispatchQueue \in Seq(DispatchBlocks)
  BY DEF TypeInv, CallInv
<1>2. /\ \A k : Has(dispatchQueue, {k}) <=> h = k \/ Has(q, {k})
      /\ \A k : Once(dispatchQueue, {k}) => Once(q, {k}) /\ (h = k => ~Has(q, {k}))
      /\ \A j, k : Before(dispatchQueue, {j}, {k}) => Before(q, {j}, {k})
      /\ \A K, S : Each(dispatchQueue, K, S) => Each(q, K, S)
  BY <1>1, QueueRest, Zenon DEF Rest
<1>3. dispatchQueue' = q /\ (~manager'.previous \/ (writeable.cancelled /\ h = "value"))
  OBVIOUS
<1> HIDE DEF h, q
<1>4. EndInv'
  BY <1>2, <1>3, ZenonT(30) DEF ResponseInv, EndInv, HeardKept
<1>5. HeaderInv'
  <2>1. /\ Has(q, {"metadata"}) => Has(dispatchQueue, {"metadata"})
        /\ Has(q, {"data"}) => Has(dispatchQueue, {"data"})
        /\ manager'.previous /\ Has(dispatchQueue, {"metadata"}) => Has(q, {"metadata"})
    BY <1>2, <1>3, Zenon
  <2>2. Once(q, {"metadata"}) /\ Before(q, {"metadata"}, {"data"})
    BY <1>2, ZenonT(30) DEF ResponseInv, HeaderInv
  <2> QED
    BY <1>3, <2>1, <2>2 DEF ResponseInv, HeaderInv, HeardKept
<1>6. MessageInv'
  <2>1. manager'.previous => /\ Has(q, {"data"}) <=> Has(dispatchQueue, {"data"})
                             /\ writeable.cancelled
    BY <1>2, <1>3, Zenon
  <2>2. /\ Once(q, {"data"}) /\ Before(q, {"data"}, {"value"}) /\ Before(q, {"data"}, {"close"})
        /\ Each(q, {"value"}, WithArg(core.received))
        /\ manager.previous => Each(q, {"data"}, WithArg(Messages + 1))
    BY <1>2, Zenon DEF ResponseInv, MessageInv
  <2>3. Messages \in Nat /\ Given = 1..Messages /\ Messages' = Messages /\ Given' = Given
    BY MessagesKept DEF HeardKept
  <2> QED
    BY <1>3, <2>1, <2>2, <2>3 DEF ResponseInv, MessageInv, HeardKept, WithArg
<1>7. HoldInv'
  BY DEF ResponseInv, HoldInv, HeardKept
<1> QED
  BY <1>4, <1>5, <1>6, <1>7 DEF ResponseInv, HeardKept

LEMMA CloseResponse ==
  ASSUME TypeInv, ResponseInv, ForwardClose
  PROVE  ResponseInv'
<1>1. /\ dispatchQueue # << >> /\ dispatchQueue' = Rest /\ ~manager'.previous
      /\ UNCHANGED <<writeable, internal, grpcCall, core>>
  BY DEF ForwardClose, Runs
<1>2. Head(dispatchQueue).status \in Statuses
  BY FrontTypes, FrontArguments DEF TypeInv, ForwardClose
<1>3. HeardKept
  BY <1>1, <1>2, CloseHeard DEF ForwardClose, ResponseInv
<1> QED
  BY <1>1, <1>3, DroppedResponse

(* A message comes in: there is no other between the core and the handler's *)
(* data, and the GRPCCall is not finished or its writeable is cancelled.   *)
LEMMA MessageResponse ==
  ASSUME TypeInv, StartInv, ReadInv, OutcomeInv, ResponseInv, MessageDone
  PROVE  ResponseInv'
<1> DEFINE b == Block("value", core.received + 1)
           q == dispatchQueue
           p == Append(q, b)
<1>1. /\ UNCHANGED <<manager, heard, internal, grpcCall, writeable>> /\ dispatchQueue' = p
      /\ core.receive > 0 /\ core.status # "ok"
  BY DEF MessageDone, MessageCanArrive
<1>2. /\ core.received \in Nat /\ core'.received = core.received + 1
      /\ core'.metadata = core.metadata /\ q \in Seq(DispatchBlocks)
  BY DEF MessageDone, MessageCanArrive, TypeInv, CallInv, PartTypes, Cores
<1>3. b \in DispatchBlocks /\ b.do = "value" /\ b \in WithArg(core'.received)
  <2>1. core.received + 1 \in Nat /\ b.do = "value" /\ b.arg = core'.received
    BY <1>2 DEF Block
  <2>2. b \in DispatchBlocks
    BY <2>1, BlockTypes
  <2> QED
    BY <2>1, <2>2 DEF WithArg
<1>4. /\ ~Has(q, {"value"})
      /\ grpcCall.state # "Finished" \/ writeable.cancelled
  <2>1. Joined /\ ~Has(q, {"value"})
    BY <1>1 DEF StartInv, ReadInv
  <2> QED
    BY <1>1, <2>1 DEF OutcomeInv
<1>5. writeable.cancelled \/ (~Has(q, {"complete"}) /\ ~writeable.finished)
  BY <1>4 DEF ResponseInv, EndInv
<1> HIDE DEF b
<1>6. /\ \A k : Has(p, {k}) <=> Has(q, {k}) \/ k = "value"
      /\ \A k : k # "value" /\ Once(q, {k}) => Once(p, {k})
      /\ \A j, k : Before(q, {j}, {k}) /\ (j = "value" => ~Has(q, {k}) /\ k # "value")
                     => Before(p, {j}, {k})
      /\ \A K, S : Each(q, K, S) /\ ("value" \in K => b \in S) => Each(p, K, S)
  BY <1>2, <1>3, QueueAppend, ZenonT(30)
<1> HIDE DEF p
<1>7. HeardKept
  BY <1>1, NothingHeard DEF ResponseInv
<1>8. EndInv'
  <2>1. /\ Has(p, {"complete"}) <=> Has(q, {"complete"})
        /\ Has(p, {"close"}) <=> Has(q, {"close"})
        /\ Once(p, {"complete"}) /\ Once(p, {"close"})
    BY <1>6, ZenonT(30) DEF ResponseInv, EndInv
  <2>2. ~writeable.cancelled => Before(p, {"value"}, {"complete"})
    BY <1>5, <1>6, ZenonT(30) DEF ResponseInv, EndInv
  <2>3. writeable.cancelled => Each(p, {"complete", "close"}, Failures)
    <3>1. "value" \notin {"complete", "close"}
      OBVIOUS
    <3> QED
      BY <1>6, <3>1, ZenonT(30) DEF ResponseInv, EndInv
  <2> QED
    BY <1>1, <1>5, <1>7, <2>1, <2>2, <2>3 DEF ResponseInv, EndInv, HeardKept
<1>9. HoldInv'
  BY <1>1 DEF ResponseInv, HoldInv
<1>10. HeaderInv'
  <2>1. /\ Has(p, {"metadata"}) <=> Has(q, {"metadata"})
        /\ Has(p, {"data"}) <=> Has(q, {"data"})
        /\ Once(p, {"metadata"}) /\ Before(p, {"metadata"}, {"data"})
    BY <1>6, ZenonT(30) DEF ResponseInv, HeaderInv
  <2> QED
    BY <1>1, <1>2, <1>7, <2>1 DEF ResponseInv, HeaderInv, HeardKept
<1>11. MessageInv'
  <2>1. /\ Has(p, {"data"}) <=> Has(q, {"data"})
        /\ Has(p, {"value"})
        /\ Once(p, {"data"}) /\ Before(p, {"data"}, {"value"}) /\ Before(p, {"data"}, {"close"})
    BY <1>6, ZenonT(30) DEF ResponseInv, MessageInv
  <2>2. Each(p, {"value"}, WithArg(core'.received))
    <3>1. Each(q, {"value"}, WithArg(core'.received))
      BY <1>4, EachOfNone
    <3> QED
      BY <1>3, <1>6, <3>1
  <2>3. manager.previous => Each(p, {"data"}, WithArg(Messages + 1))
    BY <1>6 DEF ResponseInv, MessageInv
  <2>4. Messages \in Nat /\ Given = 1..Messages /\ Messages' = Messages /\ Given' = Given
    BY <1>1, MessagesKept
  <2>5. manager.previous /\ ~writeable.cancelled
          => core.received = Messages + (IF Has(q, {"data"}) THEN 1 ELSE 0)
    BY <1>2, <1>4, <2>4 DEF ResponseInv, MessageInv
  <2>6. manager.previous /\ Has(q, {"data"}) => Messages < core'.received
    BY <1>2, <2>4 DEF ResponseInv, MessageInv
  <2> QED
    BY <1>1, <1>2, <2>1, <2>2, <2>3, <2>4, <2>5, <2>6 DEF MessageInv, WithArg
<1> QED
  BY <1>7, <1>8, <1>9, <1>10, <1>11 DEF ResponseInv, HeardKept

(* Rest is the dispatchQueue without the block of the kind h that runs.    *)
Left(h) ==
  /\ \A k : Has(dispatchQueue, {k}) <=> k = h \/ Has(Rest, {k})
  /\ \A k : Once(dispatchQueue, {k}) => Once(Rest, {k}) /\ (k = h => ~Has(Rest, {k}))
  /\ \A j, k : Before(dispatchQueue, {j}, {k}) => /\ Before(Rest, {j}, {k})
                                                  /\ k = h => ~Has(dispatchQueue, {j})
  /\ \A K, S : Each(dispatchQueue, K, S) => /\ Each(Rest, K, S)
                                            /\ h \in K => Head(dispatchQueue) \in S

LEMMA QueueFront ==
  ASSUME TypeInv, NEW h, Runs(h)
  PROVE  Left(h)
<1> DEFINE i == Head(dispatchQueue).do
<1>1. dispatchQueue \in Seq(DispatchBlocks) /\ dispatchQueue # << >> /\ i = h
  BY DEF TypeInv, CallInv, Runs
<1>2. /\ \A k : Has(dispatchQueue, {k}) <=> i = k \/ Has(Rest, {k})
      /\ \A k : Once(dispatchQueue, {k}) => Once(Rest, {k}) /\ (i = k => ~Has(Rest, {k}))
      /\ \A j, k : Before(dispatchQueue, {j}, {k}) => /\ Before(Rest, {j}, {k})
                                                      /\ i = k => ~Has(dispatchQueue, {j})
      /\ \A K, S : Each(dispatchQueue, K, S) => /\ Each(Rest, K, S)
                                                /\ i \in K => Head(dispatchQueue) \in S
  BY <1>1, QueueRest, ZenonT(30) DEF Rest
<1> HIDE DEF i
<1> QED
  BY <1>1, <1>2, Zenon DEF Left

(* The valueHandler: the message becomes the handler's next data, behind   *)
(* the metadata.                                                           *)
LEMMA ValueResponse ==
  ASSUME TypeInv, StartInv, ReadInv, ResponseInv, WriteResponse
  PROVE  ResponseInv'
<1>1. /\ UNCHANGED <<manager, heard, core, writeable>>
      /\ dispatchQueue # << >> /\ Head(dispatchQueue).do = "value"
      /\ dispatchQueue \in Seq(DispatchBlocks) /\ Rest \in Seq(DispatchBlocks)
  BY FrontTypes DEF WriteResponse, Runs, TypeInv, CallInv
<1>2. HeardKept
  BY <1>1, NothingHeard DEF ResponseInv
<1>3. Left("value")
  BY QueueFront DEF WriteResponse
<1>4. CASE writeable.finished \/ writeable.cancelled
  <2>1. writeable.cancelled
    BY <1>3, <1>4 DEF Left, ResponseInv, EndInv
  <2>2. dispatchQueue' = Rest /\ UNCHANGED <<internal, grpcCall>>
    BY <1>4 DEF WriteResponse
  <2> QED
    BY <1>1, <1>2, <2>1, <2>2, DroppedResponse
<1>5. CASE ~writeable.finished /\ ~writeable.cancelled
  <2> DEFINE b == Block("data", Head(dispatchQueue).arg)
             q == Rest
             p == q \o Metadata \o <<b>>
             g == [grpcCall EXCEPT !.pendingCoreRead = FALSE]
  <2>1. /\ b \in DispatchBlocks /\ b.do = "data" /\ b.arg = Head(dispatchQueue).arg
        /\ b \in WithArg(Head(dispatchQueue).arg)
    BY FrontTypes, FrontArguments, BlockTypes, Zenon DEF WriteResponse, TypeInv, Block, WithArg
  <2>2. dispatchQueue' = p /\ maybeStartNextRead(g)
    BY <1>5 DEF WriteResponse
  <2>3. g \in GrpcCalls /\ g.state = grpcCall.state /\ g.headers = grpcCall.headers
    BY ZenonT(30) DEF TypeInv, PartTypes, GrpcCalls
  <2>4. /\ internal'.published /\ internal'.started = internal.started
        /\ internal'.call = internal.call
    BY <1>5 DEF WriteResponse, TypeInv, PartTypes, Internals
  <2> HIDE DEF b, g
  <2>5. UNCHANGED <<grpcCall.state, grpcCall.headers>>
    BY <2>2, <2>3, NextRead
  <2>6. Issued(p, q, b, "data")
    BY <1>1, <2>1, QueueIssue, Zenon
  <2> HIDE DEF p, q
  <2>7. ~Has(q, {"value"}) /\ ~Has(q, {"data"}) /\ ~Has(q, {"close"}) /\ Has(dispatchQueue, {"value"})
    BY <1>3, <1>5, ZenonT(30) DEF Left, ResponseInv, EndInv, MessageInv, ReadInv, q
  <2>8. core.metadata = "done" /\ grpcCall.headers /\ internal.started
    BY <2>7 DEF ReadInv, ResponseInv, HeaderInv, StartInv
  <2>9. /\ Has(q, {"complete"}) <=> Has(dispatchQueue, {"complete"})
        /\ Has(q, {"metadata"}) <=> Has(dispatchQueue, {"metadata"})
        /\ ~Has(dispatchQueue, {"data"})
    BY <1>3, <2>7 DEF Left, q
  <2>10. EndInv'
    <3>1. /\ Has(p, {"complete"}) <=> Has(dispatchQueue, {"complete"})
          /\ ~Has(p, {"close"}) /\ ~Has(p, {"value"})
          /\ Once(p, {"complete"}) /\ Once(p, {"close"}) /\ Before(p, {"value"}, {"complete"})
      <4>1. /\ Once(q, {"complete"}) /\ Once(q, {"close"}) /\ Before(q, {"value"}, {"complete"})
        BY <1>3, <1>5, ZenonT(30) DEF Left, ResponseInv, EndInv, q
      <4> QED
        BY <2>6, <2>7, <2>9, <4>1, Zenon DEF Issued
    <3> QED
      BY <1>1, <1>2, <1>5, <2>2, <2>5, <3>1, ZenonT(30) DEF ResponseInv, EndInv, HeardKept
  <2>11. HoldInv'
    BY <1>1, <2>4 DEF ResponseInv, HoldInv
  <2>12. HeaderInv'
    <3>1. Publishes => Heard("metadata") = {} /\ ~Has(q, {"metadata"})
      BY <2>9 DEF Publishes, ResponseInv, HeaderInv
    <3>2. Once(q, {"metadata"}) /\ Before(q, {"metadata"}, {"data"})
      BY <1>3, ZenonT(30) DEF Left, ResponseInv, HeaderInv, q
    <3>3. /\ Has(p, {"metadata"}) <=> Has(q, {"metadata"}) \/ Publishes
          /\ Once(p, {"metadata"}) /\ Before(p, {"metadata"}, {"data"})
      BY <2>6, <2>7, <3>1, <3>2 DEF Issued
    <3>4. manager.previous => internal.call
      BY <1>5, <2>8 DEF ResponseInv, HoldInv
    <3>5. manager.previous => Heard("metadata") # {} \/ Has(p, {"metadata"})
      BY <1>5, <2>8, <2>9, <3>3, <3>4 DEF Publishes, ResponseInv, HeaderInv
    <3> QED
      BY <1>1, <1>2, <2>2, <2>4, <2>5, <2>8, <2>9, <3>1, <3>3, <3>5
      DEF ResponseInv, HeaderInv, HeardKept
  <2>13. MessageInv'
    <3>1. /\ Has(p, {"data"}) /\ ~Has(p, {"value"})
          /\ Once(p, {"data"}) /\ Before(p, {"data"}, {"value"}) /\ Before(p, {"data"}, {"close"})
      BY <1>3, <2>6, <2>7, ZenonT(30) DEF Left, Issued, ResponseInv, MessageInv, q
    <3>2. Each(p, {"value"}, WithArg(core.received))
      BY <3>1, EachOfNone
    <3>3. Head(dispatchQueue).arg = core.received
      BY <1>3 DEF Left, ResponseInv, MessageInv, WithArg
    <3>4. Messages \in Nat /\ Given = 1..Messages /\ Messages' = Messages /\ Given' = Given
      BY <1>1, MessagesKept
    <3>5. manager.previous => core.received = Messages + 1
      BY <1>5, <2>7, <2>9, <3>4 DEF ResponseInv, MessageInv
    <3>6. manager.previous => Each(p, {"data"}, WithArg(Messages + 1))
      <4>1. Each(q, {"data"}, WithArg(Messages + 1))
        BY <2>7, EachOfNone
      <4>2. manager.previous => b \in WithArg(Messages + 1)
        BY <2>1, <3>3, <3>5
      <4> QED
        BY <2>6, <4>1, <4>2 DEF Issued
    <3> QED
      BY <1>1, <2>2, <3>1, <3>2, <3>4, <3>5, <3>6 DEF MessageInv, WithArg
  <2> QED
    BY <1>2, <2>10, <2>11, <2>12, <2>13 DEF ResponseInv, HeardKept
<1> QED
  BY <1>4, <1>5 DEF TypeInv, PartTypes, Writeables

(* The completionHandler: the complete becomes the close, which has the    *)
(* metadata in front if there was no message.                              *)
LEMMA CompleteResponse ==
  ASSUME TypeInv, ResponseInv, Complete
  PROVE  ResponseInv'
<1> DEFINE status == Head(dispatchQueue).status
           b == Ending("close", status)
           q == Rest
           p == q \o Metadata \o <<b>>
<1>1. /\ UNCHANGED <<manager, heard, core, grpcCall>> /\ Rest \in Seq(DispatchBlocks)
      /\ Head(dispatchQueue) \in DispatchBlocks /\ Head(dispatchQueue).do = "complete"
  BY FrontTypes DEF Complete, TypeInv
<1>2. HeardKept
  BY <1>1, NothingHeard DEF ResponseInv
<1>3. Left("complete")
  BY QueueFront DEF Complete
<1>4. /\ ~writeable.finished /\ grpcCall.state = "Finished"
      /\ writeable.cancelled => status # "ok"
  <2>1. Has(dispatchQueue, {"complete"})
    BY <1>3 DEF Left
  <2>2. writeable.cancelled => Head(dispatchQueue) \in Failures
    <3>1. writeable.cancelled => Each(dispatchQueue, {"complete", "close"}, Failures)
      BY DEF ResponseInv, EndInv
    <3>2. "complete" \in {"complete", "close"}
      OBVIOUS
    <3> QED
      BY <1>3, <3>1, <3>2, Zenon DEF Left
  <2> QED
    BY <2>1, <2>2 DEF ResponseInv, EndInv, Failures
<1>5. b \in DispatchBlocks /\ b.do = "close" /\ b.status = status
  BY <1>1, FrontArguments, BlockTypes, Zenon DEF Ending
<1>6. dispatchQueue' = p /\ writeable' = [writeable EXCEPT !.finished = TRUE]
  BY <1>4 DEF Complete
<1>7. internal'.published
  BY <1>4, Zenon DEF Complete, TypeInv, PartTypes, Internals
<1>8. writeable'.finished /\ writeable'.cancelled = writeable.cancelled
  BY <1>6 DEF TypeInv, PartTypes, Writeables
<1> HIDE DEF b, status
<1>9. Issued(p, q, b, "close")
  BY <1>1, <1>5, QueueIssue, ZenonT(30)
<1> HIDE DEF p, q
<1>10. \A k : Has(p, {k}) <=> Has(q, {k}) \/ k = "close" \/ (Publishes /\ k = "metadata")
  BY <1>9 DEF Issued
<1>11. /\ ~Has(q, {"complete"}) /\ ~Has(q, {"close"})
       /\ ~writeable.cancelled => ~Has(q, {"value"})
       /\ Has(q, {"value"}) <=> Has(dispatchQueue, {"value"})
       /\ Has(q, {"metadata"}) <=> Has(dispatchQueue, {"metadata"})
       /\ Has(q, {"data"}) <=> Has(dispatchQueue, {"data"})
  BY <1>3, <1>4, ZenonT(30) DEF Left, ResponseInv, EndInv, q
<1>12. EndInv'
  <2>1. /\ ~Has(p, {"complete"}) /\ (~writeable.cancelled => ~Has(p, {"value"}))
        /\ Once(p, {"complete"}) /\ Once(p, {"close"})
        /\ ~writeable.cancelled => Before(p, {"value"}, {"complete"})
    <3>1. /\ Once(q, {"complete"}) /\ Once(q, {"close"})
          /\ ~writeable.cancelled => Before(q, {"value"}, {"complete"})
      BY <1>3, ZenonT(30) DEF Left, ResponseInv, EndInv, q
    <3>2. ~Has(p, {"complete"}) /\ (~writeable.cancelled => ~Has(p, {"value"}))
      BY <1>10, <1>11
    <3>3. Once(p, {"complete"}) /\ Once(p, {"close"})
      BY <1>9, <1>11, <3>1 DEF Issued
    <3>4. ~writeable.cancelled => Before(p, {"value"}, {"complete"})
      BY <1>9, <3>1 DEF Issued
    <3> QED
      BY <3>2, <3>3, <3>4
  <2>2. writeable.cancelled => Each(p, {"complete", "close"}, Failures)
    <3>1. writeable.cancelled => Each(q, {"complete", "close"}, Failures) /\ b \in Failures
      BY <1>3, <1>4, <1>5 DEF Left, ResponseInv, EndInv, Failures, q
    <3> QED
      BY <1>9, <3>1 DEF Issued
  <2> QED
    BY <1>1, <1>2, <1>4, <1>6, <1>8, <2>1, <2>2 DEF ResponseInv, EndInv, HeardKept
<1>13. HeaderInv'
  <2>1. Publishes => /\ Heard("metadata") = {} /\ ~Has(q, {"metadata"}) /\ ~Has(q, {"data"})
    BY <1>11 DEF Publishes, ResponseInv, HeaderInv
  <2>2. Once(q, {"metadata"}) /\ Before(q, {"metadata"}, {"data"})
    BY <1>3, ZenonT(30) DEF Left, ResponseInv, HeaderInv, q
  <2>3. /\ Has(p, {"metadata"}) <=> Has(q, {"metadata"}) \/ Publishes
        /\ Has(p, {"data"}) <=> Has(q, {"data"})
        /\ Once(p, {"metadata"}) /\ Before(p, {"metadata"}, {"data"})
    <3>1. /\ Has(p, {"metadata"}) <=> Has(q, {"metadata"}) \/ Publishes
          /\ Has(p, {"data"}) <=> Has(q, {"data"})
      BY <1>10
    <3>2. Once(p, {"metadata"})
      BY <1>9, <2>1, <2>2 DEF Issued
    <3>3. Before(p, {"metadata"}, {"data"})
      BY <1>9, <2>1, <2>2, ZenonT(30) DEF Issued
    <3> QED
      BY <3>1, <3>2, <3>3
  <2> QED
    BY <1>1, <1>2, <1>6, <1>7, <1>8, <1>11, <2>1, <2>3 DEF ResponseInv, HeaderInv, HeardKept
<1>14. MessageInv'
  <2>1. /\ Once(q, {"data"}) /\ Before(q, {"data"}, {"value"}) /\ Before(q, {"data"}, {"close"})
        /\ Each(q, {"value"}, WithArg(core.received))
        /\ manager.previous => Each(q, {"data"}, WithArg(Messages + 1))
    BY <1>3, Zenon DEF Left, ResponseInv, MessageInv, q
  <2>2. /\ Has(p, {"data"}) <=> Has(q, {"data"})
        /\ Has(p, {"value"}) <=> Has(q, {"value"})
        /\ Once(p, {"data"}) /\ Before(p, {"data"}, {"value"}) /\ Before(p, {"data"}, {"close"})
        /\ manager.previous => Each(p, {"data"}, WithArg(Messages + 1))
    <3>1. (Has(p, {"data"}) <=> Has(q, {"data"})) /\ (Has(p, {"value"}) <=> Has(q, {"value"}))
      BY <1>10
    <3>2. Once(p, {"data"})
      BY <1>9, <2>1 DEF Issued
    <3>3. Before(p, {"data"}, {"value"}) /\ Before(p, {"data"}, {"close"})
      BY <1>9, <2>1 DEF Issued
    <3>4. manager.previous => Each(p, {"data"}, WithArg(Messages + 1))
      BY <1>9, <2>1 DEF Issued
    <3> QED
      BY <3>1, <3>2, <3>3, <3>4
  <2>3. Each(p, {"value"}, WithArg(core.received))
    BY <1>9, <2>1 DEF Issued
  <2>4. Messages \in Nat /\ Given = 1..Messages /\ Messages' = Messages /\ Given' = Given
    BY <1>1, MessagesKept
  <2> QED
    BY <1>1, <1>6, <1>8, <1>11, <2>2, <2>3, <2>4 DEF ResponseInv, MessageInv, WithArg
<1>15. HoldInv'
  BY <1>8 DEF HoldInv
<1> QED
  BY <1>2, <1>12, <1>13, <1>14, <1>15 DEF ResponseInv, HeardKept

-----------------------------------------------------------------------------
(* The callbacks to the handler.                                           *)
LEMMA ForwardedEvent ==
  ASSUME TypeInv, ResponseInv, NEW k \in {"metadata", "data", "didWrite"}, Runs(k), Forward
  PROVE  /\ heard' \in Seq(HeardEvents)
         /\ manager.previous =>
              /\ heard' = Append(heard, Event(k, Head(dispatchQueue).arg))
              /\ Heard(k)' # {}
              /\ \A what : what # k => Heard(what)' = Heard(what)
              /\ Given' = IF k = "data" THEN Given \union {Head(dispatchQueue).arg} ELSE Given
         /\ ~manager.previous => UNCHANGED heard
<1> DEFINE e == Event(k, Head(dispatchQueue).arg)
<1>1. Head(dispatchQueue) \in DispatchBlocks /\ Head(dispatchQueue).do = k
  BY FrontTypes DEF TypeInv
<1>2. e \in HeardEvents /\ e.event = k /\ e.arg = Head(dispatchQueue).arg
  BY <1>1 DEF DispatchBlocks, UserBlocks, HeardEvents, Event
<1>3. heard' = IF manager.previous THEN Append(heard, e) ELSE heard
  BY <1>1 DEF Forward
<1> HIDE DEF e
<1>4. CASE manager.previous
  <2>1. heard' = Append(heard, e) /\ heard \in Seq(HeardEvents)
    BY <1>3, <1>4 DEF ResponseInv
  <2>2. /\ heard' \in Seq(HeardEvents)
        /\ \A what : e.event = what => Heard(what)' # {}
        /\ \A what : e.event # what => Heard(what)' = Heard(what)
        /\ Given' = IF e.event = "data" THEN Given \union {e.arg} ELSE Given
    BY <1>2, <2>1, HeardAppend
  <2> QED
    BY <1>2, <1>4, <2>1, <2>2, ZenonT(30) DEF e
<1>5. CASE ~manager.previous
  BY <1>3, <1>5 DEF ResponseInv
<1> QED
  BY <1>4, <1>5

LEMMA DidWriteResponse ==
  ASSUME TypeInv, ResponseInv, Runs("didWrite"), Forward
  PROVE  ResponseInv'
<1>1. /\ UNCHANGED <<manager, internal, grpcCall, writeable, core>> /\ dispatchQueue' = Rest
      /\ AlikeQueue
  BY RestAlike DEF Forward, AlikeQueue, Marked
<1>2. HeardKept
  <2>1. CASE manager.previous
    BY <1>1, <2>1, ForwardedEvent DEF HeardKept
  <2>2. CASE ~manager.previous
    BY <1>1, <2>2, ForwardedEvent DEF HeardKept, Heard, Given
  <2> QED
    BY <2>1, <2>2
<1> QED
  BY <1>1, <1>2, AlikeResponse, ZenonT(30) DEF ResponseInv, HoldInv, HeaderInv

LEMMA MetadataHeard ==
  ASSUME TypeInv, ResponseInv, Runs("metadata"), Forward
  PROVE  ResponseInv'
<1> DEFINE q == Rest
<1>1. UNCHANGED <<manager, internal, grpcCall, writeable, core>> /\ dispatchQueue' = q
  BY DEF Forward
<1>2. Left("metadata")
  BY QueueFront
<1>3. /\ heard' \in Seq(HeardEvents)
      /\ manager.previous => Heard("metadata")' # {} /\ Heard("close")' = Heard("close")
      /\ Messages \in Nat /\ Given = 1..Messages /\ Messages' = Messages /\ Given' = Given
  <2>1. Given' = Given
    <3>1. CASE manager.previous
      BY <3>1, ForwardedEvent
    <3>2. CASE ~manager.previous
      BY <3>2, ForwardedEvent DEF Given, Heard
    <3> QED
      BY <3>1, <3>2
  <2> QED
    BY <2>1, ForwardedEvent, MessagesKept
<1> HIDE DEF q
<1>4. /\ Has(q, {"complete"}) <=> Has(dispatchQueue, {"complete"})
      /\ Has(q, {"close"}) <=> Has(dispatchQueue, {"close"})
      /\ Has(q, {"value"}) <=> Has(dispatchQueue, {"value"})
      /\ Has(q, {"data"}) <=> Has(dispatchQueue, {"data"})
      /\ Has(dispatchQueue, {"metadata"})
  BY <1>2, ZenonT(30) DEF Left, q
<1>5. EndInv'
  <2>1. /\ Once(q, {"complete"}) /\ Once(q, {"close"})
        /\ ~writeable.cancelled => Before(q, {"value"}, {"complete"})
        /\ writeable.cancelled => Each(q, {"complete", "close"}, Failures)
    BY <1>2, ZenonT(30) DEF Left, ResponseInv, EndInv, q
  <2> QED
    BY <1>1, <1>3, <1>4, <2>1 DEF ResponseInv, EndInv
<1>6. HoldInv'
  BY <1>1 DEF ResponseInv, HoldInv
<1>7. HeaderInv'
  <2>1. ~Has(q, {"metadata"}) /\ Once(q, {"metadata"}) /\ Before(q, {"metadata"}, {"data"})
    BY <1>2, ZenonT(30) DEF Left, ResponseInv, HeaderInv, q
  <2>2. internal.published
    BY <1>4 DEF ResponseInv, HeaderInv
  <2> QED
    BY <1>1, <1>3, <2>1, <2>2 DEF ResponseInv, HeaderInv
<1>8. MessageInv'
  <2>1. /\ Once(q, {"data"}) /\ Before(q, {"data"}, {"value"}) /\ Before(q, {"data"}, {"close"})
        /\ Each(q, {"value"}, WithArg(core.received))
        /\ manager.previous => Each(q, {"data"}, WithArg(Messages + 1))
    BY <1>2, Zenon DEF Left, ResponseInv, MessageInv, q
  <2> QED
    BY <1>1, <1>3, <1>4, <2>1 DEF ResponseInv, MessageInv, WithArg
<1> QED
  BY <1>3, <1>5, <1>6, <1>7, <1>8 DEF ResponseInv

LEMMA DataHeard ==
  ASSUME TypeInv, ResponseInv, Runs("data"), Forward
  PROVE  ResponseInv'
<1> DEFINE q == Rest
<1>1. UNCHANGED <<manager, internal, grpcCall, writeable, core>> /\ dispatchQueue' = q
  BY DEF Forward
<1>2. Left("data")
  BY QueueFront
<1>3. /\ heard' \in Seq(HeardEvents) /\ Heard("metadata")' = Heard("metadata")
      /\ manager.previous => Heard("close")' = Heard("close")
  BY ForwardedEvent, ZenonT(30) DEF Heard
<1>4. /\ Messages \in Nat /\ Messages' \in Nat /\ Given' = 1..Messages'
      /\ manager.previous => Messages' = Messages + 1
  <2>1. Messages \in Nat /\ Given = 1..Messages
    BY DEF ResponseInv, MessageInv
  <2>2. CASE manager.previous
    <3>1. Head(dispatchQueue).arg = Messages + 1
      BY <1>2, <2>2, SMTT(20) DEF Left, ResponseInv, MessageInv, WithArg
    <3>2. Given' = 1..(Messages + 1)
      <4>1. Given' = Given \union {Messages + 1}
        BY <2>2, <3>1, ForwardedEvent
      <4>2. 1..Messages \union {Messages + 1} = 1..(Messages + 1)
        BY <2>1
      <4> QED
        BY <2>1, <4>1, <4>2
    <3>3. Messages' = Messages + 1
      <4>1. Messages + 1 \in Nat
        BY <2>1
      <4> QED
        BY <3>2, <4>1, CountUpTo DEF Messages
    <3> QED
      BY <2>1, <3>2, <3>3
  <2>3. CASE ~manager.previous
    <3>1. Messages' = Messages /\ Given' = Given
      BY <2>3, ForwardedEvent, MessagesKept
    <3> QED
      BY <2>1, <2>3, <3>1
  <2> QED
    BY <2>2, <2>3
<1> HIDE DEF q
<1>5. /\ Has(q, {"complete"}) <=> Has(dispatchQueue, {"complete"})
      /\ Has(q, {"close"}) <=> Has(dispatchQueue, {"close"})
      /\ Has(q, {"value"}) <=> Has(dispatchQueue, {"value"})
      /\ Has(q, {"metadata"}) <=> Has(dispatchQueue, {"metadata"})
      /\ Has(dispatchQueue, {"data"})
  BY <1>2, ZenonT(30) DEF Left, q
<1>6. ~Has(q, {"data"}) /\ Once(q, {"data"})
  BY <1>2 DEF Left, ResponseInv, MessageInv, q
<1>7. EndInv'
  <2>1. /\ Once(q, {"complete"}) /\ Once(q, {"close"})
        /\ ~writeable.cancelled => Before(q, {"value"}, {"complete"})
        /\ writeable.cancelled => Each(q, {"complete", "close"}, Failures)
    BY <1>2, ZenonT(30) DEF Left, ResponseInv, EndInv, q
  <2> QED
    BY <1>1, <1>3, <1>5, <2>1 DEF ResponseInv, EndInv
<1>8. HoldInv'
  BY <1>1 DEF ResponseInv, HoldInv
<1>9. HeaderInv'
  <2>1. Once(q, {"metadata"}) /\ Before(q, {"metadata"}, {"data"})
    BY <1>2, ZenonT(30) DEF Left, ResponseInv, HeaderInv, q
  <2> QED
    BY <1>1, <1>3, <1>5, <1>6, <2>1 DEF ResponseInv, HeaderInv
<1>10. MessageInv'
  <2>1. /\ Before(q, {"data"}, {"value"}) /\ Before(q, {"data"}, {"close"})
        /\ Each(q, {"value"}, WithArg(core.received))
    BY <1>2, ZenonT(30) DEF Left, ResponseInv, MessageInv, q
  <2>2. Each(q, {"data"}, WithArg(Messages' + 1))
    BY <1>6, EachOfNone
  <2> QED
    BY <1>1, <1>4, <1>5, <1>6, <2>1, <2>2, SMTT(20) DEF ResponseInv, MessageInv, WithArg
<1> QED
  BY <1>3, <1>7, <1>8, <1>9, <1>10 DEF ResponseInv

-----------------------------------------------------------------------------
(* How the GRPCCall finishes.                                              *)
LEMMA FinishOutcome ==
  ASSUME OutcomeInv, NEW g \in GrpcCalls, g.state = grpcCall.state,
         NEW w \in Writeables, w.made = writeable.made, w.cancelled = writeable.cancelled,
         NEW status \in Statuses, NEW q, finishWithError(g, w, status, q),
         Joined' => Joined, core.status = "ok" \/ status = "ok" => core'.status = "ok"
  PROVE  OutcomeInv'
<1>1. writeable'.made = writeable.made
  BY DEF finishWithError, Writeables
<1>2. CASE g.state = "Finished" \/ ~w.made
  BY <1>1, <1>2 DEF finishWithError, OutcomeInv
<1>3. CASE ~(g.state = "Finished" \/ ~w.made)
  <2>1. status # "ok" => writeable'.cancelled
    BY <1>3, Zenon DEF finishWithError, Writeables
  <2> QED
    BY <1>1, <2>1 DEF OutcomeInv
<1> QED
  BY <1>2, <1>3

LEMMA StartCallOutcome ==
  ASSUME TypeInv, OutcomeInv, NEW g \in GrpcCalls, g.state # "Finished", NEW q, NEW who,
         startCallWithWriteable(g, q, who)
  PROVE  OutcomeInv'
<1> DEFINE w == [writeable EXCEPT !.made = TRUE]
<1>1. w \in Writeables /\ w.made
  BY ZenonT(30) DEF TypeInv, PartTypes, Writeables
<1>2. \/ grpcCall' = g /\ writeable' = w
      \/ finishWithError(g, w, "error", q)
  BY DEF startCallWithWriteable
<1> HIDE DEF w
<1>3. CASE grpcCall' = g /\ writeable' = w
  BY <1>1, <1>3 DEF OutcomeInv
<1>4. CASE finishWithError(g, w, "error", q)
  <2>1. writeable'.made /\ writeable'.cancelled
    BY <1>1, <1>4, Zenon DEF finishWithError, Writeables
  <2> QED
    BY <2>1 DEF OutcomeInv
<1> QED
  BY <1>2, <1>3, <1>4

LEMMA QuietOutcome ==
  ASSUME OutcomeInv, UNCHANGED <<grpcCall.state, writeable.made, writeable.cancelled>>,
         Joined' => Joined, core.status = "ok" => core'.status = "ok"
  PROVE  OutcomeInv'
BY DEF OutcomeInv

LEMMA DispatchOutcome ==
  ASSUME BatchInv, OutcomeInv, Dispatch
  PROVE  OutcomeInv'
<1>1. TypeInv /\ StartInv /\ grpcCall \in GrpcCalls /\ writeable \in Writeables /\ core \in Cores
  BY DEF BatchInv, TypeInv, PartTypes
<1>2. CASE Start
  <2> DEFINE g == [grpcCall EXCEPT !.state = "Started",
                                   !.pendingReceive = internal.pendingReceive]
  <2>1. g \in GrpcCalls /\ g.state = "Started" /\ grpcCall.state # "Finished"
    BY <1>1, <1>2, ZenonT(30)
    DEF Start, StartInv, TypeInv, PartTypes, GrpcCalls, Internals, WriterStates
  <2>2. (grpcCall' = g /\ UNCHANGED <<writeable, core>>) \/ startCallWithWriteable(g, Rest, "dispatch")
    BY <1>2 DEF Start
  <2> HIDE DEF g
  <2> QED
    BY <1>1, <2>1, <2>2, StartCallOutcome DEF OutcomeInv, Joined
<1>3. CASE cancel
  <2>1. core.status = core'.status /\ (Joined' => Joined)
    BY <1>1, <1>3 DEF cancel, CancelWrappedCall, Cores, Joined
  <2>2. CASE finishWithError(grpcCall, writeable, "cancelled", Rest)
    BY <1>1, <2>1, <2>2, FinishOutcome DEF Statuses
  <2>3. CASE UNCHANGED <<grpcCall, writeable>>
    BY <2>1, <2>3, QuietOutcome
  <2> QED
    BY <1>3, <2>2, <2>3 DEF cancel
<1>4. CASE ~Start /\ ~cancel
  <2>1. UNCHANGED core
    BY <1>4 DEF Dispatch, DropCommand, StartWriter, writeData, finish, receiveNextMessages,
                FinishWriter, WriteResponse, Complete, Forward, ForwardClose
  <2>2. UNCHANGED grpcCall.state
    BY <1>1, <1>4, ZenonT(30)
    DEF Dispatch, DropCommand, StartWriter, writeData, finish, receiveNextMessages,
        FinishWriter, WriteResponse, Complete, Forward, ForwardClose, maybeStartNextRead, GrpcCalls
  <2>3. UNCHANGED <<writeable.made, writeable.cancelled>>
    BY <1>1, <1>4, ZenonT(30)
    DEF Dispatch, DropCommand, StartWriter, writeData, finish, receiveNextMessages,
        FinishWriter, WriteResponse, Complete, Forward, ForwardClose, Writeables
  <2> QED
    BY <2>1, <2>2, <2>3, QuietOutcome DEF Joined
<1> QED
  BY <1>2, <1>3, <1>4

LEMMA NetworkOutcome ==
  ASSUME BatchInv, OutcomeInv, Network
  PROVE  OutcomeInv'
<1>1. TypeInv /\ StartInv /\ grpcCall \in GrpcCalls /\ writeable \in Writeables /\ core \in Cores
  BY DEF BatchInv, TypeInv, PartTypes
<1> DEFINE g == [grpcCall EXCEPT !.pendingCoreRead = FALSE]
           h == [grpcCall EXCEPT !.headers = TRUE, !.pendingCoreRead = FALSE]
<1>2. g \in GrpcCalls /\ g.state = grpcCall.state /\ h \in GrpcCalls /\ h.state = grpcCall.state
  BY <1>1, ZenonT(30) DEF GrpcCalls
<1>3. CASE MetadataDone
  <2>1. /\ maybeStartNextRead(h) /\ UNCHANGED writeable
        /\ core'.status = core.status /\ (Joined' => Joined)
    BY <1>1, <1>3 DEF MetadataDone, Cores, Joined
  <2> HIDE DEF h
  <2>2. UNCHANGED grpcCall.state
    BY <1>1, <1>2, <2>1, NextRead
  <2> QED
    BY <2>1, <2>2, QuietOutcome
<1>4. CASE MessageTooLarge
  <2>1. /\ finishWithError(g, writeable, "error", dispatchQueue)
        /\ core'.status = core.status /\ (Joined' => Joined)
    BY <1>1, <1>4 DEF MessageTooLarge, Cores, Joined
  <2> HIDE DEF g
  <2> QED
    BY <1>1, <1>2, <2>1, FinishOutcome DEF Statuses
<1>5. ASSUME NEW status \in {"ok", "error"}, StatusDone(status) PROVE OutcomeInv'
  <2>1. /\ finishWithError(grpcCall, writeable, status, dispatchQueue) /\ core.status = "out"
        /\ core'.status = status /\ (Joined' => Joined)
    BY <1>1, <1>5 DEF StatusDone, Cores, Joined
  <2> QED
    BY <1>1, <2>1, FinishOutcome DEF Statuses
<1>6. CASE SendDone \/ MessageDone \/ FinishWriter("network")
  <2>1. /\ UNCHANGED <<grpcCall, writeable>>
        /\ core'.status = core.status /\ (Joined' => Joined)
    BY <1>1, <1>6 DEF SendDone, MessageDone, FinishWriter, Cores, Joined
  <2> QED
    BY <2>1, QuietOutcome
<1> QED
  BY <1>3, <1>4, <1>5, <1>6 DEF Network

LEMMA OtherOutcome ==
  ASSUME BatchInv, OutcomeInv,
         UNCHANGED vars \/ User \/ TokenArrives \/ StartWriter("token") \/ PipeQueue
           \/ CallQueue \/ channelDisconnected
  PROVE  OutcomeInv'
<1>1. /\ TypeInv /\ StartInv /\ grpcCall \in GrpcCalls /\ writeable \in Writeables /\ core \in Cores
  BY DEF BatchInv, TypeInv, PartTypes
<1>2. CASE UNCHANGED vars \/ User \/ StartWriter("token") \/ PipeQueue
  <2>1. UNCHANGED <<grpcCall, writeable, core>>
    BY <1>2, Zenon DEF vars, callVars, User, UserCalls, UserCancels, UserAsks, StartWriter,
                PipeQueue, writeValue, writesFinishedWithError, PassTo
  <2> QED
    BY <2>1, QuietOutcome DEF Joined
<1>3. CASE CallQueue
  <2>1. callQueue # << >> /\ Joined /\ UNCHANGED <<grpcCall, writeable>>
    BY <1>1, <1>3 DEF CallQueue, StartInv
  <2> DEFINE b == Head(callQueue)
  <2>2. core' = core \/ (core' = startBatch(b) /\ (b.do = "recvStatus" => core.status = "none"))
    <3>1. b.do = "recvStatus" => Has(callQueue, {"recvStatus"})
      <4>1. 1 \in DOMAIN callQueue /\ callQueue[1] = b
        BY <1>1, <2>1 DEF TypeInv, CallInv
      <4> HIDE DEF b
      <4> QED
        BY <4>1 DEF Has
    <3> QED
      BY <1>1, <1>3, <3>1 DEF CallQueue, StartInv
  <2> HIDE DEF b
  <2>3. core.status = "ok" => core'.status = "ok"
    BY <1>1, <2>2, ZenonT(30) DEF startBatch, Cores
  <2> QED
    BY <2>1, <2>3, QuietOutcome
<1>4. CASE channelDisconnected
  <2>1. UNCHANGED <<grpcCall, writeable>> /\ Joined /\ core'.status = core.status
    BY <1>1, <1>4 DEF channelDisconnected, Joined, Cores
  <2> QED
    BY <2>1, QuietOutcome
<1>5. CASE TokenArrives
  <2>1. \/ UNCHANGED <<grpcCall, writeable, core>>
        \/ grpcCall.state # "Finished" /\ startCallWithWriteable(grpcCall, dispatchQueue, "token")
    BY <1>5 DEF TokenArrives
  <2> QED
    BY <1>1, <2>1, QuietOutcome, StartCallOutcome DEF Joined
<1> QED
  BY <1>2, <1>3, <1>4, <1>5

LEMMA OutcomeInvariant == CallSpec => []OutcomeInv
<1>1. CallInit => OutcomeInv
  <2>1. ASSUME CallInit PROVE ~core.connected /\ ~core.broken
    BY <2>1, Zenon DEF CallInit
  <2>2. ASSUME CallInit PROVE ~writeable.made
    BY <2>2, Zenon DEF CallInit
  <2> QED
    BY <2>1, <2>2 DEF OutcomeInv, Joined
<1>2. BatchInv /\ OutcomeInv /\ [CallNext]_vars => OutcomeInv'
  BY DispatchOutcome, NetworkOutcome, OtherOutcome DEF CallNext
<1> QED
  BY <1>1, <1>2, BatchInvariant, PTL DEF CallSpec

-----------------------------------------------------------------------------
LEMMA ResponseInitially == CallInit => ResponseInv
<1> SUFFICES ASSUME CallInit PROVE ResponseInv
  OBVIOUS
<1>1. dispatchQueue = << >> /\ heard = << >>
  BY Zenon DEF CallInit
<1>2. /\ \A K : ~Has(dispatchQueue, K) /\ Once(dispatchQueue, K)
      /\ \A J, K : Before(dispatchQueue, J, K)
      /\ \A K, S : Each(dispatchQueue, K, S)
  BY <1>1, OnEmpty, OrderOnEmpty
<1>3. heard \in Seq(HeardEvents) /\ \A what : Heard(what) = {}
  BY <1>1 DEF Heard
<1>4. Given = 1..0 /\ Messages = 0
  <2>1. Given = 1..0
    BY <1>3 DEF Given
  <2> QED
    BY <2>1, CountUpTo DEF Messages
<1>5. EndInv /\ HoldInv
  BY <1>2, <1>3, ZenonT(30) DEF CallInit, EndInv, HoldInv
<1>6. HeaderInv
  BY <1>2, <1>3, ZenonT(30) DEF CallInit, HeaderInv
<1>7. MessageInv
  <2>1. core.received = 0
    BY Zenon DEF CallInit
  <2> QED
    BY <1>2, <1>4, <2>1 DEF MessageInv
<1> QED
  BY <1>3, <1>5, <1>6, <1>7 DEF ResponseInv

LEMMA ForwardResponse ==
  ASSUME TypeInv, ResponseInv, Forward
  PROVE  ResponseInv'
<1>1. Runs("metadata") \/ Runs("data") \/ Runs("didWrite")
  BY DEF Forward
<1> QED
  BY <1>1, MetadataHeard, DataHeard, DidWriteResponse

LEMMA ResponseStep == BatchInv /\ OutcomeInv /\ ResponseInv /\ [CallNext]_vars => ResponseInv'
<1> SUFFICES ASSUME BatchInv, OutcomeInv, ResponseInv, [CallNext]_vars PROVE ResponseInv'
  OBVIOUS
<1>1. TypeInv /\ StartInv /\ ReadInv
  BY DEF BatchInv
<1>2. CASE UNCHANGED vars
  <2>1. UNCHANGED <<internal, grpcCall, core, writeable, manager, heard, dispatchQueue>>
    BY <1>2 DEF vars, callVars
  <2> QED
    BY <2>1, AlikeSelf, QuietResponse, ZenonT(30) DEF AlikeQueue, ResponseInv, HeaderInv
<1>3. CASE Dispatch
  <2>1. \/ DropCommand \/ Start \/ StartWriter("dispatch") \/ writeData \/ finish
        \/ receiveNextMessages \/ cancel \/ FinishWriter("dispatch")
        \/ WriteResponse \/ Complete \/ Forward \/ ForwardClose
    BY <1>3 DEF Dispatch
  <2> QED
    BY <1>1, <2>1, CommandResponse, StartResponse, CancelResponse, ThreadResponse,
       ValueResponse, CompleteResponse, ForwardResponse, CloseResponse
<1>4. CASE Network
  BY <1>1, <1>4, MetadataResponse, SendResponse, MessageResponse, EndingResponse, ThreadResponse
  DEF Network
<1>5. CASE User \/ TokenArrives
  BY <1>1, <1>5, UserResponse, TokenResponse
<1>6. CASE StartWriter("token") \/ PipeQueue \/ CallQueue \/ channelDisconnected
  BY <1>1, <1>6, ThreadResponse
<1> QED
  BY <1>2, <1>3, <1>4, <1>5, <1>6 DEF CallNext

LEMMA ResponseInvariant == CallSpec => []ResponseInv
BY ResponseInitially, ResponseStep, BatchInvariant, OutcomeInvariant, PTL DEF CallSpec

-----------------------------------------------------------------------------
(* What the handler hears, against its contract.                           *)
LEMMA ContractHeard ==
  /\ \A what : Contract!Heard(what) = Heard(what)
  /\ Contract!Closed <=> Heard("close") # {}
  /\ Contract!Given = Given
<1>1. \A what : Contract!Heard(what) = Heard(what)
  BY DEF Contract!Heard, Heard
<1> QED
  BY <1>1 DEF Contract!Closed, Contract!Given, Given

LEMMA CloseKeepsContract ==
  ASSUME ResponseInv, manager.previous, NEW status \in Statuses,
         status = "ok" => Given = 1..core.received,
         heard' = Append(heard, Close(status)), UNCHANGED core.received
  PROVE  Contract!ContractNext
<1>1. Heard("close") = {}
  BY ZenonT(30) DEF ResponseInv, EndInv
<1>2. Contract!Close(status) = Close(status)
  BY ZenonT(30) DEF Contract!Close, Close
<1>3. Contract!Hear(Contract!Close(status))
  BY <1>1, <1>2, ContractHeard DEF Contract!Hear, Close, Methods
<1>4. Contract!HearClose(status)
  BY <1>3, ContractHeard DEF Contract!HearClose 
<1> QED
  BY <1>4 DEF Contract!ContractNext, Statuses

LEMMA ForwardKeepsContract ==
  ASSUME TypeInv, ResponseInv, Forward, manager.previous
  PROVE  Contract!ContractNext
<1> DEFINE arg == Head(dispatchQueue).arg
<1>1. UNCHANGED core.received /\ Heard("close") = {}
  BY DEF Forward, ResponseInv, EndInv
<1>2. \A e : heard' = Append(heard, e) /\ e.event \in Methods => Contract!Hear(e)
  BY <1>1, ContractHeard DEF Contract!Hear
<1>3. \A k : Contract!Event(k, arg) = Event(k, arg)
  BY DEF Contract!Event, Event
<1>4. ASSUME NEW k \in {"metadata", "data", "didWrite"}, Runs(k)
      PROVE  /\ Contract!Hear(Contract!Event(k, arg)) /\ Left(k)
             /\ k # "data" => arg = 0
  <2>1. Head(dispatchQueue) \in DispatchBlocks /\ Head(dispatchQueue).do = k
    BY <1>4, FrontTypes DEF TypeInv
  <2>2. k # "data" => arg = 0
    BY <2>1 DEF DispatchBlocks, UserBlocks
  <2>3. heard' = Append(heard, Event(k, arg)) /\ Event(k, arg).event \in Methods
    BY <1>4, ForwardedEvent DEF Event, Methods
  <2> QED
    BY <1>2, <1>3, <1>4, <2>2, <2>3, QueueFront
<1> HIDE DEF arg
<1>5. CASE Runs("metadata")
  <2>1. Heard("metadata") = {}
    BY <1>4, <1>5, ZenonT(30) DEF Left, ResponseInv, HeaderInv
  <2>2. Contract!HearMetadata
    BY <1>1, <1>4, <1>5, <2>1, ContractHeard DEF Contract!HearMetadata
  <2> QED
    BY <2>2 DEF Contract!ContractNext
<1>6. CASE Runs("data")
  <2>1. Has(dispatchQueue, {"data"}) /\ ~Has(dispatchQueue, {"metadata"})
    BY <1>4, <1>6, ZenonT(30) DEF Left, ResponseInv, HeaderInv
  <2>2. Heard("metadata") # {} /\ Messages < core.received
    BY <2>1 DEF ResponseInv, HeaderInv, MessageInv
  <2>3. arg = Messages + 1
    BY <1>4, <1>6 DEF Left, ResponseInv, MessageInv, WithArg, arg
  <2>4. arg \in 1..core.received /\ Given = 1..(arg - 1)
    BY <2>2, <2>3 DEF ResponseInv, MessageInv, TypeInv, CallInv
  <2>5. Contract!HearData
    BY <1>1, <1>4, <1>6, <2>2, <2>4, ContractHeard DEF Contract!HearData
  <2> QED
    BY <2>5 DEF Contract!ContractNext
<1>7. CASE Runs("didWrite")
  <2>1. Contract!HearDidWrite
    BY <1>1, <1>4, <1>7 DEF Contract!HearDidWrite
  <2> QED
    BY <2>1 DEF Contract!ContractNext
<1> QED
  BY <1>5, <1>6, <1>7 DEF Forward

(* The close of a call without an error comes after its last message.      *)
LEMMA ForwardCloseKeepsContract ==
  ASSUME TypeInv, ResponseInv, ForwardClose, manager.previous
  PROVE  Contract!ContractNext
<1> DEFINE status == Head(dispatchQueue).status
<1>1. Left("close") /\ status \in Statuses
  BY FrontTypes, FrontArguments, QueueFront DEF ForwardClose, TypeInv
<1>2. heard' = Append(heard, Close(status)) /\ UNCHANGED core.received
  BY DEF ForwardClose
<1>3. /\ Has(dispatchQueue, {"close"}) /\ ~Has(dispatchQueue, {"data"})
      /\ ~writeable.cancelled => ~Has(dispatchQueue, {"value"})
  <2>1. Has(dispatchQueue, {"close"}) /\ ~Has(dispatchQueue, {"data"})
    BY <1>1, ZenonT(30) DEF Left, ResponseInv, MessageInv
  <2> QED
    BY <2>1 DEF ResponseInv, EndInv
<1>4. status = "ok" => ~writeable.cancelled
  <2>1. "close" \in {"complete", "close"}
    OBVIOUS
  <2>2. Each(dispatchQueue, {"complete", "close"}, Failures) => Head(dispatchQueue) \in Failures
    BY <1>1, <2>1, Zenon DEF Left
  <2> QED
    BY <2>2 DEF ResponseInv, EndInv, Failures
<1>5. Messages \in Nat
  BY DEF ResponseInv, MessageInv
<1> HIDE DEF status
<1>6. status = "ok" => Given = 1..core.received
  BY <1>3, <1>4, <1>5 DEF ResponseInv, MessageInv
<1> QED
  BY <1>1, <1>2, <1>6, CloseKeepsContract

(* The steps after which the handler has heard what it had.                *)
LEMMA SilentSteps ==
  ASSUME TypeInv, [CallNext]_vars, ~cancel, ~Forward, ~ForwardClose, ~MessageDone
  PROVE  UNCHANGED <<core.received, heard>>
<1>1. core \in Cores
  BY DEF TypeInv, PartTypes
<1>2. CASE UNCHANGED vars
  BY <1>2 DEF vars, callVars
<1>3. CASE User \/ PipeQueue \/ CallQueue \/ channelDisconnected
  <2>1. UNCHANGED heard
    BY <1>3, Zenon DEF User, UserCalls, UserCancels, UserAsks, PipeQueue, writeValue,
                writesFinishedWithError, PassTo, callVars, CallQueue, channelDisconnected
  <2>2. CASE CallQueue
    <3> DEFINE b == Head(callQueue)
    <3>1. core' = core \/ core' = startBatch(b)
      BY <2>2 DEF CallQueue
    <3> HIDE DEF b
    <3> QED
      BY <1>1, <2>1, <3>1, ZenonT(30) DEF startBatch, Cores
  <2>3. CASE User \/ PipeQueue \/ channelDisconnected
    BY <1>1, <2>1, <2>3, ZenonT(30)
    DEF User, UserCalls, UserCancels, UserAsks, PipeQueue, writeValue,
        writesFinishedWithError, PassTo, callVars, channelDisconnected, Cores
  <2> QED
    BY <1>3, <2>2, <2>3
<1>4. CASE TokenArrives \/ Start
  BY <1>1, <1>4 DEF TokenArrives, Start, startCallWithWriteable, Cores
<1>5. CASE Dispatch /\ ~Start
  BY <1>5 DEF Dispatch, DropCommand, StartWriter, writeData, finish, receiveNextMessages,
              FinishWriter, WriteResponse, Complete
<1>6. CASE Network
  BY <1>1, <1>6, ZenonT(30) DEF Network, MetadataDone, SendDone, MessageTooLarge, StatusDone, FinishWriter,
                    Cores
<1>7. CASE StartWriter("token")
  BY <1>7 DEF StartWriter
<1> QED
  BY <1>2, <1>3, <1>4, <1>5, <1>6, <1>7 DEF CallNext

LEMMA ContractStep ==
  BatchInv /\ ResponseInv /\ [CallNext]_vars
    => [Contract!ContractNext /\ UNCHANGED Methods]_<<Methods, core.received, heard>>
<1> SUFFICES ASSUME BatchInv, ResponseInv, [CallNext]_vars,
                    ~UNCHANGED <<core.received, heard>>
             PROVE  Contract!ContractNext
  BY DEF Methods
<1>1. TypeInv
  BY DEF BatchInv
<1>2. cancel \/ Forward \/ ForwardClose \/ MessageDone
  BY <1>1, SilentSteps
<1>3. CASE cancel
  <2>1. UNCHANGED core.received
    BY <1>1, <1>3 DEF cancel, CancelWrappedCall, TypeInv, PartTypes, Cores
  <2>2. manager.previous /\ heard' = Append(heard, Close("cancelled"))
    BY <1>3, <2>1 DEF cancel
  <2> QED
    BY <2>1, <2>2, CloseKeepsContract DEF Statuses
<1>4. CASE Forward
  BY <1>1, <1>4, ForwardKeepsContract DEF Forward
<1>5. CASE ForwardClose
  BY <1>1, <1>5, ForwardCloseKeepsContract DEF ForwardClose
<1>6. CASE MessageDone
  <2>1. core'.received = core.received + 1 /\ UNCHANGED heard
    BY <1>1, <1>6 DEF MessageDone, TypeInv, PartTypes, Cores
  <2> QED
    BY <2>1 DEF Contract!ContractNext, Contract!Receive
<1> QED
  BY <1>2, <1>3, <1>4, <1>5, <1>6

(* The handler in front of the transport hears what ResponseContract says, *)
(* whatever the user asks, whenever the token comes and however the RPC    *)
(* ends: the initial metadata once and before any message, the messages in *)
(* order and without a gap, one close and nothing after it, and with a     *)
(* close without an error every message that came in.                      *)
THEOREM HandlerCorrect == CallSpec => HandlerContract
<1>1. ASSUME CallInit PROVE core.received = 0
  BY <1>1, ZenonT(30) DEF CallInit
<1>2. ASSUME CallInit PROVE heard = << >>
  BY <1>2, ZenonT(30) DEF CallInit
<1>3. CallInit => Contract!ContractInit
  BY <1>1, <1>2 DEF Contract!ContractInit
<1> QED
  BY <1>3, ContractStep, BatchInvariant, ResponseInvariant, PTL
  DEF CallSpec, HandlerContract, Contract!ContractSpec

=============================================================================
