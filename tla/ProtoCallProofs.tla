-------------------------- MODULE ProtoCallProofs ---------------------------
(***************************************************************************)
(* A protobuf call above a chain of any number of interceptors keeps       *)
(* ResponseContract: ProtoSpec implements it, for every script, any number *)
(* of messages and a handler that has all the methods.  What holds at the  *)
(* end of a call is proved for the other handlers too.                     *)
(*                                                                         *)
(* The callbacks on their way to the handler are read like one tape: the   *)
(* protoQueue, then the queue of the dispatcher, and so on down the chain  *)
(* to the transport.  The reader counts.  It starts from what the handler  *)
(* has heard, must find the metadata as number 0 and the messages as 1, 2, *)
(* ... without a gap, and stops to look at the first block that ends the   *)
(* call.  What it has counted on entry to each queue (FlowInv's function   *)
(* c) is all that the stages have to agree on: a step touches one or two   *)
(* queues, and leaves the reader with the same count elsewhere.            *)
(***************************************************************************)
EXTENDS ProtoCall, SequenceTheorems, TLAPS

Statuses == {"ok", "error", "cancelled"}
Closes == {Close(status) : status \in Statuses}

Unparsable == Event("unparsable", 0)
Wrote == Event("didWrite", 0)

(* The metadata and the messages, which the reader counts.                 *)
Items == {Event("metadata", 0)} \union {Event("data", k) : k \in Nat \ {0}}

(* What ends the call for the handler, at once or when it is dispatched.   *)
Breaks == Closes \union {Unparsable}

Orders == {Command(c) : c \in Commands}
Callbacks == Items \union Closes \union {Wrote}
Events == Callbacks \union {Unparsable}
Blocks == Orders \union Events

(* The handler has all the methods, like GRPCUnaryResponseHandler.         *)
Complete == user.methods = Methods

Users == [script : Scripts, methods : Handlers, asked : Nat, cancel : BOOLEAN]

Tapes == Seq(Callbacks)
Queues == [Stages -> Seq(Blocks)]
Downs == [Managers -> BOOLEAN]

(* Only events are above the chain, and only commands below it.            *)
Sorted(q) ==
  q \in Queues /\ q[0] \in Seq(Events) /\ q[Transport] \in Seq(Orders)

-----------------------------------------------------------------------------
(* The reader.  It has counted v, or it has stopped.                       *)
Stopped == -1

(* What it has counted when it has read x,                                 *)
After(x, v) ==
  IF v = Stopped \/ x \in Breaks THEN Stopped ELSE IF x \in Items THEN v + 1 ELSE v

(* and what it may read: the next item, and a close without an error only  *)
(* when the transport is done and all n items were counted.                *)
Fits(n, done, x, v) ==
  v # Stopped => /\ x \in Items => x.arg = v
                 /\ x = Close("ok") => done /\ v = n

(* It reads s from the count v to the count w, never past n.               *)
Reads(n, done, s, v, w) ==
  \E g \in [0..Len(s) -> Stopped..n] :
    /\ g[0] = v /\ g[Len(s)] = w
    /\ \A a \in 1..Len(s) : Fits(n, done, s[a], g[a - 1]) /\ g[a] = After(s[a], g[a - 1])

(* The tape: count is that of the handler, c[i] that on entry to the queue *)
(* of stage i.  A manager that is shut down has nothing more to pass on.   *)
Flow(count, c, n, tape, queues, down) ==
  /\ count \in 0..n
  /\ c \in [Stages -> Stopped..n]
  /\ Reads(n, down[Transport], tape, count, c[0])
  /\ \A i \in 0..N : Reads(n, down[Transport], queues[i], c[i], c[i + 1])
  /\ c[Transport] \in {Stopped, n}
  /\ \A i \in Managers : down[i] => c[i] = Stopped

-----------------------------------------------------------------------------
Heard(what) == {i \in DOMAIN heard : heard[i].event = what}
Given == {heard[i].arg : i \in Heard("data")}

(* How many items the transport has sent.                                  *)
Sent == IF transport.metadata THEN transport.received + 1 ELSE 0

ProtoTypeInv ==
  /\ user \in Users
  /\ protoCall \in [call : BOOLEAN, handler : BOOLEAN]
  /\ protoQueue \in Tapes
  /\ Sorted(queue)
  /\ shutDown \in Downs
  /\ transport \in [started : BOOLEAN, metadata : BOOLEAN, writes : Nat, received : Nat]
  /\ heard \in Tapes

(* The handler has heard count items, and no close.                        *)
HasHeard(count) ==
  /\ Heard("close") = {}
  /\ Heard("metadata") = {} <=> count = 0
  /\ Given = 1..(count - 1)

(* As long as the protobuf call has a handler, the reader gets from what   *)
(* the handler has heard to the end of the tape.                           *)
FlowInv ==
  /\ ~transport.metadata => transport.received = 0
  /\ protoCall.handler =>
       \E count \in 0..Sent, c \in [Stages -> Stopped..Sent] :
         HasHeard(count) /\ Flow(count, c, Sent, protoQueue, queue, shutDown)

ProtoInv == ProtoTypeInv /\ Complete /\ FlowInv

-----------------------------------------------------------------------------
(* The blocks differ.                                                      *)
LEMMA BlockKinds ==
  /\ \A b \in Orders : /\ IsCommand(b) /\ ~IsClose(b)
                       /\ b \notin Items /\ b \notin Breaks
  /\ \A b \in Events : ~IsCommand(b)
  /\ \A b \in Items : b \notin Breaks /\ ~IsClose(b)
  /\ \A b \in Closes : b \in Breaks /\ IsClose(b)
  /\ \A b \in Blocks : IsClose(b) => b \in Closes
  /\ Wrote \notin Items /\ Wrote \notin Breaks /\ ~IsClose(Wrote)
  /\ Unparsable \in Breaks /\ Unparsable \notin Callbacks /\ ~IsClose(Unparsable)
<1> USE DEF Orders, Command, Commands, Items, Closes, Close, Statuses, Breaks, Event,
        Unparsable, Wrote, Callbacks, Events, Blocks
<1>1. \A b \in Orders : IsCommand(b) /\ DOMAIN b = {"command"}
  BY DEF IsCommand
<1>2. \A b \in Events : ~IsCommand(b) /\ "event" \in DOMAIN b
  BY DEF IsCommand
<1>3. \A b \in Orders : ~IsClose(b) /\ b \notin Items /\ b \notin Breaks
  BY <1>1, <1>2 DEF IsClose
<1>4. \A b \in Items : b.event # "close" /\ b.event # "unparsable" /\ b.event # "didWrite"
  OBVIOUS
<1>5. \A b \in Closes : b.event = "close" /\ b \in Breaks /\ IsClose(b)
  BY DEF IsClose
<1>6. \A b : IsClose(b) => b \in Closes
  BY DEF IsClose
<1>7. \A b \in Items : b \notin Breaks /\ ~IsClose(b)
  BY <1>4, <1>5, <1>6
<1>8. Wrote \notin Items /\ Wrote \notin Breaks /\ ~IsClose(Wrote)
  <2>1. Wrote.event = "didWrite" /\ Unparsable.event = "unparsable"
    OBVIOUS
  <2> QED
    BY <1>4, <1>5, <1>6, <2>1, Zenon
<1>9. Unparsable \in Breaks /\ Unparsable \notin Callbacks /\ ~IsClose(Unparsable)
  BY <1>4, <1>5, <1>6, Zenon
<1> QED
  BY <1>1, <1>2, <1>3, <1>5, <1>6, <1>7, <1>8, <1>9

(* The reader reads what is added at the end,                              *)
LEMMA ReadsAppend ==
  ASSUME NEW n \in Nat, NEW done \in BOOLEAN, NEW S, NEW s \in Seq(S), NEW x \in S,
         NEW v, NEW w, Reads(n, done, s, v, w), Fits(n, done, x, w), After(x, w) \in Stopped..n
  PROVE  Reads(n, done, Append(s, x), v, After(x, w))
<1> DEFINE t == Append(s, x)
<1>1. PICK g \in [0..Len(s) -> Stopped..n] :
        /\ g[0] = v /\ g[Len(s)] = w
        /\ \A a \in 1..Len(s) : Fits(n, done, s[a], g[a - 1]) /\ g[a] = After(s[a], g[a - 1])
  BY DEF Reads
<1>2. /\ Len(s) \in Nat /\ Len(t) = Len(s) + 1 /\ t[Len(s) + 1] = x
      /\ \A a \in 1..Len(s) : t[a] = s[a]
  OBVIOUS
<1> DEFINE h == [a \in 0..Len(t) |-> IF a = Len(s) + 1 THEN After(x, w) ELSE g[a]]
<1> HIDE DEF t
<1>3. h \in [0..Len(t) -> Stopped..n]
  BY <1>2
<1>4. h[0] = v /\ h[Len(t)] = After(x, w) /\ h[Len(s)] = w
  BY <1>1, <1>2
<1>5. \A a \in 1..Len(s) : h[a] = g[a] /\ h[a - 1] = g[a - 1]
  BY <1>2
<1> HIDE DEF h
<1>6. ASSUME NEW a \in 1..Len(t)
      PROVE  Fits(n, done, t[a], h[a - 1]) /\ h[a] = After(t[a], h[a - 1])
  <2>1. CASE a \in 1..Len(s)
    BY <1>1, <1>2, <1>5, <2>1
  <2>2. CASE a = Len(s) + 1
    <3>1. a - 1 = Len(s)
      BY <1>2, <2>2
    <3> QED
      BY <1>2, <1>4, <2>2, <3>1
  <2> QED
    BY <1>2, <2>1, <2>2
<1>7. Reads(n, done, t, v, After(x, w))
  BY <1>3, <1>4, <1>6, Zenon DEF Reads
<1> QED
  BY <1>7 DEF t

(* and what is left when the first block is taken.                         *)
LEMMA ReadsTail ==
  ASSUME NEW n \in Nat, NEW done \in BOOLEAN, NEW S, NEW s \in Seq(S), s # << >>,
         NEW v, NEW w, Reads(n, done, s, v, w)
  PROVE  /\ Fits(n, done, Head(s), v) /\ After(Head(s), v) \in Stopped..n
         /\ v \in Stopped..n
         /\ Reads(n, done, Tail(s), After(Head(s), v), w)
<1> DEFINE t == Tail(s)
<1>1. PICK g \in [0..Len(s) -> Stopped..n] :
        /\ g[0] = v /\ g[Len(s)] = w
        /\ \A a \in 1..Len(s) : Fits(n, done, s[a], g[a - 1]) /\ g[a] = After(s[a], g[a - 1])
  BY DEF Reads
<1>2. /\ Len(s) \in Nat \ {0} /\ Len(t) = Len(s) - 1 /\ s[1] = Head(s)
      /\ \A a \in 1..Len(t) : t[a] = s[a + 1]
  OBVIOUS
<1>3. /\ Fits(n, done, Head(s), v) /\ g[1] = After(Head(s), v)
      /\ g[1] \in Stopped..n /\ g[0] \in Stopped..n
  <2>1. 1 \in 1..Len(s) /\ 1 - 1 = 0
    BY <1>2
  <2> QED
    BY <1>1, <1>2, <2>1
<1> DEFINE h == [a \in 0..Len(t) |-> g[a + 1]]
<1> HIDE DEF t
<1>4. h \in [0..Len(t) -> Stopped..n] /\ h[0] = g[1] /\ h[Len(t)] = w
  BY <1>1, <1>2
<1>5. \A a \in 1..Len(t) : h[a] = g[a + 1] /\ h[a - 1] = g[(a + 1) - 1]
  BY <1>2
<1> HIDE DEF h
<1>6. ASSUME NEW a \in 1..Len(t)
      PROVE  Fits(n, done, t[a], h[a - 1]) /\ h[a] = After(t[a], h[a - 1])
  <2>1. a + 1 \in 1..Len(s)
    BY <1>2
  <2> QED
    BY <1>1, <1>2, <1>5, <2>1, Zenon
<1>7. Reads(n, done, t, After(Head(s), v), w)
  BY <1>3, <1>4, <1>6, Zenon DEF Reads
<1> QED
  BY <1>1, <1>3, <1>7 DEF t

(* A reader that has stopped reads anything.                               *)
LEMMA ReadsStopped ==
  ASSUME NEW n \in Nat, NEW done, NEW S, NEW s \in Seq(S)
  PROVE  Reads(n, done, s, Stopped, Stopped)
<1> DEFINE g == [a \in 0..Len(s) |-> Stopped]
<1>1. Len(s) \in Nat /\ Stopped \in Stopped..n
  BY DEF Stopped
<1>2. g \in [0..Len(s) -> Stopped..n] /\ g[0] = Stopped /\ g[Len(s)] = Stopped
  BY <1>1
<1>3. \A a \in 1..Len(s) : g[a] = Stopped /\ g[a - 1] = Stopped
  BY <1>1
<1> HIDE DEF g
<1> QED
  BY <1>2, <1>3 DEF Reads, Fits, After

(* More may come in until the transport is done.                           *)
LEMMA ReadsMore ==
  ASSUME NEW n \in Nat, NEW m \in Nat, NEW done \in BOOLEAN, NEW over \in BOOLEAN,
         n <= m, done => over /\ n = m,
         NEW S, NEW s \in Seq(S), NEW v, NEW w, Reads(n, done, s, v, w)
  PROVE  Reads(m, over, s, v, w)
<1>1. PICK g \in [0..Len(s) -> Stopped..n] :
        /\ g[0] = v /\ g[Len(s)] = w
        /\ \A a \in 1..Len(s) : Fits(n, done, s[a], g[a - 1]) /\ g[a] = After(s[a], g[a - 1])
  BY DEF Reads
<1>2. g \in [0..Len(s) -> Stopped..m]
  BY DEF Stopped
<1>3. \A a \in 1..Len(s) : Fits(m, over, s[a], g[a - 1])
  BY <1>1 DEF Fits
<1> QED
  BY <1>1, <1>2, <1>3, SMTT(20) DEF Reads

-----------------------------------------------------------------------------
(* What the steps do to the tape.                                          *)

LEMMA StageFacts ==
  /\ N \in Nat /\ Transport = N + 1 /\ Transport \in Stages /\ Transport \in Managers
  /\ 0..N \subseteq Stages /\ Managers \subseteq Stages /\ 1..N \subseteq Managers
  /\ Stages = (0..N) \union {Transport} /\ Transport \notin 0..N
BY ChainAssumption DEF Transport, Stages, Managers

(* A stage hands its first block to the stage above.                       *)
LEMMA FlowMove ==
  ASSUME NEW n \in Nat, NEW tape \in Tapes, NEW q \in Queues, NEW down \in Downs,
         NEW count, NEW c, Flow(count, c, n, tape, q, down),
         NEW i \in 1..N, q[i] # << >>, NEW x, x = Head(q[i])
  PROVE  Flow(count, [c EXCEPT ![i] = After(x, c[i])], n, tape,
              [q EXCEPT ![i] = Tail(@), ![i - 1] = Append(@, x)],
              [down EXCEPT ![i] = @ \/ IsClose(x)])
<1> DEFINE d == [c EXCEPT ![i] = After(x, c[i])]
           p == [q EXCEPT ![i] = Tail(@), ![i - 1] = Append(@, x)]
           e == [down EXCEPT ![i] = @ \/ IsClose(x)]
<1>1. /\ i \in Stages /\ i - 1 \in 0..N /\ i \in 0..N /\ i # i - 1 /\ (i - 1) + 1 = i
      /\ i \in Managers /\ i # Transport /\ i + 1 # i
  BY StageFacts
<1>2. q[i] \in Seq(Blocks) /\ q[i - 1] \in Seq(Blocks) /\ x \in Blocks
  BY <1>1, StageFacts DEF Queues
<1>3. /\ Fits(n, down[Transport], x, c[i]) /\ After(x, c[i]) \in Stopped..n
      /\ Reads(n, down[Transport], Tail(q[i]), After(x, c[i]), c[i + 1])
  <2>1. Reads(n, down[Transport], q[i], c[i], c[i + 1]) /\ down[Transport] \in BOOLEAN
    BY <1>1, StageFacts DEF Flow, Downs
  <2> QED
    BY <1>2, <2>1, ReadsTail
<1>4. Reads(n, down[Transport], Append(q[i - 1], x), c[i - 1], After(x, c[i]))
  <2>1. Reads(n, down[Transport], q[i - 1], c[i - 1], c[i])
    BY <1>1 DEF Flow
  <2> QED
    BY <1>2, <1>3, <2>1, StageFacts, ReadsAppend DEF Downs
<1>5. /\ d \in [Stages -> Stopped..n] /\ d[i] = After(x, c[i])
      /\ \A k \in Stages : k # i => d[k] = c[k]
  BY <1>1, <1>3 DEF Flow
<1>6. /\ p[i] = Tail(q[i]) /\ p[i - 1] = Append(q[i - 1], x)
      /\ \A k \in 0..N : k # i /\ k # i - 1 => p[k] = q[k]
  BY <1>1, StageFacts, Zenon DEF Queues
<1>7. /\ e[Transport] = down[Transport] /\ e[i] = (down[i] \/ IsClose(x))
      /\ \A k \in Managers : k # i => e[k] = down[k]
  BY <1>1, StageFacts DEF Downs
<1> HIDE DEF d, p, e
<1>8. Reads(n, e[Transport], tape, count, d[0])
  BY <1>1, <1>5, <1>7, StageFacts DEF Flow
<1>9. ASSUME NEW k \in 0..N
      PROVE  Reads(n, e[Transport], p[k], d[k], d[k + 1])
  <2>1. k \in Stages /\ k + 1 \in Stages
    BY StageFacts DEF Stages
  <2>2. CASE k = i
    BY <1>1, <1>3, <1>5, <1>6, <1>7, <2>1, <2>2
  <2>3. CASE k = i - 1
    BY <1>1, <1>4, <1>5, <1>6, <1>7, <2>1, <2>3, Zenon
  <2>4. CASE k # i /\ k # i - 1
    <3>1. k + 1 # i
      BY <2>4
    <3> QED
      BY <1>5, <1>6, <1>7, <2>1, <2>4, <3>1 DEF Flow
  <2> QED
    BY <2>2, <2>3, <2>4
<1>10. d[Transport] \in {Stopped, n}
  BY <1>1, <1>5, StageFacts DEF Flow
<1>11. ASSUME NEW k \in Managers, e[k]
       PROVE  d[k] = Stopped
  <2>1. CASE k = i
    <3>1. IsClose(x) => x \in Breaks
      BY <1>2, BlockKinds
    <3> QED
      BY <1>5, <1>7, <1>11, <2>1, <3>1, Zenon DEF Flow, After
  <2>2. CASE k # i
    BY <1>5, <1>7, <1>11, <2>2, StageFacts, Zenon DEF Flow
  <2> QED
    BY <2>1, <2>2
<1>12. Flow(count, d, n, tape, p, e)
  BY <1>5, <1>8, <1>9, <1>10, <1>11 DEF Flow
<1> QED
  BY <1>12 DEF d, p, e

(* A stage drops its first block, which says nothing to the reader.        *)
LEMMA FlowDrop ==
  ASSUME NEW n \in Nat, NEW tape \in Tapes, NEW q \in Queues, NEW down \in Downs,
         NEW count, NEW c, Flow(count, c, n, tape, q, down),
         NEW i \in 0..N, q[i] # << >>, After(Head(q[i]), c[i]) = c[i]
  PROVE  Flow(count, c, n, tape, [q EXCEPT ![i] = Tail(@)], down)
<1> DEFINE p == [q EXCEPT ![i] = Tail(@)]
<1>1. i \in Stages /\ q[i] \in Seq(Blocks)
  BY StageFacts DEF Queues
<1>2. Reads(n, down[Transport], Tail(q[i]), c[i], c[i + 1])
  BY <1>1, StageFacts, ReadsTail DEF Flow, Downs
<1>3. p[i] = Tail(q[i]) /\ \A k \in 0..N : k # i => p[k] = q[k]
  BY <1>1, StageFacts DEF Queues
<1> HIDE DEF p
<1>4. \A k \in 0..N : Reads(n, down[Transport], p[k], c[k], c[k + 1])
  BY <1>2, <1>3 DEF Flow
<1>5. Flow(count, c, n, tape, p, down)
  BY <1>4 DEF Flow
<1> QED
  BY <1>5 DEF p

(* A command is added to a queue.                                          *)
LEMMA FlowOrder ==
  ASSUME NEW n \in Nat, NEW tape \in Tapes, NEW q \in Queues, NEW down \in Downs,
         NEW count, NEW c, Flow(count, c, n, tape, q, down),
         NEW i \in Stages, NEW b \in Orders
  PROVE  Flow(count, c, n, tape, [q EXCEPT ![i] = Append(@, b)], down)
<1> DEFINE p == [q EXCEPT ![i] = Append(@, b)]
<1>1. q[i] \in Seq(Blocks) /\ b \in Blocks /\ p[i] = Append(q[i], b)
  BY DEF Queues, Blocks
<1>2. \A k \in 0..N : k # i => p[k] = q[k]
  BY StageFacts DEF Queues
<1> HIDE DEF p
<1>3. ASSUME i \in 0..N
      PROVE  Reads(n, down[Transport], Append(q[i], b), c[i], c[i + 1])
  <2>1. c[i + 1] \in Stopped..n /\ Reads(n, down[Transport], q[i], c[i], c[i + 1])
    BY <1>3, ChainAssumption DEF Flow, Stages, Transport
  <2>2. b \notin Items /\ b \notin Breaks /\ b # Close("ok")
    BY BlockKinds DEF IsClose
  <2>3. After(b, c[i + 1]) = c[i + 1] /\ Fits(n, down[Transport], b, c[i + 1])
    BY <2>2 DEF After, Fits
  <2>4. Reads(n, down[Transport], Append(q[i], b), c[i], After(b, c[i + 1]))
    BY <1>1, <2>1, <2>3, StageFacts, ReadsAppend DEF Downs
  <2> QED
    BY <2>3, <2>4
<1>4. \A k \in 0..N : Reads(n, down[Transport], p[k], c[k], c[k + 1])
  BY <1>1, <1>2, <1>3, Zenon DEF Flow
<1>5. Flow(count, c, n, tape, p, down)
  BY <1>4 DEF Flow
<1> QED
  BY <1>5 DEF p

(* A block that ends the call is added to the queue of stage i: the reader *)
(* stops there, whatever is below.                                         *)
BreaksAt(n, q, down, c, i, x, p, e) ==
  /\ n \in Nat /\ q \in Queues /\ down \in Downs /\ i \in 0..N
  /\ x \in Closes /\ p \in Queues /\ e \in Downs
  /\ p[i] = Append(q[i], x) /\ \A k \in 0..N : k < i => p[k] = q[k]
  /\ \A k \in Managers : k <= i => e[k] = down[k]
  /\ down[Transport] => e[Transport]
  /\ Fits(n, e[Transport], x, c[i + 1])

LEMMA FlowBreak ==
  ASSUME NEW n, NEW tape \in Tapes, NEW q, NEW down, NEW count, NEW c, NEW i, NEW x,
         NEW p, NEW e, Flow(count, c, n, tape, q, down), BreaksAt(n, q, down, c, i, x, p, e)
  PROVE  \E f : Flow(count, f, n, tape, p, e)
<1> USE DEF BreaksAt
<1> DEFINE d == [k \in Stages |-> IF k <= i THEN c[k] ELSE Stopped]
           over == e[Transport]
<1>1. /\ i \in Stages /\ i + 1 \in Stages /\ ~(i + 1 <= i) /\ 0 \in Stages /\ 0 <= i
      /\ ~(Transport <= i)
  BY ChainAssumption DEF Stages, Transport
<1>2. /\ \A k \in Stages : k <= i => d[k] = c[k]
      /\ \A k \in Stages : ~(k <= i) => d[k] = Stopped
  OBVIOUS
<1>3. Stopped \in Stopped..n
  BY DEF Stopped
<1>4. d \in [Stages -> Stopped..n]
  BY <1>3 DEF Flow
<1> HIDE DEF d
<1>5. down[Transport] \in BOOLEAN /\ over \in BOOLEAN /\ n <= n
  BY StageFacts DEF Downs
<1>6. Reads(n, over, tape, count, c[0])
  BY <1>5, ReadsMore DEF Flow, Tapes
<1>7. \A k \in 0..N : Reads(n, over, q[k], c[k], c[k + 1])
  <2> SUFFICES ASSUME NEW k \in 0..N PROVE Reads(n, over, q[k], c[k], c[k + 1])
    OBVIOUS
  <2>1. q[k] \in Seq(Blocks)
    BY StageFacts DEF Queues
  <2> QED
    BY <1>5, <2>1, ReadsMore DEF Flow
<1>8. Reads(n, over, Append(q[i], x), c[i], Stopped)
  <2>1. After(x, c[i + 1]) = Stopped
    BY BlockKinds DEF After
  <2>2. q[i] \in Seq(Blocks) /\ x \in Blocks
    BY <1>1 DEF Queues, Blocks, Events, Callbacks
  <2>3. Reads(n, over, q[i], c[i], c[i + 1])
    BY <1>7
  <2> QED
    BY <1>3, <1>5, <2>1, <2>2, <2>3, ReadsAppend
<1> HIDE DEF over
<1>9. ASSUME NEW k \in 0..N
      PROVE  Reads(n, over, p[k], d[k], d[k + 1])
  <2>1. k \in Stages /\ k + 1 \in Stages /\ p[k] \in Seq(Blocks)
    BY ChainAssumption DEF Stages, Transport, Queues
  <2>2. CASE k < i
    <3>1. k <= i /\ k + 1 <= i
      BY <2>2
    <3> QED
      BY <1>2, <1>7, <2>1, <2>2, <3>1
  <2>3. CASE k = i
    <3>1. i <= i /\ d[i] = c[i] /\ d[i + 1] = Stopped
      BY <1>1, <1>2
    <3> QED
      BY <1>8, <2>3, <3>1, Zenon
  <2>4. CASE k > i
    <3>1. ~(k <= i) /\ ~(k + 1 <= i)
      BY <2>4
    <3>2. d[k] = Stopped /\ d[k + 1] = Stopped
      BY <1>2, <2>1, <3>1
    <3> QED
      BY <2>1, <3>2, ReadsStopped
  <2> QED
    BY <2>2, <2>3, <2>4
<1>10. Reads(n, over, tape, count, d[0]) /\ d[Transport] = Stopped
  BY <1>1, <1>2, <1>6, StageFacts
<1>11. ASSUME NEW k \in Managers, e[k]
       PROVE  d[k] = Stopped
  <2>1. k \in Stages
    BY StageFacts
  <2> QED
    BY <1>2, <1>11, <2>1 DEF Flow
<1>12. Flow(count, d, n, tape, p, e)
  BY <1>4, <1>9, <1>10, <1>11 DEF Flow, over
<1> QED
  BY <1>12

(* The same at the end of the protoQueue.                                  *)
LEMMA FlowClose ==
  ASSUME NEW n \in Nat, NEW tape \in Tapes, NEW q \in Queues, NEW down \in Downs,
         NEW count, NEW c, Flow(count, c, n, tape, q, down),
         NEW p \in Queues, NEW x \in Closes, x # Close("ok")
  PROVE  Flow(count, [k \in Stages |-> Stopped], n, Append(tape, x), p, down)
<1> DEFINE d == [k \in Stages |-> Stopped]
<1>1. Stopped \in Stopped..n
  BY DEF Stopped
<1>2. d \in [Stages -> Stopped..n] /\ \A k \in Stages : d[k] = Stopped
  BY <1>1
<1> HIDE DEF d
<1>3. down[Transport] \in BOOLEAN /\ Reads(n, down[Transport], tape, count, c[0])
  BY StageFacts DEF Downs, Flow
<1>4. After(x, c[0]) = Stopped /\ Fits(n, down[Transport], x, c[0]) /\ x \in Callbacks
  BY BlockKinds DEF After, Fits, Callbacks
<1>5. Reads(n, down[Transport], Append(tape, x), count, Stopped)
  BY <1>1, <1>3, <1>4, ReadsAppend DEF Tapes
<1>6. \A k \in 0..N : Reads(n, down[Transport], p[k], d[k], d[k + 1])
  <2> SUFFICES ASSUME NEW k \in 0..N PROVE Reads(n, down[Transport], p[k], d[k], d[k + 1])
    OBVIOUS
  <2>1. k \in Stages /\ k + 1 \in Stages /\ p[k] \in Seq(Blocks)
    BY ChainAssumption DEF Stages, Transport, Queues
  <2> QED
    BY <1>2, <2>1, ReadsStopped
<1>7. 0 \in Stages
  BY StageFacts
<1>8. Flow(count, d, n, Append(tape, x), p, down)
  BY <1>2, <1>5, <1>6, <1>7, StageFacts DEF Flow
<1> QED
  BY <1>8 DEF d

(* The dispatcher hands its first event to the protoQueue.                 *)
LEMMA FlowDispatch ==
  ASSUME NEW n \in Nat, NEW tape \in Tapes, NEW q \in Queues, NEW down \in Downs,
         NEW count, NEW c, Flow(count, c, n, tape, q, down),
         q[0] # << >>, NEW x \in Callbacks, x = Head(q[0])
  PROVE  Flow(count, [c EXCEPT ![0] = After(x, c[0])], n, Append(tape, x),
              [q EXCEPT ![0] = Tail(@)], down)
<1> DEFINE d == [c EXCEPT ![0] = After(x, c[0])]
           p == [q EXCEPT ![0] = Tail(@)]
<1>1. 0 \in 0..N /\ 0 \in Stages /\ q[0] \in Seq(Blocks) /\ 0 \notin Managers
  BY ChainAssumption DEF Stages, Transport, Managers, Queues
<1>2. /\ Fits(n, down[Transport], x, c[0]) /\ After(x, c[0]) \in Stopped..n
      /\ Reads(n, down[Transport], Tail(q[0]), After(x, c[0]), c[0 + 1])
  <2>1. Reads(n, down[Transport], q[0], c[0], c[0 + 1]) /\ down[Transport] \in BOOLEAN
    BY <1>1, StageFacts DEF Flow, Downs
  <2> QED
    BY <1>1, <2>1, ReadsTail
<1>3. Reads(n, down[Transport], Append(tape, x), count, After(x, c[0]))
  BY <1>2, StageFacts, ReadsAppend DEF Flow, Tapes, Downs
<1>4. /\ d \in [Stages -> Stopped..n] /\ d[0] = After(x, c[0])
      /\ \A k \in Stages : k # 0 => d[k] = c[k]
  BY <1>1, <1>2 DEF Flow
<1>5. p[0] = Tail(q[0]) /\ \A k \in 0..N : k # 0 => p[k] = q[k]
  BY <1>1, StageFacts DEF Queues
<1> HIDE DEF d, p
<1>6. ASSUME NEW k \in 0..N
      PROVE  Reads(n, down[Transport], p[k], d[k], d[k + 1])
  <2>1. k \in Stages /\ k + 1 \in Stages /\ k + 1 # 0
    BY StageFacts DEF Stages
  <2>2. CASE k = 0
    BY <1>2, <1>4, <1>5, <2>1, <2>2
  <2>3. CASE k # 0
    BY <1>4, <1>5, <2>1, <2>3 DEF Flow
  <2> QED
    BY <2>2, <2>3
<1>7. d[Transport] = c[Transport] /\ \A k \in Managers : d[k] = c[k]
  BY <1>1, <1>4, StageFacts
<1>8. Flow(count, d, n, Append(tape, x), p, down)
  BY <1>3, <1>4, <1>6, <1>7 DEF Flow
<1> QED
  BY <1>8 DEF d, p

(* The handler is given the first block of the protoQueue.                 *)
LEMMA FlowTaken ==
  ASSUME NEW n \in Nat, NEW tape \in Tapes, NEW q \in Queues, NEW down \in Downs,
         NEW count, NEW c, Flow(count, c, n, tape, q, down),
         tape # << >>, NEW x, x = Head(tape)
  PROVE  /\ Fits(n, down[Transport], x, count)
         /\ x \notin Breaks => /\ After(x, count) \in 0..n
                              /\ Flow(After(x, count), c, n, Tail(tape), q, down)
<1>1. count \in 0..n /\ count # Stopped
  BY DEF Flow, Stopped
<1>2. /\ Fits(n, down[Transport], x, count) /\ After(x, count) \in Stopped..n
      /\ Reads(n, down[Transport], Tail(tape), After(x, count), c[0])
  <2>1. Reads(n, down[Transport], tape, count, c[0]) /\ down[Transport] \in BOOLEAN
    BY StageFacts DEF Flow, Downs
  <2> QED
    BY <2>1, ReadsTail DEF Tapes
<1>3. x \notin Breaks => After(x, count) \in 0..n
  BY <1>1, <1>2 DEF After, Stopped
<1> QED
  BY <1>2, <1>3 DEF Flow

(* The transport sends an event, which may be the next item.               *)
LEMMA FlowEmit ==
  ASSUME NEW n \in Nat, NEW tape \in Tapes, NEW q \in Queues, NEW down \in Downs,
         NEW count, NEW c, Flow(count, c, n, tape, q, down), ~down[Transport],
         NEW m \in Nat, n <= m, NEW x \in Events, Fits(m, FALSE, x, c[Transport]),
         After(x, c[Transport]) \in {Stopped, m}
  PROVE  Flow(count, [c EXCEPT ![Transport] = After(x, c[Transport])], m, tape,
              [q EXCEPT ![N] = Append(@, x)], down)
<1> DEFINE w == After(x, c[Transport])
           d == [c EXCEPT ![Transport] = w]
           p == [q EXCEPT ![N] = Append(@, x)]
<1>1. /\ N \in 0..N /\ N \in Stages /\ N + 1 = Transport /\ Transport \in Stages
      /\ q[N] \in Seq(Blocks) /\ x \in Blocks /\ 0 \in Stages /\ 0 # Transport
  BY ChainAssumption DEF Stages, Transport, Queues, Blocks
<1>2. w \in Stopped..m /\ c \in [Stages -> Stopped..m] /\ c \in [Stages -> Stopped..n]
  BY DEF Flow, Stopped
<1>3. /\ Reads(m, FALSE, tape, count, c[0])
      /\ \A k \in 0..N : Reads(m, FALSE, q[k], c[k], c[k + 1])
  <2>1. Reads(m, FALSE, tape, count, c[0])
    <3>1. Reads(n, FALSE, tape, count, c[0])
      BY StageFacts, Zenon DEF Flow, Downs
    <3> QED
      BY <3>1, ReadsMore, Zenon DEF Tapes
  <2>2. ASSUME NEW k \in 0..N PROVE Reads(m, FALSE, q[k], c[k], c[k + 1])
    <3>1. Reads(n, FALSE, q[k], c[k], c[k + 1]) /\ q[k] \in Seq(Blocks)
      BY StageFacts, Zenon DEF Flow, Queues, Downs
    <3> QED
      BY <3>1, ReadsMore, Zenon
  <2> QED
    BY <2>1, <2>2, Zenon
<1>4. Reads(m, FALSE, Append(q[N], x), c[N], w)
  <2>1. Reads(m, FALSE, q[N], c[N], c[Transport])
    BY <1>1, <1>3, Zenon
  <2> QED
    BY <1>1, <1>2, <2>1, ReadsAppend, Zenon
<1>5. /\ d \in [Stages -> Stopped..m] /\ d[Transport] = w
      /\ \A k \in Stages : k # Transport => d[k] = c[k]
  BY <1>1, <1>2
<1>6. p[N] = Append(q[N], x) /\ \A k \in 0..N : k # N => p[k] = q[k]
  BY <1>1, StageFacts DEF Queues
<1> HIDE DEF d, p, w
<1>7. ASSUME NEW k \in 0..N
      PROVE  Reads(m, FALSE, p[k], d[k], d[k + 1])
  <2>1. k \in Stages /\ k + 1 \in Stages /\ k # Transport
    BY StageFacts DEF Stages
  <2>2. CASE k = N
    <3>1. d[N] = c[N] /\ d[N + 1] = w
      BY <1>1, <1>5, <2>1, <2>2
    <3> QED
      BY <1>4, <1>6, <2>2, <3>1, Zenon
  <2>3. CASE k # N
    <3>1. k + 1 # Transport
      BY <2>3, ChainAssumption DEF Transport
    <3> QED
      BY <1>3, <1>5, <1>6, <2>1, <2>3, <3>1, Zenon
  <2> QED
    BY <2>2, <2>3, Zenon
<1>8. Reads(m, FALSE, tape, count, d[0]) /\ count \in 0..m
  <2>1. d[0] = c[0]
    BY <1>1, <1>5
  <2>2. count \in 0..m
    BY DEF Flow
  <2> QED
    BY <1>3, <2>1, <2>2, Zenon
<1>9. \A k \in Managers : down[k] => d[k] = Stopped
  BY <1>5, StageFacts DEF Flow
<1>10. d[Transport] \in {Stopped, m} /\ down[Transport] = FALSE
  BY <1>5, StageFacts DEF w, Downs
<1>11. Flow(count, d, m, tape, p, down)
  BY <1>5, <1>7, <1>8, <1>9, <1>10, Zenon DEF Flow
<1> QED
  BY <1>11 DEF d, p, w

-----------------------------------------------------------------------------
(* The queues stay sorted when a block is taken or added.                  *)
LEMMA RestSorted ==
  ASSUME NEW p, Sorted(p), NEW i \in Stages, p[i] # << >>
  PROVE  Sorted([p EXCEPT ![i] = Tail(@)])
<1>1. 0 \in Stages /\ Transport \in Stages
  BY StageFacts
<1>2. p[i] \in Seq(Blocks) /\ Tail(p[i]) \in Seq(Blocks)
  BY DEF Sorted, Queues
<1>3. /\ i = 0 => Tail(p[i]) \in Seq(Events)
      /\ i = Transport => Tail(p[i]) \in Seq(Orders)
  BY DEF Sorted
<1> QED
  BY <1>1, <1>2, <1>3 DEF Sorted, Queues

LEMMA EventSorted ==
  ASSUME NEW p, Sorted(p), NEW i \in 0..N, NEW e \in Events
  PROVE  Sorted([p EXCEPT ![i] = Append(@, e)])
<1>1. 0 \in Stages /\ Transport \in Stages /\ i \in Stages /\ i # Transport
  BY StageFacts
<1>2. p[i] \in Seq(Blocks) /\ e \in Blocks
  BY <1>1 DEF Sorted, Queues, Blocks
<1> QED
  BY <1>1, <1>2 DEF Sorted, Queues

LEMMA OrderSorted ==
  ASSUME NEW p, Sorted(p), NEW i \in Managers, NEW b \in Orders
  PROVE  Sorted([p EXCEPT ![i] = Append(@, b)])
<1>1. 0 \in Stages /\ Transport \in Stages /\ i \in Stages /\ i # 0
  BY StageFacts DEF Managers
<1>2. p[i] \in Seq(Blocks) /\ b \in Blocks
  BY <1>1 DEF Sorted, Queues, Blocks
<1> QED
  BY <1>1, <1>2 DEF Sorted, Queues

LEMMA TellSorted ==
  ASSUME Sorted(queue), NEW b \in Commands
  PROVE  Sorted(Tell(b)) /\ Tell(b)[0] = queue[0]
<1>1. 1 \in Managers /\ 0 \in Stages /\ Command(b) \in Orders
  BY ChainAssumption DEF Managers, Transport, Stages, Orders
<1>2. Sorted([queue EXCEPT ![1] = Append(@, Command(b))])
  BY <1>1, OrderSorted
<1> QED
  BY <1>1, <1>2 DEF Tell, Sorted, Queues

(* What stage i makes of its first block.                                  *)
LEMMA PassesSorted ==
  ASSUME Sorted(queue), NEW i \in 1..N, queue[i] # << >>, NEW b, b = Head(queue[i])
  PROVE  Sorted(Passes(i, b)) /\ b \in Blocks
<1>1. /\ i \in Stages /\ i - 1 \in 0..N /\ i + 1 \in Managers /\ i + 1 \in Stages
      /\ i # i - 1 /\ i # i + 1 /\ i - 1 # i + 1 /\ i - 1 \in Stages
  BY ChainAssumption DEF Stages, Transport, Managers
<1>2. b \in Blocks
  BY <1>1 DEF Sorted, Queues
<1>3. Close("cancelled") \in Events
  BY DEF Closes, Statuses, Events, Callbacks
<1>4. IsCommand(b) => b \in Orders
  BY <1>2, BlockKinds DEF Blocks
<1>5. ~IsCommand(b) => b \in Events
  BY <1>2, BlockKinds DEF Blocks
<1>6. b = Command("cancel") => b \in Orders
  BY DEF Orders, Commands
<1> DEFINE r == [queue EXCEPT ![i] = Tail(@)]
           up(e) == [r EXCEPT ![i - 1] = Append(@, e)]
           down == [r EXCEPT ![i + 1] = Append(@, b)]
<1>7. Passes(i, b) = IF b = Command("cancel")
                       THEN [up(Close("cancelled")) EXCEPT ![i + 1] = Append(@, b)]
                       ELSE IF IsCommand(b) THEN down ELSE up(b)
  BY <1>1 DEF Passes, Sorted, Queues
<1>8. Sorted(r)
  BY <1>1, RestSorted
<1> HIDE DEF r
<1>9. \A e \in Events : Sorted(up(e))
  BY <1>1, <1>8, EventSorted
<1>10. b \in Orders => Sorted(down)
  BY <1>1, <1>8, OrderSorted
<1> HIDE DEF up, down
<1>11. b \in Orders => Sorted([up(Close("cancelled")) EXCEPT ![i + 1] = Append(@, b)])
  BY <1>1, <1>3, <1>9, OrderSorted
<1> QED
  BY <1>2, <1>3, <1>4, <1>5, <1>6, <1>7, <1>9, <1>10, <1>11

-----------------------------------------------------------------------------
(* The type invariant, action by action.                                   *)
LEMMA UserTyped ==
  ASSUME ProtoTypeInv, UserCalls \/ UserCancels
  PROVE  ProtoTypeInv'
<1>1. CASE UserCalls
  <2> DEFINE i == user.asked + 1
  <2>1. /\ user.script \in Seq({"start", "write", "finish", "receive"})
        /\ i \in 1..Len(user.script)
    BY <1>1, ChainAssumption DEF UserCalls, ProtoTypeInv, Users
  <2>2. user.script[i] \in Commands
    BY <2>1 DEF Commands
  <2>3. Sorted(queue')
    BY <1>1, <2>2, TellSorted DEF UserCalls, ProtoTypeInv
  <2>4. user' \in Users
    BY <1>1 DEF UserCalls, ProtoTypeInv, Users
  <2>5. protoCall' \in [call : BOOLEAN, handler : BOOLEAN]
    BY <1>1, Zenon DEF UserCalls, ProtoTypeInv
  <2> QED
    BY <1>1, <2>3, <2>4, <2>5 DEF UserCalls, ProtoTypeInv, Sorted
<1>2. CASE UserCancels
  <2>1. Sorted(queue')
    BY <1>2, TellSorted DEF UserCancels, ProtoTypeInv, Commands
  <2>2. user' \in Users
    BY <1>2, Zenon DEF UserCancels, ProtoTypeInv, Users
  <2>3. protoCall' \in [call : BOOLEAN, handler : BOOLEAN]
    BY <1>2, Zenon DEF UserCancels, Responds, ProtoTypeInv
  <2>4. Close("cancelled") \in Callbacks
    BY DEF Closes, Statuses, Callbacks
  <2>5. protoQueue' \in Tapes
    BY <1>2, <2>4 DEF UserCancels, ProtoTypeInv, Tapes
  <2> QED
    BY <1>2, <2>1, <2>2, <2>3, <2>5 DEF UserCancels, ProtoTypeInv, Sorted
<1> QED
  BY <1>1, <1>2

LEMMA InterceptTyped ==
  ASSUME ProtoTypeInv, NEW i \in 1..N, Intercept(i)
  PROVE  ProtoTypeInv'
<1>1. i \in Stages /\ i \in Managers
  BY StageFacts
<1>2. Sorted(queue')
  BY <1>1, RestSorted, PassesSorted DEF Intercept, ProtoTypeInv
<1>3. shutDown' \in Downs
  BY <1>1 DEF Intercept, ProtoTypeInv, Downs, IsClose
<1> QED
  BY <1>2, <1>3 DEF Intercept, ProtoTypeInv, Sorted

LEMMA DispatchTyped ==
  ASSUME ProtoTypeInv, Dispatch
  PROVE  /\ ProtoTypeInv'
         /\ Head(queue[0]) # Unparsable => Head(queue[0]) \in Callbacks
<1> DEFINE e == Head(queue[0])
<1>1. 0 \in Stages /\ queue[0] # << >> /\ queue \in Queues
  BY StageFacts DEF Dispatch, ProtoTypeInv, Sorted
<1>2. e \in Events
  BY <1>1 DEF ProtoTypeInv, Sorted
<1>3. e # Unparsable => e \in Callbacks
  BY <1>2 DEF Events
<1>4. Close("error") \in Callbacks
  BY DEF Closes, Statuses, Callbacks
<1>5. Sorted([queue EXCEPT ![0] = Tail(@)])
  BY <1>1, RestSorted DEF ProtoTypeInv
<1>6. Sorted([Tell("cancel") EXCEPT ![0] = Tail(@)])
  BY <1>1, TellSorted, RestSorted, Zenon DEF ProtoTypeInv, Commands
<1>7. CASE e = Unparsable
  <2>1. Sorted(queue')
    BY <1>5, <1>6, <1>7, Zenon DEF Dispatch, didReceiveUnparsable, Unparsable
  <2>2. /\ protoQueue' \in {protoQueue, Append(protoQueue, Close("error"))}
        /\ protoCall' \in {protoCall, [protoCall EXCEPT !.call = FALSE]}
    BY <1>7 DEF Dispatch, didReceiveUnparsable, Unparsable
  <2>3. protoQueue' \in Tapes
    <3>1. protoQueue \in Seq(Callbacks)
      BY DEF ProtoTypeInv, Tapes
    <3>2. Append(protoQueue, Close("error")) \in Seq(Callbacks)
      BY <1>4, <3>1
    <3> QED
      BY <2>2, <3>1, <3>2 DEF Tapes
  <2>4. protoCall' \in [call : BOOLEAN, handler : BOOLEAN]
    BY <2>2, Zenon DEF ProtoTypeInv
  <2> QED
    BY <1>7, <2>1, <2>3, <2>4 DEF Dispatch, ProtoTypeInv, Sorted
<1>8. CASE e # Unparsable
  <2>1. Sorted(queue')
    BY <1>5, <1>8, Zenon DEF Dispatch, didReceive, Unparsable
  <2>2. /\ protoQueue' \in {protoQueue, Append(protoQueue, e)}
        /\ protoCall' = [protoCall EXCEPT !.call = @ /\ ~IsClose(e)]
    BY <1>8 DEF Dispatch, didReceive, Unparsable
  <2>3. protoQueue' \in Tapes
    <3>1. protoQueue \in Seq(Callbacks)
      BY DEF ProtoTypeInv, Tapes
    <3>2. Append(protoQueue, e) \in Seq(Callbacks)
      BY <1>3, <1>8, <3>1
    <3> QED
      BY <2>2, <3>1, <3>2 DEF Tapes
  <2>4. protoCall' \in [call : BOOLEAN, handler : BOOLEAN]
    BY <2>2, Zenon DEF ProtoTypeInv
  <2> QED
    BY <1>3, <2>1, <2>3, <2>4 DEF Dispatch, ProtoTypeInv, Sorted
<1> QED
  BY <1>7, <1>8

LEMMA CallBackTyped ==
  ASSUME ProtoTypeInv, CallBack
  PROVE  ProtoTypeInv' /\ Head(protoQueue) \in Callbacks
<1>1. Head(protoQueue) \in Callbacks /\ Tail(protoQueue) \in Tapes
  BY DEF CallBack, ProtoTypeInv, Tapes
<1>2. heard' \in Tapes
  BY <1>1 DEF CallBack, ProtoTypeInv, Tapes
<1>3. protoCall' \in [call : BOOLEAN, handler : BOOLEAN]
  BY Zenon DEF CallBack, ProtoTypeInv
<1> QED
  BY <1>1, <1>2, <1>3 DEF CallBack, ProtoTypeInv, Sorted

LEMMA TransportRunsTyped ==
  ASSUME ProtoTypeInv, TransportRuns
  PROVE  ProtoTypeInv'
<1>1. Transport \in Stages /\ Transport \in Managers /\ N \in 0..N
  BY StageFacts
<1>2. Close("cancelled") \in Events
  BY DEF Closes, Statuses, Events, Callbacks
<1>3. Sorted([queue EXCEPT ![Transport] = Tail(@)])
  BY <1>1, RestSorted, Zenon DEF TransportRuns, ProtoTypeInv
<1>4. Sorted(queue')
  <2> DEFINE rest == [queue EXCEPT ![Transport] = Tail(@)]
  <2>1. queue' = rest \/ queue' = [rest EXCEPT ![N] = Append(@, Close("cancelled"))]
    BY DEF TransportRuns
  <2>2. Sorted(rest)
    BY <1>3
  <2> HIDE DEF rest
  <2>3. Sorted([rest EXCEPT ![N] = Append(@, Close("cancelled"))])
    BY <1>1, <1>2, <2>2, EventSorted
  <2> QED
    BY <2>1, <2>2, <2>3
<1>5. shutDown' \in Downs
  BY <1>1 DEF TransportRuns, ProtoTypeInv, Downs
<1>6. transport' \in [started : BOOLEAN, metadata : BOOLEAN, writes : Nat, received : Nat]
  <2>1. transport \in [started : BOOLEAN, metadata : BOOLEAN, writes : Nat, received : Nat]
    BY DEF ProtoTypeInv
  <2> DEFINE obeys(c) == Head(queue[Transport]) = Command(c) /\ ~shutDown[Transport]
             s == transport.started \/ obeys("start")
             w == IF obeys("write") THEN transport.writes + 1 ELSE transport.writes
  <2>2. transport' = [transport EXCEPT !.started = s, !.writes = w]
    BY DEF TransportRuns
  <2>3. s \in BOOLEAN /\ w \in Nat
    BY <2>1
  <2> HIDE DEF s, w
  <2> QED
    BY <2>1, <2>2, <2>3, Zenon
<1> QED
  BY <1>4, <1>5, <1>6 DEF TransportRuns, ProtoTypeInv, Sorted

Emits ==
  \/ TransportMetadata
  \/ TransportData
  \/ TransportWrote
  \/ \E status \in {"ok", "error"} : TransportCloses(status)

LEMMA EmitsTyped ==
  ASSUME ProtoTypeInv, Emits
  PROVE  ProtoTypeInv'
<1> DEFINE Types == [started : BOOLEAN, metadata : BOOLEAN, writes : Nat, received : Nat]
<1>1. PICK e \in Events, t \in Types : Emit(e, t) /\ shutDown' \in Downs
  <2> DEFINE P == \E e \in Events, t \in Types : Emit(e, t) /\ shutDown' \in Downs
  <2>0. transport \in Types /\ shutDown \in Downs
    BY DEF ProtoTypeInv
  <2>1. CASE TransportMetadata
    <3>1. Event("metadata", 0) \in Events /\ [transport EXCEPT !.metadata = TRUE] \in Types
      BY <2>0, Zenon DEF Items, Callbacks, Events
    <3> QED
      BY <2>0, <2>1, <3>1 DEF TransportMetadata
  <2>2. CASE TransportData
    <3>1. /\ Event("data", transport.received + 1) \in Events /\ Event("unparsable", 0) \in Events
          /\ [transport EXCEPT !.received = @ + 1] \in Types
      BY <2>0 DEF Items, Callbacks, Events, Unparsable
    <3> QED
      BY <2>0, <2>2, <3>1 DEF TransportData
  <2>3. CASE TransportWrote
    <3>1. Event("didWrite", 0) \in Events /\ [transport EXCEPT !.writes = @ - 1] \in Types
      BY <2>0, <2>3 DEF Wrote, Callbacks, Events, TransportWrote
    <3> QED
      BY <2>0, <2>3, <3>1 DEF TransportWrote
  <2>4. ASSUME NEW status \in {"ok", "error"}, TransportCloses(status)
        PROVE  P
    <3>1. Close(status) \in Events
      BY DEF Closes, Statuses, Callbacks, Events
    <3>2. shutDown' \in Downs
      BY <2>0, <2>4, Zenon DEF TransportCloses, Downs
    <3> QED
      BY <2>0, <2>4, <3>1, <3>2 DEF TransportCloses
  <2> QED
    BY <2>1, <2>2, <2>3, <2>4 DEF Emits
<1>2. Sorted(queue')
  <2>1. N \in 0..N /\ Sorted(queue) /\ queue' = [queue EXCEPT ![N] = Append(@, e)]
    BY <1>1, StageFacts DEF Emit, ProtoTypeInv
  <2> QED
    BY <2>1, EventSorted, Zenon
<1> QED
  BY <1>1, <1>2 DEF Emit, ProtoTypeInv, Sorted

-----------------------------------------------------------------------------
(* The tape stays readable while the handler hears nothing.                *)
Follows ==
  \A count, c : Flow(count, c, Sent, protoQueue, queue, shutDown) =>
    \E d : Flow(count, d, Sent', protoQueue', queue', shutDown')

LEMMA FlowFollows ==
  ASSUME ProtoInv, UNCHANGED heard, ~transport'.metadata => transport'.received = 0,
         protoCall'.handler => protoCall.handler /\ Follows
  PROVE  FlowInv'
<1> SUFFICES ASSUME protoCall'.handler
             PROVE  \E count \in 0..Sent', c \in [Stages -> Stopped..Sent'] :
                      HasHeard(count)' /\ Flow(count, c, Sent', protoQueue', queue', shutDown')
  BY DEF FlowInv
<1>1. PICK count \in 0..Sent, c \in [Stages -> Stopped..Sent] :
        HasHeard(count) /\ Flow(count, c, Sent, protoQueue, queue, shutDown)
  BY DEF ProtoInv, FlowInv
<1>2. PICK d : Flow(count, d, Sent', protoQueue', queue', shutDown')
  BY <1>1 DEF Follows
<1>3. HasHeard(count)'
  BY <1>1 DEF HasHeard, Heard, Given
<1>4. count \in 0..Sent' /\ d \in [Stages -> Stopped..Sent']
  BY <1>2 DEF Flow
<1> QED
  BY <1>2, <1>3, <1>4

LEMMA TapeTyped ==
  ASSUME ProtoTypeInv
  PROVE  /\ Sent \in Nat /\ protoQueue \in Tapes /\ queue \in Queues /\ shutDown \in Downs
         /\ Sorted(queue)
BY DEF ProtoTypeInv, Sorted, Sent

LEMMA AllResponds ==
  ASSUME Complete, NEW what \in Methods
  PROVE  Responds(what) <=> protoCall.handler
BY DEF Complete, Responds

LEMMA UserFlows ==
  ASSUME ProtoInv, ProtoTypeInv', UserCalls \/ UserCancels
  PROVE  FlowInv'
<1>1. /\ UNCHANGED <<heard, transport, shutDown>>
      /\ protoCall'.handler => protoCall.handler
  BY DEF UserCalls, UserCancels, Responds, ProtoInv, ProtoTypeInv
<1>2. Sent' = Sent /\ (~transport.metadata => transport.received = 0)
  BY <1>1 DEF Sent, ProtoInv, FlowInv
<1>3. ProtoTypeInv /\ Complete /\ queue' \in Queues
  BY DEF ProtoInv, ProtoTypeInv, Sorted
<1>4. ASSUME protoCall.handler, NEW count, NEW c,
             Flow(count, c, Sent, protoQueue, queue, shutDown)
      PROVE  \E d : Flow(count, d, Sent', protoQueue', queue', shutDown')
  <2>1. CASE UserCalls
    <3>1. PICK b \in Orders : queue' = [queue EXCEPT ![1] = Append(@, b)] \/ queue' = queue
      <4>1. user.script \in Seq({"start", "write", "finish", "receive"})
        BY <1>3, ChainAssumption DEF ProtoTypeInv, Users
      <4>2. user.script[user.asked + 1] \in Commands
        BY <1>3, <2>1, <4>1 DEF UserCalls, ProtoTypeInv, Users, Commands
      <4> QED
        BY <2>1, <4>2, Zenon DEF UserCalls, Tell, Orders
    <3>2. 1 \in Stages
      BY ChainAssumption DEF Stages, Transport
    <3>3. Flow(count, c, Sent, protoQueue, [queue EXCEPT ![1] = Append(@, b)], shutDown)
      BY <1>3, <1>4, <3>2, TapeTyped, FlowOrder, Zenon
    <3>4. Flow(count, c, Sent, protoQueue, queue', shutDown)
      BY <1>4, <3>1, <3>3
    <3> QED
      BY <1>1, <1>2, <2>1, <3>4 DEF UserCalls
  <2>2. CASE UserCancels
    <3>1. Close("cancelled") \in Closes /\ Close("cancelled") # Close("ok")
      BY DEF Closes, Statuses, Close
    <3>2. protoQueue' = Append(protoQueue, Close("cancelled"))
      BY <1>3, <1>4, <2>2, AllResponds DEF UserCancels, Methods
    <3>3. Flow(count, [k \in Stages |-> Stopped], Sent, protoQueue', queue', shutDown)
      BY <1>3, <1>4, <3>1, <3>2, TapeTyped, FlowClose
    <3> QED
      BY <1>1, <1>2, <3>3
  <2> QED
    BY <2>1, <2>2
<1> QED
  BY <1>1, <1>2, <1>4, FlowFollows DEF Follows

LEMMA InterceptFlows ==
  ASSUME ProtoInv, ProtoTypeInv', NEW i \in 1..N, Intercept(i)
  PROVE  FlowInv'
<1> DEFINE b == Head(queue[i])
           rest == [queue EXCEPT ![i] = Tail(@)]
<1>1. UNCHANGED <<heard, transport, protoCall, protoQueue>>
  BY DEF Intercept
<1>2. Sent' = Sent /\ (~transport.metadata => transport.received = 0)
  BY <1>1 DEF Sent, ProtoInv, FlowInv
<1>3. /\ Sent \in Nat /\ protoQueue \in Tapes /\ queue \in Queues /\ shutDown \in Downs
      /\ queue' \in Queues /\ shutDown' \in Downs
  BY TapeTyped DEF ProtoInv, ProtoTypeInv, Sorted
<1>4. /\ i \in Managers /\ i \in 0..N /\ i \in Stages /\ i - 1 \in 0..N /\ i - 1 \in Stages
      /\ i + 1 \in Stages /\ i # i - 1 /\ i # i + 1 /\ i - 1 # i + 1 /\ (i - 1) + 1 = i
      /\ i # Transport /\ Transport \in Managers
  BY ChainAssumption DEF Stages, Managers, Transport
<1>5. /\ queue[i] # << >> /\ b \in Blocks
      /\ queue' = IF shutDown[i] THEN rest ELSE Passes(i, b)
      /\ shutDown' = [shutDown EXCEPT ![i] = @ \/ b = Command("cancel") \/ IsClose(b)]
  BY <1>3, <1>4 DEF Intercept, Queues
<1>6. ASSUME NEW count, NEW c, Flow(count, c, Sent, protoQueue, queue, shutDown)
      PROVE  \E d : Flow(count, d, Sent', protoQueue', queue', shutDown')
  <2>1. CASE shutDown[i]
    <3>1. queue' = rest /\ shutDown' = shutDown
      BY <1>3, <1>4, <1>5, <2>1, Zenon DEF Downs
    <3>2. After(b, c[i]) = c[i]
      BY <1>4, <1>6, <2>1 DEF Flow, After
    <3>3. Flow(count, c, Sent, protoQueue, rest, shutDown)
      BY <1>3, <1>4, <1>5, <1>6, <3>2, FlowDrop, Zenon
    <3> QED
      BY <1>1, <1>2, <3>1, <3>3
  <2>2. CASE ~shutDown[i] /\ b = Command("cancel")
    <3> DEFINE x == Close("cancelled")
    <3>1. queue' = [[rest EXCEPT ![i - 1] = Append(@, x)] EXCEPT ![i + 1] = Append(@, b)]
      BY <1>3, <1>4, <1>5, <2>2 DEF Passes, Queues
    <3>2. /\ queue'[i - 1] = Append(queue[i - 1], x)
          /\ \A k \in 0..N : k < i - 1 => queue'[k] = queue[k]
      <4>1. queue'[i - 1] = Append(queue[i - 1], x)
        BY <1>3, <1>4, <3>1 DEF Queues
      <4>2. ASSUME NEW k \in 0..N, k < i - 1 PROVE queue'[k] = queue[k]
        <5>1. k \in Stages /\ k # i /\ k # i - 1 /\ k # i + 1
          BY <4>2, StageFacts
        <5> QED
          BY <1>3, <1>4, <3>1, <5>1 DEF Queues
      <4> QED
        BY <4>1, <4>2
    <3>3. /\ \A k \in Managers : k <= i - 1 => shutDown'[k] = shutDown[k]
          /\ shutDown'[Transport] = shutDown[Transport]
      <4>1. \A k \in Managers : k # i => shutDown'[k] = shutDown[k]
        BY <1>3, <1>5 DEF Downs
      <4>2. \A k \in Managers : k <= i - 1 => k # i
        BY DEF Managers
      <4> QED
        BY <1>4, <4>1, <4>2, ZenonT(30)
    <3>4. x \in Closes /\ x # Close("ok") /\ x \notin Items
      BY BlockKinds DEF Closes, Statuses, Close, IsClose
    <3>5. Fits(Sent, shutDown'[Transport], x, c[(i - 1) + 1])
      BY <3>4 DEF Fits
    <3> HIDE DEF x
    <3>6. \E d : Flow(count, d, Sent, protoQueue, queue', shutDown')
      <4>1. BreaksAt(Sent, queue, shutDown, c, i - 1, x, queue', shutDown')
        BY <1>3, <1>4, <3>2, <3>3, <3>4, <3>5, Zenon DEF BreaksAt
      <4> QED
        BY <1>3, <1>6, <4>1, FlowBreak
    <3> QED
      BY <1>1, <1>2, <3>6
  <2>3. CASE ~shutDown[i] /\ b # Command("cancel") /\ IsCommand(b)
    <3>1. queue' = [rest EXCEPT ![i + 1] = Append(@, b)]
      BY <1>3, <1>4, <1>5, <2>3 DEF Passes, Queues
    <3>2. b \in Orders /\ ~IsClose(b) /\ b \notin Items /\ b \notin Breaks
      BY <1>5, <2>3, BlockKinds DEF Blocks
    <3>3. shutDown' = shutDown
      BY <1>3, <1>4, <1>5, <2>3, <3>2 DEF Downs
    <3>4. After(b, c[i]) = c[i]
      BY <3>2 DEF After
    <3>5. Flow(count, c, Sent, protoQueue, rest, shutDown)
      BY <1>3, <1>4, <1>5, <1>6, <3>4, FlowDrop, Zenon
    <3>6. rest \in Queues
      BY <1>3, <1>4, <1>5 DEF Queues
    <3> HIDE DEF rest
    <3>7. Flow(count, c, Sent, protoQueue, [rest EXCEPT ![i + 1] = Append(@, b)], shutDown)
      BY <1>3, <1>4, <3>2, <3>5, <3>6, FlowOrder, ZenonT(30)
    <3> QED
      BY <1>1, <1>2, <3>1, <3>3, <3>7
  <2>4. CASE ~shutDown[i] /\ b # Command("cancel") /\ ~IsCommand(b)
    <3>1. queue' = [queue EXCEPT ![i] = Tail(@), ![i - 1] = Append(@, b)]
      BY <1>5, <2>4 DEF Passes
    <3>2. shutDown' = [shutDown EXCEPT ![i] = @ \/ IsClose(b)]
      BY <1>3, <1>5, <2>4, ZenonT(30)
    <3>3. Flow(count, [c EXCEPT ![i] = After(b, c[i])], Sent, protoQueue, queue', shutDown')
      <4>1. Flow(count, [c EXCEPT ![i] = After(b, c[i])], Sent, protoQueue,
                 [queue EXCEPT ![i] = Tail(@), ![i - 1] = Append(@, b)],
                 [shutDown EXCEPT ![i] = @ \/ IsClose(b)])
        BY <1>3, <1>5, <1>6, FlowMove, ZenonT(30)
      <4> QED
        BY <3>1, <3>2, <4>1
    <3> QED
      BY <1>1, <1>2, <3>3
  <2> QED
    BY <2>1, <2>2, <2>3, <2>4
<1> QED
  BY <1>1, <1>2, <1>6, FlowFollows DEF Follows

LEMMA CallbackMethods == \A e \in Callbacks : e.event \in Methods
BY DEF Callbacks, Items, Closes, Wrote, Event, Close, Methods

LEMMA DispatchFlows ==
  ASSUME ProtoInv, ProtoTypeInv', Dispatch
  PROVE  FlowInv'
<1> DEFINE e == Head(queue[0])
<1>1. /\ UNCHANGED <<heard, transport, shutDown>>
      /\ protoCall'.handler => protoCall.handler
  BY DEF Dispatch, didReceive, didReceiveUnparsable, ProtoInv, ProtoTypeInv
<1>2. Sent' = Sent /\ (~transport.metadata => transport.received = 0)
  BY <1>1 DEF Sent, ProtoInv, FlowInv
<1>3. /\ Sent \in Nat /\ protoQueue \in Tapes /\ queue \in Queues /\ shutDown \in Downs
      /\ queue' \in Queues /\ queue[0] # << >>
  BY TapeTyped DEF ProtoInv, ProtoTypeInv, Sorted, Dispatch
<1>4. ASSUME protoCall.handler, NEW count, NEW c,
             Flow(count, c, Sent, protoQueue, queue, shutDown)
      PROVE  \E d : Flow(count, d, Sent', protoQueue', queue', shutDown')
  <2>1. CASE e = Unparsable
    <3>1. Close("error") \in Closes /\ Close("error") # Close("ok")
      BY DEF Closes, Statuses, Close
    <3>2. protoQueue' = Append(protoQueue, Close("error"))
      BY <1>4, <2>1, AllResponds DEF ProtoInv, Dispatch, didReceiveUnparsable, Unparsable, Methods
    <3>3. Flow(count, [k \in Stages |-> Stopped], Sent, protoQueue', queue', shutDown)
      BY <1>3, <1>4, <3>1, <3>2, FlowClose
    <3> QED
      BY <1>1, <1>2, <3>3
  <2>2. CASE e # Unparsable
    <3>1. e \in Callbacks
      BY <2>2, DispatchTyped DEF ProtoInv
    <3>2. protoQueue' = Append(protoQueue, e) /\ queue' = [queue EXCEPT ![0] = Tail(@)]
      <4>1. Responds(e.event)
        BY <1>4, <3>1, AllResponds, CallbackMethods DEF ProtoInv
      <4> QED
        BY <2>2, <4>1 DEF Dispatch, didReceive, Unparsable
    <3>3. Flow(count, [c EXCEPT ![0] = After(e, c[0])], Sent, Append(protoQueue, e),
               [queue EXCEPT ![0] = Tail(@)], shutDown)
      BY <1>3, <1>4, <3>1, FlowDispatch
    <3> QED
      BY <1>1, <1>2, <3>2, <3>3
  <2> QED
    BY <2>1, <2>2
<1> QED
  BY <1>1, <1>2, <1>4, FlowFollows DEF Follows

(* A close of the transport, its own or in answer to a cancel.             *)
LEMMA FlowEnds ==
  ASSUME NEW n \in Nat, NEW tape \in Tapes, NEW q \in Queues, NEW down \in Downs,
         NEW count, NEW c, Flow(count, c, n, tape, q, down), NEW x \in Closes,
         NEW p \in Queues, p[N] = Append(q[N], x), \A k \in 0..N : k # N => p[k] = q[k]
  PROVE  \E d : Flow(count, d, n, tape, p, [down EXCEPT ![Transport] = TRUE])
<1> DEFINE e == [down EXCEPT ![Transport] = TRUE]
<1>1. e \in Downs /\ e[Transport] /\ \A k \in Managers : k # Transport => e[k] = down[k]
  BY StageFacts DEF Downs
<1>2. \A k \in Managers : k <= N => e[k] = down[k]
  <2>1. \A k \in Managers : k <= N => k # Transport
    BY ChainAssumption DEF Managers, Transport
  <2> QED
    BY <1>1, <2>1, Zenon
<1>3. N \in 0..N /\ N + 1 = Transport /\ \A k \in 0..N : k < N => k # N
  BY ChainAssumption DEF Transport
<1>4. x \notin Items
  BY BlockKinds
<1>5. Fits(n, e[Transport], x, c[N + 1])
  BY <1>1, <1>3, <1>4 DEF Flow, Fits
<1>6. \A k \in 0..N : k < N => p[k] = q[k]
  BY <1>3
<1> HIDE DEF e
<1>7. \E d : Flow(count, d, n, tape, p, e)
  <2>1. e \in Downs /\ (down[Transport] => e[Transport]) /\ N \in 0..N
    BY <1>1, <1>3
  <2>2. BreaksAt(n, q, down, c, N, x, p, e)
    BY <1>2, <1>5, <1>6, <2>1, Zenon DEF BreaksAt
  <2> QED
    BY <2>2, FlowBreak
<1> QED
  BY <1>7 DEF e

LEMMA TransportRunsFlows ==
  ASSUME ProtoInv, ProtoTypeInv', TransportRuns
  PROVE  FlowInv'
<1> DEFINE rest == [queue EXCEPT ![Transport] = Tail(@)]
           x == Close("cancelled")
<1>1. UNCHANGED <<heard, protoCall, protoQueue>>
  BY DEF TransportRuns
<1>2. /\ transport'.metadata = transport.metadata /\ transport'.received = transport.received
      /\ ~transport.metadata => transport.received = 0
  <2>1. transport \in [started : BOOLEAN, metadata : BOOLEAN, writes : Nat, received : Nat]
    BY DEF ProtoInv, ProtoTypeInv
  <2> QED
    BY <2>1 DEF TransportRuns, ProtoInv, FlowInv
<1>3. Sent' = Sent
  BY <1>2 DEF Sent
<1>4. /\ Sent \in Nat /\ protoQueue \in Tapes /\ queue \in Queues /\ shutDown \in Downs
      /\ queue' \in Queues
  BY TapeTyped DEF ProtoInv, ProtoTypeInv, Sorted
<1>5. Transport \in Managers /\ Transport \in Stages /\ N \in 0..N /\ Transport \notin 0..N
  BY StageFacts
<1>6. \A k \in 0..N : rest[k] = queue[k]
  BY <1>4, <1>5, StageFacts DEF Queues
<1>7. ASSUME NEW count, NEW c, Flow(count, c, Sent, protoQueue, queue, shutDown)
      PROVE  \E d : Flow(count, d, Sent', protoQueue', queue', shutDown')
  <2>1. CASE Head(queue[Transport]) = Command("cancel") /\ ~shutDown[Transport]
    <3>1. queue' = [rest EXCEPT ![N] = Append(@, x)]
      BY <2>1 DEF TransportRuns
    <3>2. queue'[N] = Append(queue[N], x) /\ \A k \in 0..N : k # N => queue'[k] = queue[k]
      BY <1>4, <1>5, <3>1, StageFacts, Zenon DEF Queues
    <3>3. shutDown' = [shutDown EXCEPT ![Transport] = TRUE]
      BY <2>1, Zenon DEF TransportRuns
    <3>4. x \in Closes
      BY DEF Closes, Statuses
    <3> HIDE DEF x
    <3>5. \E d : Flow(count, d, Sent, protoQueue, queue', [shutDown EXCEPT ![Transport] = TRUE])
      BY <1>4, <1>7, <3>2, <3>4, FlowEnds
    <3> QED
      BY <1>1, <1>3, <3>3, <3>5
  <2>2. CASE ~(Head(queue[Transport]) = Command("cancel") /\ ~shutDown[Transport])
    <3>1. queue' = rest
      BY <2>2 DEF TransportRuns
    <3>2. shutDown' = shutDown
      BY <1>4, <1>5, <2>2 DEF TransportRuns, Downs
    <3>3. Flow(count, c, Sent, protoQueue, queue', shutDown)
      BY <1>6, <1>7, <3>1 DEF Flow
    <3> QED
      BY <1>1, <1>3, <3>2, <3>3
  <2> QED
    BY <2>1, <2>2
<1> QED
  BY <1>1, <1>2, <1>7, FlowFollows DEF Follows

(* What the transport sends, and what it adds to the count.                *)
LEMMA SendsFlows ==
  ASSUME ProtoInv, NEW x \in Events, x # Close("ok"), NEW t, Emit(x, t), UNCHANGED shutDown,
         Sent' \in Nat, Sent <= Sent', ~t.metadata => t.received = 0,
         \A v \in {Stopped, Sent} : /\ Fits(Sent', FALSE, x, v)
                                    /\ After(x, v) \in {Stopped, Sent'}
  PROVE  FlowInv'
<1>1. /\ UNCHANGED <<heard, protoCall, protoQueue>> /\ transport' = t /\ ~shutDown[Transport]
      /\ queue' = [queue EXCEPT ![N] = Append(@, x)]
  BY DEF Emit
<1>2. Sent \in Nat /\ protoQueue \in Tapes /\ queue \in Queues /\ shutDown \in Downs
  BY TapeTyped DEF ProtoInv
<1>3. ASSUME NEW count, NEW c, Flow(count, c, Sent, protoQueue, queue, shutDown)
      PROVE  \E d : Flow(count, d, Sent', protoQueue', queue', shutDown')
  <2>1. c[Transport] \in {Stopped, Sent}
    BY <1>3 DEF Flow
  <2>2. Fits(Sent', FALSE, x, c[Transport]) /\ After(x, c[Transport]) \in {Stopped, Sent'}
    BY <2>1, Zenon
  <2>3. Flow(count, [c EXCEPT ![Transport] = After(x, c[Transport])], Sent', protoQueue,
             [queue EXCEPT ![N] = Append(@, x)], shutDown)
    BY <1>1, <1>2, <1>3, <2>2, FlowEmit, Zenon
  <2> QED
    BY <1>1, <2>3
<1> QED
  BY <1>1, <1>3, FlowFollows, Zenon DEF Follows

LEMMA EmitsFlows ==
  ASSUME ProtoInv, ProtoTypeInv', Emits
  PROVE  FlowInv'
<1>1. /\ transport \in [started : BOOLEAN, metadata : BOOLEAN, writes : Nat, received : Nat]
      /\ ~transport.metadata => transport.received = 0
      /\ Sent \in Nat /\ Sent' \in Nat
  BY DEF ProtoInv, ProtoTypeInv, FlowInv, Sent
<1>2. \A x \in Items : x \notin Breaks /\ x # Close("ok")
  BY BlockKinds DEF IsClose
<1>3. CASE TransportMetadata
  <2> DEFINE x == Event("metadata", 0)
             t == [transport EXCEPT !.metadata = TRUE]
  <2>1. x \in Items /\ x \in Events /\ x.arg = 0
    BY DEF Items, Events, Callbacks, Event
  <2>2. Emit(x, t) /\ UNCHANGED shutDown /\ t.metadata
    BY <1>1, <1>3 DEF TransportMetadata
  <2>3. Sent = 0 /\ Sent' = 1
    BY <1>1, <1>3, <2>2 DEF TransportMetadata, Emit, Sent
  <2> HIDE DEF x, t
  <2>4. \A v \in {Stopped, Sent} : Fits(Sent', FALSE, x, v) /\ After(x, v) \in {Stopped, Sent'}
    BY <1>2, <2>1, <2>3 DEF Fits, After, Stopped
  <2>5. Sent <= Sent' /\ x # Close("ok")
    BY <1>2, <2>1, <2>3
  <2> QED
    BY <1>1, <2>1, <2>2, <2>4, <2>5, SendsFlows, Zenon
<1>4. CASE TransportData
  <2> DEFINE t == [transport EXCEPT !.received = @ + 1]
  <2>1. PICK x \in {Event("data", transport.received + 1), Unparsable} :
          Emit(x, t) /\ UNCHANGED shutDown
    BY <1>4 DEF TransportData, Unparsable
  <2>2. transport.metadata /\ t.metadata
    BY <1>1, <1>4 DEF TransportData
  <2>3. Sent = transport.received + 1 /\ Sent' = transport.received + 2
    BY <1>1, <2>1, <2>2 DEF Emit, Sent
  <2> HIDE DEF t
  <2>4. /\ x \in Events /\ x # Close("ok")
        /\ \A v \in {Stopped, Sent} : Fits(Sent', FALSE, x, v) /\ After(x, v) \in {Stopped, Sent'}
    <3>1. CASE x = Event("data", transport.received + 1)
      <4>1. x \in Items /\ x \in Events /\ x.arg = transport.received + 1
        BY <1>1, <3>1 DEF Items, Events, Callbacks, Event
      <4> QED
        BY <1>1, <1>2, <2>3, <4>1 DEF Fits, After, Stopped
    <3>2. CASE x = Unparsable
      <4>1. x \in Breaks /\ x \notin Items /\ x # Close("ok") /\ x \in Events
        BY <1>2, <3>2, BlockKinds DEF IsClose, Events
      <4> QED
        BY <4>1 DEF Fits, After
    <3> QED
      BY <2>1, <3>1, <3>2, Zenon
  <2>5. Sent <= Sent'
    BY <1>1, <2>3
  <2> QED
    BY <1>1, <2>1, <2>2, <2>4, <2>5, SendsFlows, Zenon
<1>5. CASE TransportWrote
  <2> DEFINE t == [transport EXCEPT !.writes = @ - 1]
  <2>1. Emit(Wrote, t) /\ UNCHANGED shutDown
    BY <1>5 DEF TransportWrote, Wrote
  <2>2. t.metadata = transport.metadata /\ t.received = transport.received
    BY <1>1
  <2>3. Sent' = Sent
    BY <2>1, <2>2 DEF Emit, Sent
  <2> HIDE DEF t
  <2>4. Wrote \in Events /\ Wrote \notin Items /\ Wrote \notin Breaks /\ Wrote # Close("ok")
    BY BlockKinds DEF Events, Callbacks, IsClose
  <2>5. \A v \in {Stopped, Sent} : Fits(Sent', FALSE, Wrote, v) /\ After(Wrote, v) \in {Stopped, Sent'}
    BY <2>3, <2>4 DEF Fits, After
  <2>6. Sent <= Sent'
    BY <1>1, <2>3
  <2> QED
    BY <1>1, <2>1, <2>2, <2>4, <2>5, <2>6, SendsFlows, Zenon
<1>6. ASSUME NEW status \in {"ok", "error"}, TransportCloses(status)
      PROVE  FlowInv'
  <2>1. /\ UNCHANGED <<heard, protoCall, protoQueue, transport>>
        /\ queue' = [queue EXCEPT ![N] = Append(@, Close(status))]
        /\ shutDown' = [shutDown EXCEPT ![Transport] = TRUE]
    BY <1>6 DEF TransportCloses, Emit
  <2>2. Sent' = Sent
    BY <2>1 DEF Sent
  <2>3. /\ protoQueue \in Tapes /\ queue \in Queues /\ shutDown \in Downs /\ queue' \in Queues
    BY TapeTyped DEF ProtoInv, ProtoTypeInv, Sorted
  <2>4. Close(status) \in Closes
    BY DEF Closes, Statuses
  <2>5. /\ queue'[N] = Append(queue[N], Close(status))
        /\ \A k \in 0..N : k # N => queue'[k] = queue[k]
    BY <2>1, <2>3, StageFacts DEF Queues
  <2>6. ASSUME NEW count, NEW c, Flow(count, c, Sent, protoQueue, queue, shutDown)
        PROVE  \E d : Flow(count, d, Sent', protoQueue', queue', shutDown')
    <3>1. \E d : Flow(count, d, Sent, protoQueue, queue', [shutDown EXCEPT ![Transport] = TRUE])
      BY <1>1, <2>3, <2>4, <2>5, <2>6, FlowEnds
    <3> QED
      BY <2>1, <2>2, <3>1
  <2> QED
    BY <1>1, <2>1, <2>6, FlowFollows, ZenonT(30) DEF Follows
<1> QED
  BY <1>3, <1>4, <1>5, <1>6 DEF Emits

-----------------------------------------------------------------------------
(* The handler hears one more callback.                                    *)
LEMMA HeardAppend ==
  ASSUME heard \in Tapes, NEW e \in Callbacks, heard' = Append(heard, e), NEW what
  PROVE  /\ Heard(what)' = IF e.event = what THEN Heard(what) \union {Len(heard) + 1}
                                              ELSE Heard(what)
         /\ Given' = IF e.event = "data" THEN Given \union {e.arg} ELSE Given
<1>1. /\ Len(heard) \in Nat /\ DOMAIN heard = 1..Len(heard)
      /\ DOMAIN heard' = 1..(Len(heard) + 1) /\ heard'[Len(heard) + 1] = e
      /\ \A i \in 1..Len(heard) : heard'[i] = heard[i]
  BY DEF Tapes
<1>2. ASSUME NEW kind
      PROVE  Heard(kind)' = IF e.event = kind THEN Heard(kind) \union {Len(heard) + 1}
                                              ELSE Heard(kind)
  BY <1>1 DEF Heard
<1>3. \A i \in Heard("data") : heard'[i] = heard[i]
  BY <1>1 DEF Heard
<1>4. Given' = {heard'[i].arg : i \in Heard("data")'}
  BY DEF Given
<1>5. Heard("data")' = IF e.event = "data" THEN Heard("data") \union {Len(heard) + 1}
                                           ELSE Heard("data")
  BY <1>2
<1>6. Given' = IF e.event = "data" THEN Given \union {e.arg} ELSE Given
  <2>1. CASE e.event = "data"
    <3>1. Given' = {heard'[i].arg : i \in Heard("data") \union {Len(heard) + 1}}
      BY <1>4, <1>5, <2>1, Zenon
    <3>2. Given' = {heard'[i].arg : i \in Heard("data")} \union {heard'[Len(heard) + 1].arg}
      BY <3>1, Zenon
    <3>3. {heard'[i].arg : i \in Heard("data")} = {heard[i].arg : i \in Heard("data")}
      BY <1>3, Zenon
    <3> QED
      BY <1>1, <2>1, <3>2, <3>3, Zenon DEF Given
  <2>2. CASE e.event # "data"
    BY <1>3, <1>4, <1>5, <2>2, ZenonT(30) DEF Given
  <2> QED
    BY <2>1, <2>2
<1> QED
  BY <1>2, <1>6

LEMMA CallbackKinds ==
  ASSUME NEW e \in Callbacks
  PROVE  \/ e = Event("metadata", 0) /\ e.event = "metadata" /\ e \in Items /\ e.arg = 0
         \/ /\ e = Event("data", e.arg) /\ e.event = "data" /\ e \in Items
            /\ e.arg \in Nat \ {0}
         \/ e = Wrote /\ e.event = "didWrite" /\ e \notin Items /\ e \notin Breaks
         \/ e \in Closes /\ e.event = "close" /\ e \in Breaks
<1>1. CASE e = Event("metadata", 0)
  BY <1>1 DEF Items, Event
<1>2. CASE \E k \in Nat \ {0} : e = Event("data", k)
  BY <1>2 DEF Items, Event
<1>3. CASE e = Wrote
  <2>1. e.event = "didWrite"
    BY <1>3 DEF Wrote, Event
  <2> QED
    BY <1>3, <2>1, BlockKinds
<1>4. CASE e \in Closes
  <2>1. e.event = "close"
    BY <1>4 DEF Closes, Close
  <2> QED
    BY <1>4, <2>1, BlockKinds
<1> QED
  BY <1>1, <1>2, <1>3, <1>4, Zenon DEF Callbacks, Items

LEMMA HasHeardNext ==
  ASSUME heard \in Tapes, NEW e \in Callbacks, e \notin Breaks, heard' = Append(heard, e),
         NEW count \in Nat, HasHeard(count), e \in Items => e.arg = count
  PROVE  HasHeard(After(e, count))'
<1>1. count # Stopped
  BY DEF Stopped
<1>2. CASE e.event = "metadata" /\ e \in Items /\ e.arg = 0
  <2>1. count = 0 /\ After(e, count) = 1
    BY <1>1, <1>2 DEF After
  <2>2. Heard("close")' = {} /\ Heard("metadata")' # {}
    BY <1>2, HeardAppend, ZenonT(30) DEF HasHeard
  <2>3. Given' = 1..(1 - 1)
    BY <1>2, <2>1, HeardAppend DEF HasHeard
  <2> QED
    BY <2>1, <2>2, <2>3 DEF HasHeard
<1>3. CASE e.event = "data" /\ e \in Items /\ e.arg \in Nat \ {0}
  <2>1. e.arg = count /\ count # 0 /\ After(e, count) = count + 1
    BY <1>1, <1>3 DEF After
  <2>2. Heard("close")' = {} /\ Heard("metadata")' # {}
    BY <1>3, <2>1, HeardAppend DEF HasHeard
  <2>3. Given' = 1..((count + 1) - 1)
    <3>1. Given' = 1..(count - 1) \union {count}
      BY <1>3, <2>1, HeardAppend DEF HasHeard
    <3> QED
      BY <2>1, <3>1
  <2>4. (count + 1 = 0) = FALSE
    OBVIOUS
  <2> QED
    BY <2>1, <2>2, <2>3, <2>4 DEF HasHeard
<1>4. CASE e.event = "didWrite" /\ e \notin Items
  <2>1. After(e, count) = count
    BY <1>1, <1>4 DEF After
  <2>2. /\ Heard("close")' = Heard("close") /\ Heard("metadata")' = Heard("metadata")
        /\ Given' = Given
    BY <1>4, HeardAppend
  <2> QED
    BY <2>1, <2>2 DEF HasHeard
<1> QED
  BY <1>2, <1>3, <1>4, CallbackKinds

LEMMA CallBackFlows ==
  ASSUME ProtoInv, ProtoTypeInv', CallBack
  PROVE  FlowInv'
<1>0. PICK e : e = Head(protoQueue)
  OBVIOUS
<1>1. /\ UNCHANGED <<queue, shutDown, transport>> /\ protoQueue # << >>
      /\ protoQueue' = Tail(protoQueue) /\ e \in Callbacks
      /\ ~transport.metadata => transport.received = 0
  BY <1>0, CallBackTyped DEF CallBack, ProtoInv, FlowInv
<1>2. Sent' = Sent
  BY <1>1 DEF Sent
<1>3. /\ Sent \in Nat /\ protoQueue \in Tapes /\ queue \in Queues /\ shutDown \in Downs
      /\ heard \in Tapes
  BY TapeTyped DEF ProtoInv, ProtoTypeInv
<1>4. ASSUME protoCall'.handler
      PROVE  \E count \in 0..Sent', c \in [Stages -> Stopped..Sent'] :
               HasHeard(count)' /\ Flow(count, c, Sent', protoQueue', queue', shutDown')
  <2>1. protoCall.handler /\ ~IsClose(e) /\ heard' = Append(heard, e)
    BY <1>0, <1>4 DEF CallBack, ProtoInv, ProtoTypeInv
  <2>2. PICK count \in 0..Sent, c \in [Stages -> Stopped..Sent] :
          HasHeard(count) /\ Flow(count, c, Sent, protoQueue, queue, shutDown)
    BY <2>1 DEF ProtoInv, FlowInv
  <2>3. e \notin Breaks
    BY <1>1, <2>1, BlockKinds DEF Breaks
  <2>4. /\ Fits(Sent, shutDown[Transport], e, count) /\ After(e, count) \in 0..Sent
        /\ Flow(After(e, count), c, Sent, Tail(protoQueue), queue, shutDown)
    BY <1>0, <1>1, <1>3, <2>2, <2>3, FlowTaken
  <2>5. count \in Nat /\ (e \in Items => e.arg = count)
    BY <1>3, <2>4 DEF Fits, Stopped
  <2>6. HasHeard(After(e, count))'
    BY <1>1, <1>3, <2>1, <2>2, <2>3, <2>5, HasHeardNext
  <2> QED
    BY <1>1, <1>2, <2>4, <2>6
<1> QED
  BY <1>1, <1>4 DEF FlowInv

-----------------------------------------------------------------------------
(* The invariant.                                                          *)
LEMMA TypeInitially ==
  ASSUME ProtoInit
  PROVE  ProtoTypeInv
<1>1. << >> \in Seq(Callbacks) /\ << >> \in Seq(Blocks) /\ << >> \in Seq(Events) /\ << >> \in Seq(Orders)
  OBVIOUS
<1>2. Sorted(queue) /\ protoQueue \in Tapes /\ heard \in Tapes /\ shutDown \in Downs
  BY <1>1, StageFacts DEF ProtoInit, Sorted, Queues, Tapes, Downs
<1>3. user \in Users
  <2>1. user \in [script : Scripts, methods : Handlers, asked : {0}, cancel : {FALSE}]
    BY Zenon DEF ProtoInit
  <2>2. PICK s \in Scripts, m \in Handlers :
          user = [script |-> s, methods |-> m, asked |-> 0, cancel |-> FALSE]
    BY <2>1, Zenon
  <2> QED
    BY <2>2 DEF Users
<1>4. protoCall \in [call : BOOLEAN, handler : BOOLEAN]
  BY DEF ProtoInit
<1>5. transport \in [started : BOOLEAN, metadata : BOOLEAN, writes : Nat, received : Nat]
  BY DEF ProtoInit
<1> QED
  BY <1>2, <1>3, <1>4, <1>5 DEF ProtoTypeInv

LEMMA ProtoInitially ==
  ASSUME ProtoInit, Complete
  PROVE  ProtoInv
<1>1. ProtoTypeInv
  BY TypeInitially
<1>2. Sent = 0 /\ transport.received = 0
  BY DEF ProtoInit, Sent
<1>3. HasHeard(0)
  BY DEF ProtoInit, HasHeard, Heard, Given
<1> DEFINE c == [i \in Stages |-> 0]
<1>4. /\ c \in [Stages -> Stopped..0] /\ c[Transport] = 0 /\ c[0] = 0
      /\ \A i \in 0..N : c[i] = 0 /\ c[i + 1] = 0
  BY ChainAssumption DEF Stages, Transport, Stopped
<1> HIDE DEF c
<1>5. \A done : Reads(0, done, << >>, 0, 0)
  <2> DEFINE g == [a \in 0..0 |-> 0]
  <2>1. g \in [0..Len(<< >>) -> Stopped..0] /\ g[0] = 0 /\ Len(<< >>) = 0
    BY DEF Stopped
  <2> HIDE DEF g
  <2> QED
    BY <2>1 DEF Reads
<1>6. /\ protoQueue = << >> /\ \A i \in 0..N : queue[i] = << >>
      /\ \A i \in Managers : ~shutDown[i]
  BY StageFacts DEF ProtoInit
<1>7. Flow(0, c, 0, protoQueue, queue, shutDown)
  BY <1>4, <1>5, <1>6 DEF Flow
<1> QED
  BY <1>1, <1>2, <1>3, <1>4, <1>7 DEF ProtoInv, FlowInv

LEMMA TypeInductive ==
  ASSUME ProtoTypeInv, [ProtoNext]_vars
  PROVE  ProtoTypeInv' /\ UNCHANGED user.methods
<1>1. ProtoTypeInv'
  <2>1. CASE UNCHANGED vars
    BY <2>1 DEF vars, ProtoTypeInv, Sorted
  <2> QED
    BY <2>1, UserTyped, InterceptTyped, DispatchTyped, CallBackTyped, TransportRunsTyped, EmitsTyped
    DEF ProtoNext, Emits
<1>2. UNCHANGED user.methods
  <2>1. CASE UserCalls \/ UserCancels
    BY <2>1, Zenon DEF UserCalls, UserCancels, ProtoTypeInv, Users
  <2>2. CASE ~(UserCalls \/ UserCancels)
    BY <2>2 DEF ProtoNext, vars, Intercept, Dispatch, CallBack, TransportRuns, TransportMetadata,
                TransportData, TransportWrote, TransportCloses, Emit
  <2> QED
    BY <2>1, <2>2
<1> QED
  BY <1>1, <1>2

LEMMA ProtoInductive ==
  ASSUME ProtoInv, [ProtoNext]_vars
  PROVE  ProtoInv'
<1>1. ProtoTypeInv' /\ Complete'
  BY TypeInductive DEF ProtoInv, Complete
<1>2. CASE UNCHANGED vars
  <2>1. Follows /\ UNCHANGED <<heard, protoCall>>
    BY <1>2 DEF vars, Follows, Sent
  <2>2. ~transport'.metadata => transport'.received = 0
    BY <1>2 DEF vars, ProtoInv, FlowInv
  <2>3. FlowInv'
    BY <2>1, <2>2, FlowFollows
  <2> QED
    BY <1>1, <2>3 DEF ProtoInv
<1>3. CASE ProtoNext
  <2>1. FlowInv'
    BY <1>1, <1>3, UserFlows, InterceptFlows, DispatchFlows, CallBackFlows, TransportRunsFlows,
       EmitsFlows
    DEF ProtoNext, Emits
  <2> QED
    BY <1>1, <2>1 DEF ProtoInv
<1> QED
  BY <1>2, <1>3

(* A block for the handler is what ResponseContract lets it hear.          *)
LEMMA CallBackHears ==
  ASSUME ProtoInv, CallBack
  PROVE  \/ Contract!ContractNext /\ UNCHANGED user.methods
         \/ UNCHANGED <<user.methods, transport.received, heard>>
<1>0. PICK e : e = Head(protoQueue)
  OBVIOUS
<1>1. /\ protoQueue # << >> /\ e \in Callbacks /\ UNCHANGED <<user, transport.received>>
      /\ user.methods = Methods /\ e.event \in Methods
  BY <1>0, CallBackTyped, CallbackMethods DEF CallBack, ProtoInv, Complete
<1>2. CASE ~protoCall.handler
  BY <1>2, <1>1 DEF CallBack
<1>3. CASE protoCall.handler
  <2>1. heard' = Append(heard, e)
    BY <1>0, <1>3 DEF CallBack
  <2>2. PICK count \in 0..Sent, c \in [Stages -> Stopped..Sent] :
          HasHeard(count) /\ Flow(count, c, Sent, protoQueue, queue, shutDown)
    BY <1>3 DEF ProtoInv, FlowInv
  <2>3. /\ Sent \in Nat /\ protoQueue \in Tapes /\ queue \in Queues /\ shutDown \in Downs
        /\ transport.received \in Nat
        /\ IF transport.metadata THEN Sent = transport.received + 1
                                 ELSE Sent = 0 /\ transport.received = 0
    BY TapeTyped DEF ProtoInv, ProtoTypeInv, FlowInv, Sent
  <2>4. /\ Fits(Sent, shutDown[Transport], e, count)
        /\ e \notin Breaks => After(e, count) \in 0..Sent
    BY <1>0, <1>1, <2>2, <2>3, FlowTaken
  <2>5. count \in Nat /\ count # Stopped
    BY <2>3 DEF Stopped
  <2>6. /\ ~Contract!Closed /\ (Contract!Heard("metadata") = {} <=> count = 0)
        /\ Contract!Given = 1..(count - 1)
    BY <2>2 DEF HasHeard, Heard, Given, Contract!Closed, Contract!Heard, Contract!Given
  <2>7. Contract!Hear(e)
    BY <1>1, <2>1, <2>6 DEF Contract!Hear
  <2>8. CASE e = Event("metadata", 0) /\ e \in Items /\ e.arg = 0
    <3>1. count = 0
      BY <2>4, <2>5, <2>8 DEF Fits
    <3> QED
      BY <1>1, <2>6, <2>7, <2>8, <3>1
      DEF Contract!ContractNext, Contract!HearMetadata, Contract!Event, Event
  <2>9. CASE e = Event("data", e.arg) /\ e \in Items /\ e.arg \in Nat \ {0}
    <3>1. e.arg = count /\ After(e, count) = count + 1 /\ e \notin Breaks
      BY <2>4, <2>5, <2>9, BlockKinds DEF Fits, After
    <3>2. count \in 1..transport.received /\ count # 0
      BY <2>3, <2>4, <2>9, <3>1
    <3>3. Contract!Hear(Contract!Event("data", count))
      BY <2>7, <2>9, <3>1 DEF Contract!Event, Event
    <3> QED
      BY <1>1, <2>6, <3>2, <3>3 DEF Contract!ContractNext, Contract!HearData
  <2>10. CASE e = Wrote
    BY <1>1, <2>7, <2>10
    DEF Contract!ContractNext, Contract!HearDidWrite, Contract!Event, Event, Wrote
  <2>11. CASE e \in Closes
    <3>1. PICK status \in Statuses : e = Close(status)
      BY <2>11 DEF Closes
    <3>2. status = "ok" => Contract!Given = 1..transport.received
      <4>1. SUFFICES ASSUME status = "ok" PROVE Contract!Given = 1..transport.received
        OBVIOUS
      <4>2. count = Sent
        BY <2>4, <2>5, <3>1, <4>1 DEF Fits
      <4> QED
        BY <2>3, <2>6, <4>2
    <3>3. Contract!HearClose(status)
      BY <1>1, <2>7, <3>1, <3>2 DEF Contract!HearClose, Contract!Close, Close
    <3> QED
      BY <1>1, <3>3 DEF Contract!ContractNext, Statuses
  <2> QED
    BY <1>1, <2>8, <2>9, <2>10, <2>11, CallbackKinds
<1> QED
  BY <1>2, <1>3

LEMMA ProtoSteps ==
  ASSUME ProtoInv, [ProtoNext]_vars
  PROVE  [Contract!ContractNext /\ UNCHANGED user.methods]_<<user.methods, transport.received, heard>>
<1>1. user \in Users /\ transport \in [started : BOOLEAN, metadata : BOOLEAN, writes : Nat, received : Nat]
  BY DEF ProtoInv, ProtoTypeInv
<1>2. CASE CallBack
  BY <1>2, CallBackHears
<1>3. CASE TransportData
  <2>1. transport'.received = transport.received + 1 /\ UNCHANGED <<heard, user>>
    BY <1>1, <1>3 DEF TransportData, Emit
  <2> QED
    BY <2>1 DEF Contract!ContractNext, Contract!Receive
<1>4. CASE UserCalls \/ UserCancels \/ Dispatch \/ \E i \in 1..N : Intercept(i)
  BY <1>1, <1>4, Zenon DEF UserCalls, UserCancels, Dispatch, Intercept, Users
<1>5. CASE TransportRuns
  BY <1>1, <1>5 DEF TransportRuns
<1>6. CASE TransportMetadata \/ TransportWrote \/ \E status \in {"ok", "error"} : TransportCloses(status)
  BY <1>1, <1>6 DEF TransportMetadata, TransportWrote, TransportCloses, Emit
<1>7. CASE UNCHANGED vars
  BY <1>7 DEF vars
<1> QED
  BY <1>2, <1>3, <1>4, <1>5, <1>6, <1>7 DEF ProtoNext

(* ProtoRPC.h and GRPCInterceptor.h, for a chain of any length and any     *)
(* order of the user's calls: wherever a cancel, a message that does not   *)
(* parse and the close of the transport meet on the way up, the            *)
(* GRPCProtoResponseHandler hears the metadata at most once and first, the *)
(* messages in order and without a gap, and one close at most, after which *)
(* there is nothing; a call that closes without an error has handed over   *)
(* every message that the transport received.                              *)
THEOREM ProtoCorrect == ProtoSpec /\ Complete => ProtoContract
<1>1. ProtoInit /\ Complete => ProtoInv
  BY ProtoInitially
<1>2. ProtoInv /\ [ProtoNext]_vars => ProtoInv'
  BY ProtoInductive
<1>3. ProtoInv /\ [ProtoNext]_vars
        => [Contract!ContractNext /\ UNCHANGED user.methods]_<<user.methods, transport.received, heard>>
  BY ProtoSteps
<1>4. ProtoInit => Contract!ContractInit
  BY DEF ProtoInit, Contract!ContractInit
<1> QED
  BY <1>1, <1>2, <1>3, <1>4, PTL DEF ProtoSpec, ProtoContract, Contract!ContractSpec

-----------------------------------------------------------------------------
(* The end of a call, for a handler with any of the methods.               *)
LetGo ==
  /\ user.cancel /\ "close" \notin user.methods => ~protoCall.handler
  /\ Heard("close") # {} => ~protoCall.handler

LEMMA LetGoInductive ==
  ASSUME ProtoTypeInv, LetGo, [ProtoNext]_vars
  PROVE  LetGo'
<1>1. UNCHANGED user.methods
  BY TypeInductive
<1>2. CASE UserCancels
  <2>1. UNCHANGED heard /\ (protoCall'.handler => protoCall.handler /\ "close" \in user.methods)
    BY <1>2 DEF UserCancels, Responds
  <2> QED
    BY <1>1, <2>1 DEF LetGo, Heard
<1>3. CASE CallBack
  <2>1. UNCHANGED user
    BY <1>3 DEF CallBack
  <2>2. PICK e : e = Head(protoQueue)
    OBVIOUS
  <2>3. e \in Callbacks /\ heard \in Tapes
    BY <1>3, <2>2, CallBackTyped DEF ProtoTypeInv
  <2>4. protoCall'.handler => protoCall.handler /\ ~IsClose(e) /\ heard' = Append(heard, e)
    BY <1>3, <2>2 DEF CallBack, ProtoTypeInv
  <2>5. ~IsClose(e) => e.event # "close"
    BY <2>3, BlockKinds DEF Callbacks, Items, Wrote, Event
  <2>6. ASSUME protoCall'.handler PROVE Heard("close")' = {}
    BY <2>3, <2>4, <2>5, <2>6 DEF LetGo, Heard, Tapes
  <2> QED
    BY <2>1, <2>4, <2>6 DEF LetGo
<1>4. CASE ~UserCancels /\ ~CallBack
  <2>1. UNCHANGED heard
    BY <1>4 DEF ProtoNext, vars, UserCalls, Intercept, Dispatch, TransportRuns, TransportMetadata,
                TransportData, TransportWrote, TransportCloses, Emit
  <2>2. UNCHANGED user.cancel
    <3>1. CASE UserCalls
      BY <3>1 DEF UserCalls, ProtoTypeInv, Users
    <3>2. CASE ~UserCalls
      BY <1>4, <3>2 DEF ProtoNext, vars, Intercept, Dispatch, TransportRuns, TransportMetadata,
                        TransportData, TransportWrote, TransportCloses, Emit
    <3> QED
      BY <3>1, <3>2
  <2>3. UNCHANGED protoCall.handler
    <3>1. CASE UserCalls \/ Dispatch
      BY <3>1, Zenon DEF UserCalls, Dispatch, didReceive, didReceiveUnparsable, ProtoTypeInv
    <3>2. CASE ~(UserCalls \/ Dispatch)
      BY <1>4, <3>2 DEF ProtoNext, vars, Intercept, TransportRuns, TransportMetadata,
                        TransportData, TransportWrote, TransportCloses, Emit
    <3> QED
      BY <3>1, <3>2
  <2> QED
    BY <1>1, <2>1, <2>2, <2>3 DEF LetGo, Heard
<1> QED
  BY <1>2, <1>3, <1>4

(* ProtoRPC.m, cancel and the blocks of the _dispatchQueue, for a handler  *)
(* with any of the optional methods: after its close, and, if it has no    *)
(* method for the close, after the user's cancel, the handler hears        *)
(* nothing, whatever is still on its way through the queues.               *)
THEOREM EndIsFinal ==
  ProtoSpec => [][Contract!Closed \/ (user.cancel /\ "close" \notin user.methods)
                    => UNCHANGED heard]_vars
<1>1. ProtoInit => ProtoTypeInv /\ LetGo
  <2>1. ASSUME ProtoInit PROVE ProtoTypeInv
    BY <2>1, TypeInitially
  <2>2. ASSUME ProtoInit PROVE ~user.cancel
    BY <2>2, Zenon DEF ProtoInit
  <2>3. ASSUME ProtoInit PROVE Heard("close") = {}
    BY <2>3 DEF ProtoInit, Heard
  <2> QED
    BY <2>1, <2>2, <2>3 DEF LetGo
<1>2. ProtoTypeInv /\ LetGo /\ [ProtoNext]_vars => ProtoTypeInv' /\ LetGo'
  BY TypeInductive, LetGoInductive
<1>3. ProtoTypeInv /\ LetGo /\ [ProtoNext]_vars
        => [Contract!Closed \/ (user.cancel /\ "close" \notin user.methods)
              => UNCHANGED heard]_vars
  <2> SUFFICES ASSUME LetGo, ProtoNext,
                      Contract!Closed \/ (user.cancel /\ "close" \notin user.methods)
               PROVE  UNCHANGED heard
    OBVIOUS
  <2>1. ~protoCall.handler
    BY DEF LetGo, Heard, Contract!Closed, Contract!Heard
  <2> QED
    BY <2>1 DEF ProtoNext, UserCalls, UserCancels, Intercept, Dispatch, CallBack, TransportRuns,
                TransportMetadata, TransportData, TransportWrote, TransportCloses, Emit
<1> QED
  BY <1>1, <1>2, <1>3, PTL DEF ProtoSpec

=============================================================================
