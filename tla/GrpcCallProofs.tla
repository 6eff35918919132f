--------------------------- MODULE GrpcCallProofs ---------------------------
(***************************************************************************)
(* Proofs about the request pipe of a call.  PipeInv is an inductive       *)
(* invariant of GRXBufferedPipe, for every set of values and any number of *)
(* writes, pauses and threads.  And a call uses its pipe as the pipe       *)
(* expects, for every scenario: CallSpec implements PipeSpec, and so what  *)
(* is proved of the pipe holds of the pipe of a call.                      *)
(***************************************************************************)
EXTENDS GrpcCall, SequenceLemmas

LEMMA PipeInitially == PipeInit => PipeInv
<1> SUFFICES ASSUME PipeInit PROVE PipeInv
  OBVIOUS
<1>1. << >> \in Seq(Blocks) /\ Len(<< >>) = 0
  OBVIOUS
<1>2. PipeTypeOK
  <2>1. checked \in BOOLEAN /\ pipeWriteable \in BOOLEAN /\ resuming \in BOOLEAN
    BY Zenon DEF PipeInit
  <2>2. pipeState \in WriterStates /\ suspended \in Nat /\ Len(block) <= 1
    BY <1>1 DEF PipeInit, WriterStates
  <2> QED
    BY <1>1, <2>1, <2>2, Zenon DEF PipeInit, PipeTypeOK
<1>3. PipeCorrect
  BY EmptyLog DEF PipeInit, PipeCorrect
<1> QED
  BY <1>2, <1>3, Zenon DEF PipeInit, PipeInv

LEMMA WriteStep ==
  ASSUME PipeInv, NEW x \in Blocks, Write(x)
  PROVE  PipeInv'
<1> USE DEF Write
<1>1. PipeTypeOK'
  BY DEF PipeInv, PipeTypeOK
<1>2. IsStartOf(passed', written')
  BY StartOfAppend DEF PipeInv, PipeTypeOK, PipeCorrect
<1>3. pipeState' # "Finished" => (passed' \o block') \o writeQueue' = written'
  <2> DEFINE begun == passed \o block
  <2>1. begun \in Seq(Blocks)
    BY ConcatProperties DEF PipeInv, PipeTypeOK
  <2>2. begun \o Append(writeQueue, x) = Append(begun \o writeQueue, x)
    <3> HIDE DEF begun
    <3> QED
      BY <2>1, AppendToConcat DEF PipeInv, PipeTypeOK
  <2> QED
    BY <2>2, Zenon DEF PipeInv, PipeCorrect
<1> QED
  BY <1>1, <1>2, <1>3 DEF PipeInv, PipeCorrect

LEMMA BeginStep ==
  ASSUME PipeInv, BeginBlock
  PROVE  PipeInv'
<1> USE DEF BeginBlock
<1>1. PipeTypeOK'
  BY DEF PipeInv, PipeTypeOK
<1>2. pipeState \notin {"NotStarted", "Paused"}
  BY DEF PipeInv, PipeTypeOK, PipeCorrect
<1>3. pipeState # "Finished" => (passed' \o block') \o writeQueue' = written'
  <2>1. passed \o << >> = passed /\ passed \o block' = Append(passed, Head(writeQueue))
    BY ConcatEmptySeq, AppendIsConcat DEF PipeInv, PipeTypeOK
  <2>2. Append(passed, Head(writeQueue)) \o Tail(writeQueue) = passed \o writeQueue
    BY MoveHead, Zenon DEF PipeInv, PipeTypeOK
  <2> QED
    BY <2>1, <2>2, Zenon DEF PipeInv, PipeCorrect
<1> QED
  BY <1>1, <1>2, <1>3 DEF PipeInv, PipeCorrect

(* A block that has run to its end: passed on, or dropped when finished.   *)
LEMMA EndOfBlock ==
  ASSUME PipeInv, PipeTypeOK', block # << >>, block' = << >>,
         writeQueue' = writeQueue, written' = written,
         pipeState = "Finished" => pipeState' = "Finished",
         passed' = (IF pipeWriteable THEN passed \o block ELSE passed)
  PROVE  /\ IsStartOf(passed', written')
         /\ pipeState' # "Finished"
              => (passed' \o block') \o writeQueue' = written'
<1>1. CASE pipeState = "Finished"
  BY <1>1 DEF PipeInv, PipeCorrect
<1>2. CASE pipeState # "Finished"
  <2>1. pipeWriteable /\ passed' = passed \o block
    BY <1>2 DEF PipeInv, PipeTypeOK, WriterStates
  <2>2. passed' \in Seq(Blocks) /\ writeQueue \in Seq(Blocks)
    BY DEF PipeInv, PipeTypeOK
  <2>3. passed' \o << >> = passed'
    BY <2>2, ConcatEmptySeq
  <2>4. passed' \o writeQueue = written
    BY <1>2, <2>1 DEF PipeInv, PipeCorrect
  <2>5. IsStartOf(passed', passed' \o writeQueue)
    BY <2>2, StartOfConcat, Zenon
  <2> QED
    BY <2>3, <2>4, <2>5, Zenon
<1> QED
  BY <1>1, <1>2

LEMMA RunStep ==
  ASSUME PipeInv, NEW pauses \in BOOLEAN, RunValue(pauses)
  PROVE  PipeInv'
<1>1. pipeState # "NotStarted"
  BY DEF PipeInv, RunValue
<1>2. /\ pipeState' \in WriterStates \ {"NotStarted"}
      /\ pipeState' = "Finished" <=> pipeState = "Finished"
      /\ suspended' = suspended + Suspends(pipeState') - Suspends(pipeState)
      /\ suspended' \in Nat
  <2>1. pipeState \in WriterStates /\ suspended \in Nat
    BY DEF PipeInv, PipeTypeOK
  <2>2. \/ pipeState' = pipeState /\ suspended' = suspended
        \/ /\ pipeState = "Started" /\ pipeState' = "Paused"
           /\ suspended' = suspended + 1
    BY DEF RunValue
  <2> QED
    BY <1>1, <2>1, <2>2 DEF WriterStates, Suspends
<1>3. passed' = (IF pipeWriteable THEN passed \o block ELSE passed)
  BY DEF PipeInv, RunValue
<1>4. PipeTypeOK'
  <2>1. passed \o block \in Seq(Blocks)
    BY ConcatProperties DEF PipeInv, PipeTypeOK
  <2>2. passed' \in Seq(Blocks)
    BY <1>3, <2>1 DEF PipeInv, PipeTypeOK
  <2>3. block' \in Seq(Blocks) /\ Len(block') <= 1
    BY DEF RunValue
  <2> QED
    BY <1>2, <2>2, <2>3 DEF PipeInv, PipeTypeOK, RunValue
<1>5. /\ IsStartOf(passed', written')
      /\ pipeState' # "Finished"
           => (passed' \o block') \o writeQueue' = written'
  BY <1>2, <1>3, <1>4, EndOfBlock DEF RunValue
<1>6. suspended' = (IF pipeState' \in {"NotStarted", "Paused"} THEN 1 ELSE 0)
                     + (IF resuming' THEN 1 ELSE 0)
  BY <1>1, <1>2 DEF PipeInv, PipeTypeOK, PipeCorrect, RunValue, Suspends
<1>7. pipeWriteable' <=> pipeState' \in {"Started", "Paused"}
  BY <1>1, <1>2 DEF PipeInv, PipeTypeOK, RunValue, WriterStates
<1> QED
  BY <1>2, <1>4, <1>5, <1>6, <1>7 DEF PipeInv, PipeCorrect

LEMMA FinishStep ==
  ASSUME PipeInv, CheckFinished \/ PassFinished
  PROVE  PipeInv'
<1>1. CASE CheckFinished
  <2>1. PipeTypeOK'
    <3>1. checked' \in BOOLEAN
      BY <1>1, Zenon DEF CheckFinished
    <3>2. block' \in Seq(Blocks) /\ Len(block') <= 1
      <4>1. block' = << >> \/ block' = block
        BY <1>1 DEF CheckFinished
      <4>2. block \in Seq(Blocks) /\ Len(block) <= 1
        BY DEF PipeInv, PipeTypeOK
      <4>3. << >> \in Seq(Blocks) /\ Len(<< >>) <= 1
        OBVIOUS
      <4> QED
        BY <4>1, <4>2, <4>3, Zenon
    <3> QED
      BY <1>1, <3>1, <3>2, Zenon DEF PipeInv, PipeTypeOK, CheckFinished
  <2>2. PipeCorrect'
    BY <1>1, Zenon DEF PipeInv, PipeCorrect, CheckFinished
  <2> QED
    BY <1>1, <2>1, <2>2 DEF PipeInv, CheckFinished
<1>2. CASE PassFinished
  <2>1. PipeTypeOK'
    <3>1. passed \o block \in Seq(Blocks)
      BY ConcatProperties DEF PipeInv, PipeTypeOK
    <3>2. passed' \in Seq(Blocks)
      BY <1>2, <3>1 DEF PassFinished, PipeInv, PipeTypeOK
    <3>3. block' \in Seq(Blocks) /\ Len(block') <= 1
      BY <1>2 DEF PassFinished
    <3>4. checked' \in BOOLEAN
      BY <1>2, Zenon DEF PassFinished
    <3> QED
      BY <1>2, <3>2, <3>3, <3>4, Zenon DEF PassFinished, PipeInv, PipeTypeOK
  <2>2. /\ IsStartOf(passed', written')
        /\ pipeState' # "Finished"
             => (passed' \o block') \o writeQueue' = written'
    BY <1>2, <2>1, EndOfBlock DEF PassFinished
  <2> QED
    BY <1>2, <2>1, <2>2 DEF PassFinished, PipeInv, PipeCorrect
<1> QED
  BY <1>1, <1>2

(* A change of state keeps the count of suspensions.                       *)
LEMMA StateStep ==
  ASSUME PipeInv,
         \/ \E new \in {"Started", "Paused", "Finished"} : SetState(new)
         \/ StartWithWriteable
         \/ ResumeStarted
  PROVE  PipeInv'
<1>1. CASE \E new \in {"Started", "Paused", "Finished"} : SetState(new)
  <2> PICK new \in {"Started", "Paused", "Finished"} : SetState(new)
    BY <1>1
  <2>1. /\ pipeState' = Manual(new)
        /\ pipeState' \in WriterStates
        /\ pipeState' = "NotStarted" <=> pipeState = "NotStarted"
        /\ pipeState = "Finished" => pipeState' = "Finished"
    BY DEF SetState, Manual, PipeInv, PipeTypeOK, WriterStates
  <2>2. pipeWriteable' <=> pipeState' \in {"Started", "Paused"}
    <3>1. pipeWriteable' <=> pipeWriteable /\ pipeState' # "Finished"
      BY Zenon DEF SetState
    <3>2. pipeState' = IF pipeState \in {"NotStarted", "Finished"}
                         THEN pipeState ELSE new
      BY <2>1 DEF Manual
    <3>3. pipeState \in WriterStates
      BY DEF PipeInv, PipeTypeOK
    <3>4. pipeWriteable <=> pipeState \in {"Started", "Paused"}
      BY DEF PipeInv
    <3> QED
      BY <3>1, <3>2, <3>3, <3>4 DEF WriterStates
  <2>3. suspended' = (IF pipeState' \in {"NotStarted", "Paused"} THEN 1 ELSE 0)
                       + (IF resuming' THEN 1 ELSE 0)
    BY <2>1 DEF SetState, Suspends, PipeInv, PipeTypeOK, PipeCorrect
  <2>4. suspended' \in Nat
    BY <2>3
  <2>5. PipeTypeOK'
    BY <2>1, <2>2, <2>4 DEF SetState, PipeInv, PipeTypeOK
  <2> QED
    BY <2>1, <2>2, <2>3, <2>5 DEF SetState, PipeInv, PipeCorrect
<1>2. CASE StartWithWriteable
  <2>1. PipeTypeOK'
    BY <1>2 DEF StartWithWriteable, PipeInv, PipeTypeOK, WriterStates
  <2>2. PipeCorrect'
    BY <1>2 DEF StartWithWriteable, PipeInv, PipeTypeOK, PipeCorrect
  <2> QED
    BY <1>2, <2>1, <2>2 DEF StartWithWriteable, PipeInv
<1>3. CASE ResumeStarted
  <2>1. suspended' = (IF pipeState' \in {"NotStarted", "Paused"} THEN 1 ELSE 0)
                       + (IF resuming' THEN 1 ELSE 0)
    BY <1>3 DEF ResumeStarted, PipeInv, PipeTypeOK, PipeCorrect
  <2>2. PipeTypeOK'
    <3>1. suspended' \in Nat
      BY <2>1
    <3>2. resuming' \in BOOLEAN
      BY <1>3, Zenon DEF ResumeStarted
    <3> QED
      BY <1>3, <3>1, <3>2, Zenon DEF ResumeStarted, PipeInv, PipeTypeOK
  <2> QED
    BY <1>3, <2>1, <2>2 DEF ResumeStarted, PipeInv, PipeCorrect
<1> QED
  BY <1>1, <1>2, <1>3

LEMMA PipeInductive == PipeInv /\ [PipeNext]_pipeVars => PipeInv'
<1> SUFFICES ASSUME PipeInv, [PipeNext]_pipeVars PROVE PipeInv'
  OBVIOUS
<1>1. CASE UNCHANGED pipeVars
  BY <1>1 DEF pipeVars, PipeInv, PipeTypeOK, PipeCorrect
<1>2. CASE PipeNext
  BY <1>2, WriteStep, BeginStep, RunStep, FinishStep, StateStep
     DEF PipeNext, Blocks
<1> QED
  BY <1>1, <1>2

(* Whatever threads write, pause, resume, start and finish the pipe, what  *)
(* it passes on is what was written, in order; nothing is lost until it is *)
(* finished; and its queue is never resumed more often than suspended.     *)
THEOREM PipeIsCorrect == PipeSpec => []PipeCorrect
<1>1. PipeInv => PipeCorrect
  BY DEF PipeInv
<1> QED
  BY PipeInitially, PipeInductive, <1>1, PTL DEF PipeSpec

-----------------------------------------------------------------------------
Statuses == {"ok", "error", "cancelled"}

(* The blocks that the queue's threads enqueue.                            *)
LEMMA BlockTypes ==
  /\ \A status \in Statuses : /\ Ending("complete", status) \in DispatchBlocks
                              /\ Ending("close", status) \in DispatchBlocks
  /\ \A n \in Nat : Block("value", n) \in DispatchBlocks /\ Block("data", n) \in DispatchBlocks
  /\ \A what \in {"cancel", "metadata", "didWrite"} : Block(what, 0) \in DispatchBlocks
BY DEF Ending, Block, DispatchBlocks, Statuses

LEMMA EnqueueTypes ==
  ASSUME NEW q \in Seq(DispatchBlocks), NEW b \in DispatchBlocks
  PROVE  Append(q, b) \in Seq(DispatchBlocks)
OBVIOUS

-----------------------------------------------------------------------------
(* The blocks of the response handlers, as they come and go on the queue.  *)
LEMMA QueueAppend ==
  ASSUME NEW q \in Seq(DispatchBlocks), NEW b \in DispatchBlocks
  PROVE  /\ \A k : Has(Append(q, b), {k}) <=> Has(q, {k}) \/ b.do = k
         /\ \A k : Once(q, {k}) /\ (b.do = k => ~Has(q, {k})) => Once(Append(q, b), {k})
         /\ \A j, k : Before(q, {j}, {k}) /\ (b.do = j => ~Has(q, {k}) /\ b.do # k)
                        => Before(Append(q, b), {j}, {k})
         /\ \A K, S : Each(q, K, S) /\ (b.do \in K => b \in S) => Each(Append(q, b), K, S)
<1>1. \A K : /\ Has(Append(q, b), K) <=> Has(q, K) \/ b.do \in K
             /\ Once(q, K) /\ (b.do \in K => ~Has(q, K)) => Once(Append(q, b), K)
  BY OnAppend, Zenon
<1>2. \A J, K, S : /\ Before(q, J, K) /\ (b.do \in J => ~Has(q, K) /\ b.do \notin K)
                        => Before(Append(q, b), J, K)
                   /\ Each(q, K, S) /\ (b.do \in K => b \in S) => Each(Append(q, b), K, S)
  BY OrderOnAppend, Zenon
<1>3. \A k : b.do \in {k} <=> b.do = k
  OBVIOUS
<1> QED
  BY <1>1, <1>2, <1>3, Zenon

LEMMA QueueRest ==
  ASSUME NEW q \in Seq(DispatchBlocks), q # << >>
  PROVE  /\ \A k : Has(q, {k}) <=> Head(q).do = k \/ Has(Tail(q), {k})
         /\ \A k : Once(q, {k}) => Once(Tail(q), {k}) /\ (Head(q).do = k => ~Has(Tail(q), {k}))
         /\ \A j, k : Before(q, {j}, {k}) => /\ Before(Tail(q), {j}, {k})
                                             /\ Head(q).do = k => ~Has(q, {j})
         /\ \A K, S : Each(q, K, S) => Each(Tail(q), K, S) /\ (Head(q).do \in K => Head(q) \in S)
<1>1. \A K : /\ Has(q, K) <=> Head(q).do \in K \/ Has(Tail(q), K)
             /\ Once(q, K) => Once(Tail(q), K)
             /\ Once(q, K) /\ Head(q).do \in K => ~Has(Tail(q), K)
  BY OnTail, Zenon
<1>2. \A J, K, S : /\ Before(q, J, K) => Before(Tail(q), J, K)
                   /\ Before(q, J, K) /\ Head(q).do \in K => ~Has(q, J)
                   /\ Each(q, K, S) => Each(Tail(q), K, S)
                   /\ Each(q, K, S) /\ Head(q).do \in K => Head(q) \in S
  BY OrderOnTail, Zenon
<1>3. \A k : Head(q).do \in {k} <=> Head(q).do = k
  OBVIOUS
<1> QED
  BY <1>1, <1>2, <1>3, Zenon

(* What a response handler issues, after its metadata if it is the first.  *)
LEMMA IssueIsAppend ==
  ASSUME NEW q \in Seq(DispatchBlocks), NEW b \in DispatchBlocks
  PROVE  q \o Metadata \o <<b>> =
           Append(IF ~internal.published /\ internal.call /\ grpcCall.headers
                    THEN Append(q, Block("metadata", 0)) ELSE q, b)
<1>1. Block("metadata", 0) \in DispatchBlocks
  BY BlockTypes
<1>2. \A p \in Seq(DispatchBlocks), c \in DispatchBlocks : p \o <<c>> = Append(p, c)
  BY AppendIsConcat
<1>3. q \o << >> = q
  BY ConcatEmptySeq
<1>4. Append(q, Block("metadata", 0)) \in Seq(DispatchBlocks)
  BY <1>1, EnqueueTypes
<1> QED
  BY <1>1, <1>2, <1>3, <1>4, Zenon DEF Metadata

(* What a response handler issues behind the blocks q.                     *)
Publishes == ~internal.published /\ internal.call /\ grpcCall.headers

(* The queue p is q with the metadata, if they are due, and the block b of *)
(* the kind d behind it.                                                   *)
Issued(p, q, b, d) ==
  /\ \A k : Has(p, {k}) <=> Has(q, {k}) \/ k = d \/ (Publishes /\ k = "metadata")
  /\ \A k : /\ Once(q, {k}) /\ (k = d => ~Has(q, {k}))
            /\ Publishes /\ k = "metadata" => ~Has(q, {k})
            => Once(p, {k})
  /\ \A j, k : /\ j # k /\ Before(q, {j}, {k})
               /\ j = d => ~Has(q, {k}) /\ k # "metadata"
               /\ Publishes /\ j = "metadata" => ~Has(q, {k})
               => Before(p, {j}, {k})
  /\ \A K, S : /\ Each(q, K, S) /\ (d \in K => b \in S) /\ "metadata" \notin K
               => Each(p, K, S)

LEMMA QueueIssue ==
  ASSUME NEW q \in Seq(DispatchBlocks), NEW b \in DispatchBlocks, NEW d, b.do = d,
         d # "metadata", NEW p, p = q \o Metadata \o <<b>>
  PROVE  Issued(p, q, b, d)
<1> DEFINE m == Block("metadata", 0)
           r == Append(q, m)
<1>1. m \in DispatchBlocks /\ m.do = "metadata"
  BY BlockTypes DEF Block
<1>2. p = IF Publishes THEN Append(r, b) ELSE Append(q, b)
  BY IssueIsAppend, Zenon DEF Publishes
<1> HIDE DEF m
<1>3. r \in Seq(DispatchBlocks)
  BY <1>1, EnqueueTypes
<1>4. /\ \A k : Has(r, {k}) <=> Has(q, {k}) \/ k = "metadata"
      /\ \A k : Once(q, {k}) /\ (k = "metadata" => ~Has(q, {k})) => Once(r, {k})
      /\ \A j, k : Before(q, {j}, {k}) /\ (j = "metadata" => ~Has(q, {k}) /\ k # "metadata")
                     => Before(r, {j}, {k})
      /\ \A K, S : Each(q, K, S) /\ "metadata" \notin K => Each(r, K, S)
  BY <1>1, QueueAppend, Zenon
<1> HIDE DEF r
<1>5. CASE Publishes
  <2>1. /\ \A k : Has(p, {k}) <=> Has(r, {k}) \/ k = d
        /\ \A k : Once(r, {k}) /\ (k = d => ~Has(r, {k})) => Once(p, {k})
        /\ \A j, k : Before(r, {j}, {k}) /\ (j = d => ~Has(r, {k}) /\ k # d)
                       => Before(p, {j}, {k})
        /\ \A K, S : Each(r, K, S) /\ (d \in K => b \in S) => Each(p, K, S)
    <3>1. p = Append(r, b)
      BY <1>2, <1>5
    <3>2. /\ \A k : Has(Append(r, b), {k}) <=> Has(r, {k}) \/ k = d
          /\ \A k : Once(r, {k}) /\ (k = d => ~Has(r, {k})) => Once(Append(r, b), {k})
          /\ \A j, k : Before(r, {j}, {k}) /\ (j = d => ~Has(r, {k}) /\ k # d)
                         => Before(Append(r, b), {j}, {k})
          /\ \A K, S : Each(r, K, S) /\ (d \in K => b \in S) => Each(Append(r, b), K, S)
      BY <1>3, QueueAppend, Zenon
    <3> QED
      BY <3>1, <3>2, Zenon
  <2>2. \A k : Has(p, {k}) <=> Has(q, {k}) \/ k = d \/ k = "metadata"
    BY <1>4, <2>1, Zenon
  <2>3. ASSUME NEW k, Once(q, {k}), k = d => ~Has(q, {k}), k = "metadata" => ~Has(q, {k})
        PROVE  Once(p, {k})
    BY <1>4, <2>1, <2>3, Zenon
  <2>4. ASSUME NEW j, NEW k, j # k, Before(q, {j}, {k}),
               j = d => ~Has(q, {k}) /\ k # "metadata", j = "metadata" => ~Has(q, {k})
        PROVE  Before(p, {j}, {k})
    BY <1>4, <2>1, <2>4, Zenon
  <2>5. ASSUME NEW K, NEW S, Each(q, K, S), d \in K => b \in S, "metadata" \notin K
        PROVE  Each(p, K, S)
    BY <1>4, <2>1, <2>5, Zenon
  <2> QED
    BY <1>5, <2>2, <2>3, <2>4, <2>5, Zenon DEF Issued
<1>6. CASE ~Publishes
  <2>1. /\ \A k : Has(p, {k}) <=> Has(q, {k}) \/ k = d
        /\ \A k : Once(q, {k}) /\ (k = d => ~Has(q, {k})) => Once(p, {k})
        /\ \A j, k : Before(q, {j}, {k}) /\ (j = d => ~Has(q, {k}) /\ k # d)
                       => Before(p, {j}, {k})
        /\ \A K, S : Each(q, K, S) /\ (d \in K => b \in S) => Each(p, K, S)
    <3>1. p = Append(q, b)
      BY <1>2, <1>6
    <3>2. /\ \A k : Has(Append(q, b), {k}) <=> Has(q, {k}) \/ k = d
          /\ \A k : Once(q, {k}) /\ (k = d => ~Has(q, {k})) => Once(Append(q, b), {k})
          /\ \A j, k : Before(q, {j}, {k}) /\ (j = d => ~Has(q, {k}) /\ k # d)
                         => Before(Append(q, b), {j}, {k})
          /\ \A K, S : Each(q, K, S) /\ (d \in K => b \in S) => Each(Append(q, b), K, S)
      BY QueueAppend, Zenon
    <3> QED
      BY <3>1, <3>2, Zenon
  <2> QED
    BY <1>6, <2>1, Zenon DEF Issued
<1> QED
  BY <1>5, <1>6

-----------------------------------------------------------------------------
(* The front of the dispatchQueue has a known kind, and the rest a type.   *)
LEMMA FrontTypes ==
  ASSUME CallInv, NEW what, Runs(what)
  PROVE  /\ Rest \in Seq(DispatchBlocks)
         /\ Head(dispatchQueue) \in DispatchBlocks
         /\ Head(dispatchQueue).do = what
<1>1. dispatchQueue \in Seq(DispatchBlocks) /\ dispatchQueue # << >>
  BY DEF CallInv, Runs
<1>2. Tail(dispatchQueue) \in Seq(DispatchBlocks)
  BY <1>1
<1>3. Head(dispatchQueue) \in DispatchBlocks
  BY <1>1
<1> QED
  BY <1>2, <1>3, Zenon DEF Rest, Runs

LEMMA FrontArguments ==
  ASSUME NEW b \in DispatchBlocks
  PROVE  /\ b.do = "write" => b.arg \in Values
         /\ b.do \in {"complete", "close"} => b.status \in Statuses
         /\ b.do \in {"value", "data"} => b.arg \in Nat
BY DEF DispatchBlocks, UserBlocks, Statuses

LEMMA FinishTypes ==
  ASSUME NEW g, NEW w, NEW status \in Statuses, NEW q \in Seq(DispatchBlocks),
         finishWithError(g, w, status, q)
  PROVE  dispatchQueue' \in Seq(DispatchBlocks)
BY BlockTypes, EnqueueTypes DEF finishWithError

CoreInv == "received" \in DOMAIN core /\ core.received \in Nat

LEMMA StartTypes ==
  ASSUME CoreInv, NEW g, NEW who, NEW q \in Seq(DispatchBlocks),
         startCallWithWriteable(g, q, who)
  PROVE  dispatchQueue' \in Seq(DispatchBlocks) /\ CoreInv'
<1>1. CASE core' = core /\ \E w : finishWithError(g, w, "error", q)
  BY <1>1, FinishTypes DEF CoreInv, Statuses
<1>2. CASE core' = [core EXCEPT !.connected = TRUE] /\ dispatchQueue' = q
  BY <1>2 DEF CoreInv
<1> QED
  BY <1>1, <1>2 DEF startCallWithWriteable

-----------------------------------------------------------------------------
(* A value is written only while the pipe is held, and so not ended;       *)
LEMMA WriteValue ==
  ASSUME CallInv, internal.pipe, NEW x \in Values, Write(x)
  PROVE  PipeNext /\ written' \in Seq(Blocks) /\ EOS \notin Range(written')
<1>1. written \in Seq(Blocks) /\ EOS \notin Range(written) /\ x \in Blocks
  BY DEF CallInv, Blocks
<1>2. written' = Append(written, x)
  BY DEF Write
<1>3. EOS # x
  BY EOSAssumption
<1>4. ASSUME NEW i \in DOMAIN written' PROVE written'[i] # EOS
  <2>1. i \in 1..Len(written) \/ i = Len(written) + 1
    BY <1>1, <1>2
  <2>2. CASE i \in 1..Len(written)
    BY <1>1, <1>2, <2>2 DEF Range
  <2>3. CASE i = Len(written) + 1
    BY <1>1, <1>2, <1>3, <2>3
  <2> QED
    BY <2>1, <2>2, <2>3
<1>5. EOS \notin Range(written')
  BY <1>4 DEF Range
<1>6. written' \in Seq(Blocks)
  BY <1>1, <1>2
<1> QED
  BY <1>1, <1>5, <1>6 DEF PipeNext

(* and it is ended only while it is held.                                  *)
LEMMA WriteEnd ==
  ASSUME CallInv, internal.pipe, Write(EOS)
  PROVE  PipeNext /\ written' \in Seq(Blocks)
<1>1. EOS \in Blocks /\ written \in Seq(Blocks)
  BY DEF CallInv, Blocks
<1> QED
  BY <1>1 DEF PipeNext, CallInv, Write

(* The pipe's own steps write nothing.                                     *)
LEMMA OwnSteps ==
  ASSUME \/ BeginBlock \/ CheckFinished \/ PassFinished
         \/ StartWithWriteable \/ ResumeStarted
         \/ \E pauses \in BOOLEAN : RunValue(pauses)
         \/ \E new \in {"Started", "Finished"} : SetState(new)
  PROVE  PipeNext /\ written' = written
<1>1. PipeNext
  BY DEF PipeNext
<1> QED
  BY <1>1 DEF BeginBlock, CheckFinished, PassFinished, StartWithWriteable,
     ResumeStarted, RunValue, SetState

-----------------------------------------------------------------------------
(* One lemma for each group of steps: each is a step of the pipe or leaves *)
(* it alone, and keeps CallInv.                                            *)
Goal == [PipeNext]_pipeVars /\ CallInv'

UserInv ==
  scenario \in Scenarios /\ "asked" \in DOMAIN user /\ user.asked \in Nat

(* Steps that touch neither the pipe nor who holds it.                     *)
LEMMA Elsewhere ==
  ASSUME CallInv, UNCHANGED <<pipeVars, internal>>,
         dispatchQueue' \in Seq(DispatchBlocks), CoreInv', UserInv'
  PROVE  Goal
BY DEF Goal, CallInv, CoreInv, UserInv, pipeVars

LEMMA UserSteps ==
  ASSUME CallInv, User
  PROVE  Goal
<1>1. CoreInv'
  BY DEF User, UserCalls, UserCancels, UserAsks, CallInv, CoreInv
<1>2. CASE UserCalls
  <2> DEFINE i == user.asked + 1
  <2>1. i \in 1..Len(scenario.script) /\ scenario.script \in Seq(UserBlocks)
    BY <1>2, ScenariosAssumption DEF UserCalls, CallInv
  <2>2. scenario.script[i] \in DispatchBlocks
    BY <2>1 DEF DispatchBlocks
  <2>3. dispatchQueue' = Append(dispatchQueue, scenario.script[i])
    BY <1>2 DEF UserCalls, UserAsks
  <2>4. dispatchQueue' \in Seq(DispatchBlocks)
    BY <2>2, <2>3, EnqueueTypes DEF CallInv
  <2>5. UserInv'
    BY <1>2 DEF UserCalls, UserAsks, CallInv, UserInv
  <2> QED
    BY <1>1, <1>2, <2>4, <2>5, Elsewhere DEF UserCalls, UserAsks
<1>3. CASE UserCancels
  <2>1. dispatchQueue' \in Seq(DispatchBlocks)
    BY <1>3, BlockTypes, EnqueueTypes DEF UserCancels, UserAsks, CallInv
  <2>2. UserInv'
    BY <1>3 DEF UserCancels, UserAsks, CallInv, UserInv
  <2> QED
    BY <1>1, <1>3, <2>1, <2>2, Elsewhere DEF UserCancels, UserAsks
<1> QED
  BY <1>2, <1>3 DEF User

(* From here on the user does nothing.                                     *)
LEMMA NotTheUser ==
  ASSUME CallInv, UNCHANGED <<scenario, user>>
  PROVE  UserInv'
BY DEF CallInv, UserInv

(* Steps on the dispatchQueue that only move blocks.                       *)
LEMMA MovingSteps ==
  ASSUME CallInv, DropCommand \/ Forward \/ ForwardClose
  PROVE  Goal
<1>1. UserInv' /\ CoreInv' /\ UNCHANGED <<pipeVars, internal>>
  BY NotTheUser DEF DropCommand, Forward, ForwardClose, CallInv, CoreInv
<1>2. dispatchQueue' = Rest /\ \E what : Runs(what)
  BY DEF DropCommand, Forward, ForwardClose
<1>3. dispatchQueue' \in Seq(DispatchBlocks)
  BY <1>2, FrontTypes
<1> QED
  BY <1>1, <1>3, Elsewhere

(* Steps of the threads that start and finish the pipe.                    *)
LEMMA WriterSteps ==
  ASSUME CallInv, NEW who, StartWriter(who) \/ FinishWriter(who)
  PROVE  Goal
<1>1. /\ UserInv' /\ CoreInv' /\ internal' = internal
      /\ dispatchQueue' \in Seq(DispatchBlocks)
  BY NotTheUser DEF StartWriter, FinishWriter, CallInv, CoreInv
<1>2. PipeNext /\ written' = written
  BY OwnSteps DEF StartWriter, FinishWriter
<1> QED
  BY <1>1, <1>2 DEF Goal, CallInv, CoreInv, UserInv

LEMMA PipeQueueSteps ==
  ASSUME CallInv, PipeQueue
  PROVE  Goal
<1>1. /\ UserInv' /\ CoreInv' /\ internal' = internal
      /\ dispatchQueue' \in Seq(DispatchBlocks)
  BY NotTheUser, Zenon DEF PipeQueue, writeValue, writesFinishedWithError, PassTo,
     callVars, CallInv, CoreInv
<1>2. PipeNext /\ written' = written
  BY OwnSteps, Zenon DEF PipeQueue, writeValue, writesFinishedWithError
<1> QED
  BY <1>1, <1>2 DEF Goal, CallInv, CoreInv, UserInv

LEMMA StartSteps ==
  ASSUME CallInv, Start \/ TokenArrives
  PROVE  Goal
<1>1. CoreInv /\ dispatchQueue \in Seq(DispatchBlocks)
  BY DEF CallInv, CoreInv
<1>2. CASE Start
  <2>1. Rest \in Seq(DispatchBlocks)
    BY <1>2, FrontTypes DEF Start
  <2>2. dispatchQueue' \in Seq(DispatchBlocks) /\ CoreInv'
    <3>1. CASE dispatchQueue' = Rest /\ core' = core
      BY <1>1, <2>1, <3>1 DEF CoreInv
    <3>2. CASE \E g : startCallWithWriteable(g, Rest, "dispatch")
      BY <1>1, <2>1, <3>2, StartTypes
    <3> QED
      BY <1>2, <3>1, <3>2 DEF Start
  <2>3. UserInv' /\ UNCHANGED pipeVars
    BY <1>2, NotTheUser DEF Start
  <2>4. "pipe" \in DOMAIN internal' /\ internal'.pipe = internal.pipe
    BY <1>2 DEF Start, CallInv
  <2> QED
    BY <2>2, <2>3, <2>4 DEF Goal, CallInv, CoreInv, UserInv, pipeVars
<1>3. CASE TokenArrives
  <2>1. dispatchQueue' \in Seq(DispatchBlocks) /\ CoreInv'
    <3>1. CASE dispatchQueue' = dispatchQueue /\ core' = core
      BY <1>1, <3>1 DEF CoreInv
    <3>2. CASE \E g : startCallWithWriteable(g, dispatchQueue, "token")
      BY <1>1, <3>2, StartTypes
    <3> QED
      BY <1>3, <3>1, <3>2 DEF TokenArrives
  <2>2. UserInv' /\ UNCHANGED <<pipeVars, internal>>
    BY <1>3, NotTheUser DEF TokenArrives
  <2> QED
    BY <2>1, <2>2, Elsewhere
<1> QED
  BY <1>2, <1>3

(* The commands that write: a value while the pipe is held, or its end,    *)
(* with which the pipe is let go.                                          *)
LEMMA WritingSteps ==
  ASSUME CallInv, writeData \/ finish
  PROVE  Goal
<1>1. /\ UserInv' /\ CoreInv'
      /\ dispatchQueue' \in Seq(DispatchBlocks)
  BY NotTheUser, FrontTypes DEF writeData, finish, CallInv, CoreInv
<1>2. CASE writeData
  <2>1. internal' = internal
    BY <1>2 DEF writeData
  <2>2. CASE UNCHANGED pipeVars
    BY <1>1, <2>1, <2>2, Elsewhere
  <2>3. CASE internal.pipe /\ Write(Head(dispatchQueue).arg)
    <3>1. Head(dispatchQueue).arg \in Values
      BY <1>2, FrontTypes, FrontArguments DEF writeData
    <3>2. PipeNext /\ written' \in Seq(Blocks) /\ EOS \notin Range(written')
      BY <2>3, <3>1, WriteValue
    <3> QED
      BY <1>1, <2>1, <3>2 DEF Goal, CallInv, CoreInv, UserInv
  <2> QED
    BY <1>2, <2>2, <2>3 DEF writeData
<1>3. CASE finish
  <2>1. CASE UNCHANGED <<pipeVars, internal>>
    BY <1>1, <2>1, Elsewhere
  <2>2. CASE /\ internal' = [internal EXCEPT !.finished = TRUE, !.pipe = FALSE]
             /\ IF internal.pipe THEN Write(EOS) ELSE UNCHANGED pipeVars
    <3>1. "pipe" \in DOMAIN internal' /\ ~internal'.pipe
      BY <2>2 DEF CallInv
    <3>2. [PipeNext]_pipeVars /\ written' \in Seq(Blocks)
      BY <2>2, WriteEnd DEF CallInv, pipeVars
    <3> QED
      BY <1>1, <3>1, <3>2 DEF Goal, CallInv, CoreInv, UserInv
  <2> QED
    BY <1>3, <2>1, <2>2 DEF finish
<1> QED
  BY <1>2, <1>3

(* The other commands and the value blocks keep or drop the pipe.          *)
LEMMA HoldingSteps ==
  ASSUME CallInv, UNCHANGED pipeVars, UserInv', CoreInv',
         dispatchQueue' \in Seq(DispatchBlocks),
         "pipe" \in DOMAIN internal', internal'.pipe => internal.pipe
  PROVE  Goal
BY DEF Goal, CallInv, CoreInv, UserInv, pipeVars

LEMMA ReceiveSteps ==
  ASSUME CallInv, receiveNextMessages
  PROVE  Goal
<1>1. /\ UserInv' /\ CoreInv' /\ UNCHANGED pipeVars
      /\ dispatchQueue' \in Seq(DispatchBlocks)
  BY NotTheUser, FrontTypes DEF receiveNextMessages, CallInv, CoreInv
<1>2. "pipe" \in DOMAIN internal' /\ internal'.pipe = internal.pipe
  BY DEF receiveNextMessages, CallInv
<1> QED
  BY <1>1, <1>2, HoldingSteps

LEMMA CancelSteps ==
  ASSUME CallInv, cancel
  PROVE  Goal
<1>1. Rest \in Seq(DispatchBlocks)
  BY FrontTypes DEF cancel
<1>2. dispatchQueue' \in Seq(DispatchBlocks)
  BY <1>1, FinishTypes, Zenon DEF cancel, Statuses
<1>3. core' = core \/ core' = [core EXCEPT !.broken = @ \/ core.connected]
  BY DEF cancel, CancelWrappedCall
<1>4. CoreInv'
  BY <1>3 DEF CallInv, CoreInv
<1>5. UserInv' /\ UNCHANGED pipeVars
  BY NotTheUser DEF cancel
<1>6. "pipe" \in DOMAIN internal' /\ ~internal'.pipe
  BY DEF cancel, CallInv
<1> QED
  BY <1>2, <1>4, <1>5, <1>6, HoldingSteps

(* The metadata goes in front of what a response handler issues.           *)
LEMMA IssueTypes ==
  ASSUME NEW q \in Seq(DispatchBlocks), NEW b \in DispatchBlocks
  PROVE  q \o Metadata \o <<b>> \in Seq(DispatchBlocks)
<1>1. Metadata \in Seq(DispatchBlocks)
  BY BlockTypes DEF Metadata
<1> HIDE DEF Metadata
<1>2. q \o Metadata \in Seq(DispatchBlocks)
  BY <1>1
<1> QED
  BY <1>2

LEMMA ResponseSteps ==
  ASSUME CallInv, WriteResponse
  PROVE  Goal
<1>1. UserInv' /\ CoreInv' /\ UNCHANGED pipeVars
  BY NotTheUser DEF WriteResponse, CallInv, CoreInv
<1>2. Rest \in Seq(DispatchBlocks)
  BY FrontTypes DEF WriteResponse
<1>3. Block("data", Head(dispatchQueue).arg) \in DispatchBlocks
  BY FrontTypes, FrontArguments, BlockTypes DEF WriteResponse
<1>4. dispatchQueue' \in Seq(DispatchBlocks)
  BY <1>2, <1>3, IssueTypes, Zenon DEF WriteResponse
<1>5. "pipe" \in DOMAIN internal' /\ internal'.pipe = internal.pipe
  BY DEF WriteResponse, CallInv
<1> QED
  BY <1>1, <1>4, <1>5, HoldingSteps

(* The completionHandler ends the pipe if it is the one that lets it go.   *)
LEMMA CompleteSteps ==
  ASSUME CallInv, Complete
  PROVE  Goal
<1>1. UserInv' /\ CoreInv'
  BY NotTheUser DEF Complete, CallInv, CoreInv
<1>2. Rest \in Seq(DispatchBlocks)
  BY FrontTypes DEF Complete
<1>3. Ending("close", Head(dispatchQueue).status) \in DispatchBlocks
  BY FrontTypes, FrontArguments, BlockTypes DEF Complete
<1>4. dispatchQueue' \in Seq(DispatchBlocks)
  BY <1>2, <1>3, IssueTypes, Zenon DEF Complete
<1>5. CASE UNCHANGED <<pipeVars, internal>>
  BY <1>1, <1>4, <1>5, Elsewhere
<1>6. CASE /\ internal' = [internal EXCEPT !.published = TRUE, !.call = FALSE,
                                           !.pipe = @ /\ ~internal.call]
           /\ IF internal.call /\ internal.pipe THEN Write(EOS)
                                               ELSE UNCHANGED pipeVars
  <2>1. /\ "pipe" \in DOMAIN internal'
        /\ internal'.pipe <=> internal.pipe /\ ~internal.call
    BY <1>6, Zenon DEF CallInv
  <2>2. CASE internal.call /\ internal.pipe
    <3>1. PipeNext /\ written' \in Seq(Blocks)
      BY <1>6, <2>2, WriteEnd
    <3> QED
      BY <1>1, <1>4, <2>1, <2>2, <3>1 DEF Goal, CallInv, CoreInv, UserInv
  <2>3. CASE ~(internal.call /\ internal.pipe)
    <3>1. UNCHANGED pipeVars
      BY <1>6, <2>3
    <3> QED
      BY <1>1, <1>4, <2>1, <3>1, HoldingSteps
  <2> QED
    BY <2>2, <2>3
<1> QED
  BY <1>5, <1>6 DEF Complete

-----------------------------------------------------------------------------
(* The callQueue and the network.                                          *)
LEMMA CallQueueSteps ==
  ASSUME CallInv, CallQueue \/ channelDisconnected
  PROVE  Goal
<1>1. /\ UserInv' /\ UNCHANGED <<pipeVars, internal>>
      /\ dispatchQueue' \in Seq(DispatchBlocks)
  BY NotTheUser DEF CallQueue, channelDisconnected, CallInv
<1>2. CoreInv'
  BY Zenon DEF CallQueue, channelDisconnected, startBatch, CallInv, CoreInv
<1> QED
  BY <1>1, <1>2, Elsewhere

LEMMA BatchSteps ==
  ASSUME CallInv, MetadataDone \/ SendDone \/ MessageDone
  PROVE  Goal
<1>1. UserInv' /\ internal' = internal
  BY NotTheUser DEF MetadataDone, SendDone, MessageDone
<1>2. CoreInv'
  <2>1. CASE core' = [core EXCEPT !.metadata = "done"]
    BY <2>1 DEF CallInv, CoreInv
  <2>2. CASE core' = [core EXCEPT !.send = @ - 1]
    BY <2>2 DEF CallInv, CoreInv
  <2>3. CASE core' = [core EXCEPT !.receive = @ - 1, !.received = @ + 1]
    BY <2>3 DEF CallInv, CoreInv
  <2> QED
    BY <2>1, <2>2, <2>3 DEF MetadataDone, SendDone, MessageDone
<1>3. dispatchQueue' \in Seq(DispatchBlocks)
  <2>1. core.received + 1 \in Nat /\ 0 \in Nat
    BY DEF CallInv
  <2> QED
    BY <2>1, BlockTypes, EnqueueTypes, Zenon
    DEF MetadataDone, SendDone, MessageDone, CallInv
<1>4. CASE SendDone
  <2>1. PipeNext /\ written' = written
    BY <1>4, OwnSteps DEF SendDone
  <2> QED
    BY <1>1, <1>2, <1>3, <2>1 DEF Goal, CallInv, CoreInv, UserInv
<1>5. CASE MetadataDone \/ MessageDone
  <2>1. UNCHANGED pipeVars
    BY <1>5 DEF MetadataDone, MessageDone
  <2> QED
    BY <1>1, <1>2, <1>3, <2>1, Elsewhere
<1> QED
  BY <1>4, <1>5

LEMMA EndingSteps ==
  ASSUME CallInv,
         MessageTooLarge \/ \E status \in {"ok", "error"} : StatusDone(status)
  PROVE  Goal
<1>1. UserInv' /\ UNCHANGED <<pipeVars, internal>>
  BY NotTheUser DEF MessageTooLarge, StatusDone
<1>2. CoreInv'
  BY ZenonT(30) DEF MessageTooLarge, StatusDone, CallInv, CoreInv
<1>3. dispatchQueue' \in Seq(DispatchBlocks)
  <2>1. dispatchQueue \in Seq(DispatchBlocks)
    BY DEF CallInv
  <2>2. {"ok", "error"} \subseteq Statuses
    BY DEF Statuses
  <2>3. CASE MessageTooLarge
    BY <2>1, <2>2, <2>3, FinishTypes DEF MessageTooLarge
  <2>4. ASSUME NEW status \in {"ok", "error"}, StatusDone(status)
        PROVE  dispatchQueue' \in Seq(DispatchBlocks)
    BY <2>1, <2>2, <2>4, FinishTypes DEF StatusDone
  <2> QED
    BY <2>3, <2>4
<1> QED
  BY <1>1, <1>2, <1>3, Elsewhere

-----------------------------------------------------------------------------
LEMMA CallInitially == CallInit => CallInv /\ PipeInit
<1> SUFFICES ASSUME CallInit PROVE CallInv
  BY DEF CallInit
<1>1. written = << >> /\ dispatchQueue = << >>
  BY DEF CallInit, PipeInit
<1>2. written \in Seq(Blocks) /\ dispatchQueue \in Seq(DispatchBlocks)
  BY <1>1
<1>3. EOS \notin Range(written)
  BY <1>1 DEF Range
<1> QED
  BY <1>2, <1>3 DEF CallInit, CallInv

LEMMA CallStep == CallInv /\ [CallNext]_vars => Goal
<1> SUFFICES ASSUME CallInv, [CallNext]_vars PROVE Goal
  OBVIOUS
<1>1. CASE User
  BY <1>1, UserSteps
<1>2. CASE Dispatch
  BY <1>2, MovingSteps, StartSteps, WriterSteps, WritingSteps, ReceiveSteps,
     CancelSteps, ResponseSteps, CompleteSteps DEF Dispatch
<1>3. CASE TokenArrives \/ StartWriter("token")
  BY <1>3, StartSteps, WriterSteps
<1>4. CASE PipeQueue
  BY <1>4, PipeQueueSteps
<1>5. CASE CallQueue \/ channelDisconnected
  BY <1>5, CallQueueSteps
<1>6. CASE Network
  BY <1>6, BatchSteps, EndingSteps, WriterSteps DEF Network
<1>7. CASE UNCHANGED vars
  BY <1>7 DEF vars, callVars, pipeVars, Goal, CallInv
<1> QED
  BY <1>1, <1>2, <1>3, <1>4, <1>5, <1>6, <1>7 DEF CallNext

(* Whatever the user, the token provider, the queues and the network do,   *)
(* and for every scenario, GRPCCall2Internal and GRPCCall together use the *)
(* request pipe as GRXBufferedPipe expects: they start it once and write   *)
(* nothing after its end.                                                  *)
THEOREM CallKeepsPipeContract == CallSpec => PipeContract
<1>1. CallInit => CallInv /\ PipeInit
  BY CallInitially
<1>2. CallInv /\ [CallNext]_vars => [PipeNext]_pipeVars /\ CallInv'
  BY CallStep DEF Goal
<1> QED
  BY <1>1, <1>2, PTL DEF CallSpec, PipeContract

(* And so the request pipe of a call passes on what the call was given to  *)
(* write, in that order, once each and with the end last, loses nothing    *)
(* until it is finished, and never resumes its queue once too often.       *)
THEOREM CallPipeIsCorrect == CallSpec => []PipeCorrect
<1>1. PipeContract => PipeSpec
  BY DEF PipeContract, PipeSpec
<1> QED
  BY <1>1, CallKeepsPipeContract, PipeIsCorrect, PTL

=============================================================================
