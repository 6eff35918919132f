---------------------------- MODULE BufferedPipe ----------------------------
(***************************************************************************)
(* GRXBufferedPipe, the writer that holds the requests of a streaming      *)
(* call: a serial dispatch queue that is suspended while the pipe is not   *)
(* started or paused.  The methods may be called from any thread, and each *)
(* @synchronized block is one step; the blocks of the queue run one at a   *)
(* time, and one that has begun is not stopped by a suspension.            *)
(***************************************************************************)
EXTENDS Streams

CONSTANTS
  Values,   \* what is written
  EOS       \* the end of the stream: writesFinishedWithError:nil

ASSUME EOSAssumption == EOS \notin Values

VARIABLES
  pipeState,       \* _state
  suspended,       \* suspensions of _writeQueue; a resume of 0 would trap
  writeQueue,      \* blocks not yet begun
  block,           \* the block that runs: << >> or one element
  checked,         \* it is the EOS block, past its look at _state
  pipeWriteable,   \* self.writeable is not nil
  resuming,        \* startWithWriteable is between unlock and resume
  written,         \* history: what was written to the pipe
  passed           \* history: what the pipe passed to its writeable

pipeVars == <<pipeState, suspended, writeQueue, block, checked,
              pipeWriteable, resuming, written, passed>>

WriterStates == {"NotStarted", "Started", "Paused", "Finished"}

PipeInit ==
  /\ pipeState = "NotStarted"
  /\ suspended = 1
  /\ writeQueue = << >>
  /\ block = << >>
  /\ checked = FALSE
  /\ pipeWriteable = FALSE
  /\ resuming = FALSE
  /\ written = << >>
  /\ passed = << >>

-----------------------------------------------------------------------------
(* writeValue: and writesFinishedWithError: only enqueue a block.          *)
Write(x) ==
  /\ writeQueue' = Append(writeQueue, x)
  /\ written' = Append(written, x)
  /\ UNCHANGED <<pipeState, suspended, block, checked, pipeWriteable,
                 resuming, passed>>

(* libdispatch takes the next block of a queue that is not suspended.      *)
BeginBlock ==
  /\ suspended = 0 /\ block = << >> /\ writeQueue # << >>
  /\ block' = <<Head(writeQueue)>>
  /\ writeQueue' = Tail(writeQueue)
  /\ UNCHANGED <<pipeState, suspended, checked, pipeWriteable, resuming,
                 written, passed>>

(* The block of writeValue:, under the lock.  The writeable may pause the  *)
(* pipe from within its writeValue:.                                       *)
RunValue(pauses) ==
  /\ block # << >> /\ block # <<EOS>>
  /\ block' = << >>
  /\ IF pipeState = "Finished"
       THEN UNCHANGED <<pipeState, suspended, passed>>
       ELSE /\ passed' = IF pipeWriteable THEN passed \o block ELSE passed
            /\ IF pauses /\ pipeWriteable /\ pipeState = "Started"
                 THEN pipeState' = "Paused" /\ suspended' = suspended + 1
                 ELSE UNCHANGED <<pipeState, suspended>>
  /\ UNCHANGED <<writeQueue, checked, pipeWriteable, resuming, written>>

(* The block of writesFinishedWithError: looks at the state without the    *)
(* lock,                                                                   *)
CheckFinished ==
  /\ block = <<EOS>> /\ ~checked
  /\ IF pipeState = "Finished" THEN block' = << >> /\ checked' = FALSE
                               ELSE checked' = TRUE /\ block' = block
  /\ UNCHANGED <<pipeState, suspended, writeQueue, pipeWriteable, resuming,
                 written, passed>>

(* and then finishWithError: tells the writeable, if there is one.  The    *)
(* pipe keeps its state and its writeable.                                 *)
PassFinished ==
  /\ block = <<EOS>> /\ checked
  /\ block' = << >> /\ checked' = FALSE
  /\ passed' = IF pipeWriteable THEN passed \o block ELSE passed
  /\ UNCHANGED <<pipeState, suspended, writeQueue, pipeWriteable, resuming,
                 written>>

(* A manual transition is only made from Started and Paused.               *)
Manual(new) ==
  IF pipeState \in {"NotStarted", "Finished"} THEN pipeState ELSE new

Suspends(s) == IF s = "Paused" THEN 1 ELSE 0

(* Variant, a fault: to finish resumes the queue whatever the state was.   *)
SetStateResuming(new) ==
  /\ pipeState' = Manual(new)
  /\ pipeWriteable' = (pipeWriteable /\ pipeState' # "Finished")
  /\ suspended' = IF pipeState' = "Finished" /\ pipeState # "Finished"
                    THEN suspended - 1
                    ELSE suspended + Suspends(pipeState') - Suspends(pipeState)
  /\ UNCHANGED <<writeQueue, block, checked, resuming, written, passed>>

(* setState: to pause suspends the queue, to leave the pause resumes it,   *)
(* and a finished pipe drops its writeable.                                *)
SetState(new) ==
  /\ pipeState' = Manual(new)
  /\ pipeWriteable' = (pipeWriteable /\ pipeState' # "Finished")
  /\ suspended' = suspended + Suspends(pipeState') - Suspends(pipeState)
  /\ UNCHANGED <<writeQueue, block, checked, resuming, written, passed>>

(* startWithWriteable:, which is called once: under the lock, and the      *)
(* resume after it.                                                        *)
StartWithWriteable ==
  /\ pipeState = "NotStarted"
  /\ pipeState' = "Started"
  /\ pipeWriteable' = TRUE
  /\ resuming' = TRUE
  /\ UNCHANGED <<suspended, writeQueue, block, checked, written, passed>>

ResumeStarted ==
  /\ resuming
  /\ resuming' = FALSE
  /\ suspended' = suspended - 1
  /\ UNCHANGED <<pipeState, writeQueue, block, checked, pipeWriteable,
                 written, passed>>

-----------------------------------------------------------------------------
(* Nothing is written after the end of the stream.                         *)
PipeNext ==
  \/ \E x \in Values \union {EOS} : EOS \notin Range(written) /\ Write(x)
  \/ BeginBlock
  \/ \E pauses \in BOOLEAN : RunValue(pauses)
  \/ CheckFinished
  \/ PassFinished
  \/ \E new \in {"Started", "Paused", "Finished"} : SetState(new)
  \/ StartWithWriteable
  \/ ResumeStarted

PipeSpec == PipeInit /\ [][PipeNext]_pipeVars

-----------------------------------------------------------------------------
Blocks == Values \union {EOS}

PipeTypeOK ==
  /\ pipeState \in WriterStates
  /\ suspended \in Nat
  /\ writeQueue \in Seq(Blocks)
  /\ block \in Seq(Blocks) /\ Len(block) <= 1
  /\ checked \in BOOLEAN
  /\ pipeWriteable \in BOOLEAN
  /\ resuming \in BOOLEAN
  /\ written \in Seq(Blocks)
  /\ passed \in Seq(Blocks)

(* GRXBufferedPipe.h: the pipe "will buffer them and propagate them in     *)
(* order".  What it passed on is what was written, in that order and with  *)
(* the end last, and until it is finished nothing is lost.  The queue is   *)
(* suspended exactly while it must be, so no resume is one too many.       *)
PipeCorrect ==
  /\ IsStartOf(passed, written)
  /\ pipeState # "Finished" => (passed \o block) \o writeQueue = written
  /\ suspended = (IF pipeState \in {"NotStarted", "Paused"} THEN 1 ELSE 0)
                   + (IF resuming THEN 1 ELSE 0)

(* What makes PipeCorrect inductive: the pipe has its writeable while it   *)
(* is started or paused, and neither a block nor the resume runs before.   *)
PipeInv ==
  /\ PipeTypeOK
  /\ PipeCorrect
  /\ pipeWriteable <=> pipeState \in {"Started", "Paused"}
  /\ pipeState = "NotStarted" => block = << >> /\ ~resuming

=============================================================================
