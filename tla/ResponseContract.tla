-------------------------- MODULE ResponseContract --------------------------
(***************************************************************************)
(* What the Objective-C gRPC client promises a GRPCResponseHandler         *)
(* (GRPCInterceptor.h, the state diagram and the paragraph below it): the  *)
(* initial metadata at most once and before any message, the messages in   *)
(* the order in which they were received and without a gap, and at most    *)
(* one close, after which there is nothing.  A call that closes without an *)
(* error has handed over every message.                                    *)
(*                                                                         *)
(* The methods of a handler are optional: it hears the events that it has  *)
(* a method for.  One that cannot hear a close is not told that a message  *)
(* did not parse, and goes on with the next.                               *)
(***************************************************************************)
EXTENDS Naturals, Sequences

VARIABLES
  methods,    \* the events that the handler has a method for
  received,   \* how many messages have come in
  heard       \* the callbacks so far

Event(what, arg) == [event |-> what, arg |-> arg]
Close(status) == [event |-> "close", status |-> status]

(* The places in heard of one kind of callback.                            *)
Heard(what) == {i \in DOMAIN heard : heard[i].event = what}

(* The numbers of the messages that the handler was given.                 *)
Given == {heard[i].arg : i \in Heard("data")}

Closed == Heard("close") # {}

ContractInit == received = 0 /\ heard = << >>

Hear(e) == e.event \in methods /\ ~Closed /\ heard' = Append(heard, e)

Receive == received' = received + 1 /\ UNCHANGED heard

HearMetadata ==
  /\ Heard("metadata") = {}
  /\ Hear(Event("metadata", 0))
  /\ UNCHANGED received

HearData ==
  /\ "metadata" \in methods => Heard("metadata") # {}
  /\ \E n \in 1..received : /\ Given \subseteq 1..(n - 1)
                           /\ "close" \in methods => Given = 1..(n - 1)
                           /\ Hear(Event("data", n))
  /\ UNCHANGED received

HearDidWrite == Hear(Event("didWrite", 0)) /\ UNCHANGED received

HearClose(status) ==
  /\ status = "ok" /\ "data" \in methods => Given = 1..received
  /\ Hear(Close(status))
  /\ UNCHANGED received

ContractNext ==
  \/ Receive
  \/ HearMetadata
  \/ HearData
  \/ HearDidWrite
  \/ \E status \in {"ok", "error", "cancelled"} : HearClose(status)

ContractSpec ==
  ContractInit /\ [][ContractNext /\ UNCHANGED methods]_<<methods, received, heard>>

=============================================================================
