----------------------------- MODULE ChatStream -----------------------------
(***************************************************************************)
(* The chat of ListViewModel's init block: a channel to 127.0.0.1:50051, a *)
(* coroutine in viewModelScope that calls ChatService.ChatStream           *)
(* (protos/chat.proto) with a flow of one message, and collectLatest over  *)
(* the answers.  The gRPC library and the server are external.             *)
(***************************************************************************)
EXTENDS Streams

CONSTANTS
  ServerMessages,   \* the ChatMessages the server may stream
  MaxMessages       \* bound: how many of them it streams in one call

ASSUME MaxMessagesAssumption == MaxMessages \in Nat

VARIABLES
  call,         \* the ChatStream call and the coroutine that collects it
  sent,         \* the ChatMessages that went out
  halfClosed,   \* the request flow completed
  serverSent,   \* what the server streamed in this call
  inbox,        \* received and not yet collected
  logged        \* what the collector handed to Logger.i

chatVars == <<call, sent, halfClosed, serverSent, inbox, logged>>

Hello == [user_id |-> "ios", content |-> "Hello", timestamp |-> ""]

ChatInit ==
  /\ call = "idle"
  /\ sent = << >>
  /\ halfClosed = FALSE
  /\ serverSent = << >>
  /\ inbox = << >>
  /\ logged = << >>

-----------------------------------------------------------------------------
(* init: build the channel and the stub, launch, collect.                  *)
OpenChat ==
  /\ call' = "open"
  /\ sent' = << >>
  /\ halfClosed' = FALSE
  /\ serverSent' = << >>
  /\ inbox' = << >>
  /\ logged' = << >>

(* Variant, a fault: the message lacks its content.                        *)
EmitBlank ==
  /\ call = "open"
  /\ sent = << >>
  /\ sent' = <<[Hello EXCEPT !.content = ""]>>
  /\ UNCHANGED <<call, halfClosed, serverSent, inbox, logged>>

(* flow { emit(ChatMessage("ios", content = "Hello", timestamp = "")) }    *)
EmitHello ==
  /\ call = "open"
  /\ sent = << >>
  /\ sent' = <<Hello>>
  /\ UNCHANGED <<call, halfClosed, serverSent, inbox, logged>>

(* The request flow has no second emit: it completes.                      *)
CompleteRequests ==
  /\ call = "open"
  /\ sent # << >> /\ ~halfClosed
  /\ halfClosed' = TRUE
  /\ UNCHANGED <<call, sent, serverSent, inbox, logged>>

ServerStreams(m) ==
  /\ call = "open"
  /\ Len(serverSent) < MaxMessages
  /\ serverSent' = Append(serverSent, m)
  /\ inbox' = Append(inbox, m)
  /\ UNCHANGED <<call, sent, halfClosed, logged>>

(* Variants, faults: conflate() skips to the latest message; a message     *)
(* waits for the next one.                                                 *)
LogLatest ==
  /\ call = "open"
  /\ inbox # << >>
  /\ logged' = Append(logged, inbox[Len(inbox)])
  /\ inbox' = << >>
  /\ UNCHANGED <<call, sent, halfClosed, serverSent>>

LogPrevious ==
  /\ call = "open"
  /\ Len(inbox) > 1
  /\ logged' = Append(logged, Head(inbox))
  /\ inbox' = Tail(inbox)
  /\ UNCHANGED <<call, sent, halfClosed, serverSent>>

(* collectLatest { Logger.i("Message $it") }: the next message cancels the *)
(* block of the one before, which has no suspension point and is done.     *)
LogMessage ==
  /\ call = "open"
  /\ inbox # << >>
  /\ logged' = Append(logged, Head(inbox))
  /\ inbox' = Tail(inbox)
  /\ UNCHANGED <<call, sent, halfClosed, serverSent>>

(* Status OK ends the flow after the messages before it.                   *)
CallCompletes ==
  /\ call = "open"
  /\ inbox = << >>
  /\ call' = "completed"
  /\ UNCHANGED <<sent, halfClosed, serverSent, inbox, logged>>

(* Any other status, the refused connection included, throws out of        *)
(* collectLatest and of launch: nothing catches it.                        *)
CallFails ==
  /\ call = "open"
  /\ call' = "failed"
  /\ inbox' = << >>
  /\ UNCHANGED <<sent, halfClosed, serverSent, logged>>

(* Variant, a fault: launched in a scope that outlives the view model.     *)
CancelNothing == UNCHANGED chatVars

(* onCleared() cancels viewModelScope.  The channel is not shut down.      *)
CancelChat ==
  /\ call' = IF call = "open" THEN "cancelled" ELSE call
  /\ inbox' = << >>
  /\ UNCHANGED <<sent, halfClosed, serverSent, logged>>

-----------------------------------------------------------------------------
ChatStep ==
  \/ EmitHello
  \/ CompleteRequests
  \/ \E m \in ServerMessages : ServerStreams(m)
  \/ LogMessage
  \/ CallCompletes

(* A view model opens one chat; the next view model may open another when  *)
(* that one is over.                                                       *)
ChatNext ==
  \/ call \in {"idle", "completed", "cancelled"} /\ OpenChat
  \/ ChatStep
  \/ CallFails
  \/ call # "idle" /\ CancelChat

(* The main thread runs the collector; the server owes nothing.            *)
ChatFairness == WF_chatVars(EmitHello) /\ WF_chatVars(CompleteRequests)
                  /\ WF_chatVars(LogMessage)

ChatSpec == ChatInit /\ [][ChatNext]_chatVars /\ ChatFairness

-----------------------------------------------------------------------------
(* The chat coroutine keeps to its types.                                  *)
ChatTypeOK ==
  /\ call \in {"idle", "open", "completed", "failed", "cancelled"}
  /\ sent \in Seq({Hello})
  /\ halfClosed \in BOOLEAN
  /\ serverSent \in Seq(ServerMessages)
  /\ inbox \in Seq(ServerMessages)
  /\ logged \in Seq(ServerMessages)

(* What is logged is what the server streamed, in its order and without    *)
(* gaps: collectLatest loses none of it, and a call that completed has     *)
(* logged all.                                                             *)
LogFollowsStream ==
  /\ call \in {"open", "completed"} => logged \o inbox = serverSent
  /\ call = "completed" => logged = serverSent
  /\ IsStartOf(logged, serverSent)

(* Every streamed message is logged, unless the call fails or the view     *)
(* model is cleared.                                                       *)
StreamIsLogged ==
  \A n \in 1..MaxMessages :
    (Len(serverSent) >= n)
      ~> (Len(logged) >= n \/ call \in {"failed", "cancelled"})

(* protos/chat.proto: "Timestamp as string (milliseconds since epoch)".    *)
(* The messages that go out carry one.                                     *)
TimestampIsMillis == \A i \in DOMAIN sent : sent[i].timestamp # ""

=============================================================================
