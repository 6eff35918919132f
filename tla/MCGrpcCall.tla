----------------------------- MODULE MCGrpcCall -----------------------------
EXTENDS GrpcCall

Scenario(flowControl, tokenProvider, script) ==
  [flowControl |-> flowControl, tokenProvider |-> tokenProvider,
   script |-> script]

start == Block("start", 0)
write(x) == Block("write", x)
finishes == Block("finish", 0)
receive == Block("receive", 1)

(* Two writes that the pipe must hold back; flow control, with a message   *)
(* asked for before the start and one after; a token to wait for, with     *)
(* something written before the start and the end after; and the same with *)
(* every message read and the requests left open.                          *)
MCScenarios ==
  {Scenario(TRUE, FALSE, <<start, write(1), write(2)>>),
   Scenario(TRUE, FALSE, <<receive, start, finishes, receive>>),
   Scenario(TRUE, TRUE, <<write(1), start, finishes>>),
   Scenario(FALSE, TRUE, <<write(1), start>>)}

=============================================================================
