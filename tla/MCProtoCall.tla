---------------------------- MODULE MCProtoCall -----------------------------
EXTENDS ProtoCall

(* A call that is finished, and a stream that the user leaves open.        *)
MCScripts == {<<"start", "write", "finish">>, <<"receive", "start">>}

(* A handler with all the methods, like GRPCUnaryResponseHandler, one that *)
(* waits for the end and one that only takes the messages.                 *)
MCHandlers == {Methods, {"close"}, {"data"}}

=============================================================================
