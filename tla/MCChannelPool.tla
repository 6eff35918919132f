--------------------------- MODULE MCChannelPool ----------------------------
(* One host that the pool is asked for with and without its default port:   *)
(* pooled channels share no state, so that one is enough.                   *)
EXTENDS ChannelPool

MCAddresses == {[name |-> "museum", port |-> 443, scheme |-> FALSE],
                [name |-> "museum", port |-> NoPort, scheme |-> FALSE]}

=============================================================================
