--------------------------- MODULE MCSocketCleaner ---------------------------
(* Instances of SocketCleaner for TLC. *)
EXTENDS SocketCleaner

\* On one port, an XHTTP inbound on all addresses, one on a single address, one
\* on a unix socket, and a raw inbound on another address.
MCDual == [network |-> "xhttp", port |-> "in", unix |-> FALSE,
           address |-> IPv6Wildcard]
MCXhttp == [MCDual EXCEPT !.address = [version |-> 4, ip |-> "a"]]
MCUnix == [MCDual EXCEPT !.unix = TRUE, !.address = Everywhere]
MCOther == [network |-> "tcp", port |-> "in", unix |-> FALSE,
            address |-> [version |-> 4, ip |-> "b"]]

MCInbounds == {MCDual, MCXhttp, MCUnix, MCOther}

\* A connection of the local proxy, over IPv4, to the dual-stack listener; one of
\* the raw inbound; and an outgoing one.
OfDual == [port |-> "in", address |-> [version |-> 6, ip |-> "c"],
           by |-> MCDual, loopback |-> TRUE]
OfOther == [port |-> "in", address |-> [version |-> 4, ip |-> "b"],
            by |-> MCOther, loopback |-> FALSE]
Outgoing == [port |-> "out", address |-> [version |-> 4, ip |-> "b"],
             by |-> Nil, loopback |-> FALSE]

MCTuples == {OfDual, OfOther, Outgoing}

\* The XHTTP inbound on 0.0.0.0 instead.
MCWildcard == [MCDual EXCEPT !.address = IPv4Wildcard]
WildcardInbounds == {MCWildcard}
WildcardTuples == {[OfDual EXCEPT !.by = MCWildcard]}

\* Both documented fallback modes, which do all that the default does.
MCConfigs == {[include_inbound |-> FALSE, exclude_loopback |-> TRUE,
               clean_xhttp_buffers |-> TRUE, clean_close_wait |-> TRUE,
               clean_established_outbound |-> TRUE]}
=============================================================================
