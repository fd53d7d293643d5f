----------------------------- MODULE MCTcpProxy -----------------------------
(* Two endpoints of the best priority, one of them without a weight, and one *)
(* of the second priority.                                                   *)
EXTENDS TcpProxy
MCEndpoints == <<[priority |-> 1, weight |-> 2], [priority |-> 1, weight |-> 0],
                 [priority |-> 2, weight |-> 0]>>
=============================================================================
