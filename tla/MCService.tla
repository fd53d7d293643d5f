----------------------------- MODULE MCService -----------------------------
(* A clerk reads and then appends; an answer to the read may come late, over *)
(* a connection that is lost meanwhile.  A PUT is an APPEND whose timeout    *)
(* does not end the clerk.                                                   *)
EXTENDS Service

MCCall == <<[type |-> "GET", clerk |-> 1, id |-> 1], [type |-> "APPEND", clerk |-> 1, id |-> 2]>>
MCBreaking == {<<1, "GET">>}
=============================================================================
