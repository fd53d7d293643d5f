---------------------------- MODULE MCKVServer ----------------------------
(* Two writes of one clerk and a read of another, during which the second *)
(* server takes over; the second write arrives twice.                     *)
EXTENDS KVServer

PutOp == [type |-> "PUT", clerk |-> 1, id |-> 1]
GetOp == [type |-> "GET", clerk |-> 2, id |-> 2]
AppendOp == [type |-> "APPEND", clerk |-> 1, id |-> 3]
MCOp == {PutOp, GetOp, AppendOp}
MCElections == {<<"s1", 1>>, <<"s2", 2>>}
MCSends == {<<PutOp, "s1">>, <<AppendOp, "s1">>, <<GetOp, "s1">>, <<GetOp, "s2">>}
MCResends == {<<AppendOp, "s1">>}
=============================================================================
