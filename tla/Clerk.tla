------------------------------- MODULE Clerk -------------------------------
(***************************************************************************)
(* The client library of src/server/client.go: Get, Put and Append send    *)
(* one request, with an id of its own, over a connection to the proxy and  *)
(* wait for the answer or a timeout; a receiving goroutine hands every     *)
(* answer to the channel that responseCh has for its id.                   *)
(***************************************************************************)
EXTENDS Integers, Sequences, FiniteSets

CONSTANTS
  Call,      \* the calls [type, clerk, id], by their ids
  Breaking   \* bound: the connections <<clerk, "GET" or "PUT">> that are lost

ASSUME ClerkAssumption == \A id \in DOMAIN Call : Call[id].id = id

VARIABLES
  call,       \* per id of a call: where it is
  responseCh, \* ids whose channel is in the map responseCh
  channel,    \* per id of a call: the answer in its channel, or "empty"
  broken,     \* <<clerk, connection>> that are closed
  aborted     \* clerks whose process has panicked

clerkVars == <<call, responseCh, channel, broken, aborted>>

Ids == DOMAIN Call
Messages == {Call[id] : id \in Ids}
Running(id) == Call[id].clerk \notin aborted
IsRead(c) == c.type = "GET"

\* A clerk has a connection for GET and one for PUT, which APPEND shares.
Connection(c) == <<c.clerk, IF IsRead(c) THEN "GET" ELSE "PUT">>
Busy(clerk) == \E c \in Messages : c.clerk = clerk /\ call[c.id] \in {"send", "wait"}

ClerkInit ==
  /\ call = [id \in Ids |-> "idle"]
  /\ responseCh = {} /\ channel = [id \in Ids |-> "empty"]
  /\ broken = {} /\ aborted = {}

\* prepareData: an id, which grows with the time, and a channel for the answer;
\* a clerk makes one call after the other.
prepareData(id) ==
  /\ Running(id) /\ call[id] = "idle" /\ ~Busy(Call[id].clerk)
  /\ \A i \in Ids : Call[i].clerk = Call[id].clerk /\ i < id => call[i] # "idle"
  /\ call' = [call EXCEPT ![id] = "send"]
  /\ responseCh' = responseCh \cup {id}
  /\ UNCHANGED <<channel, broken, aborted>>

\* sendRequest, with what becomes of the request.
sendRequest(id) ==
  /\ Running(id) /\ call[id] = "send" /\ Connection(Call[id]) \notin broken
  /\ call' = [call EXCEPT ![id] = "wait"]
  /\ UNCHANGED <<responseCh, channel, broken, aborted>>

\* There is one attempt; Get and Put return the error, Append reads the
\* answer that it does not have.
GiveUp(id) ==
  /\ call' = [call EXCEPT ![id] = "error"]
  /\ aborted' = IF Call[id].type = "APPEND" THEN aborted \cup {Call[id].clerk} ELSE aborted
  /\ UNCHANGED <<responseCh, channel, broken>>

SendFails(id) ==
  /\ Running(id) /\ call[id] = "send" /\ Connection(Call[id]) \in broken
  /\ GiveUp(id)

Timeout(id) ==
  /\ Running(id) /\ call[id] = "wait"
  /\ GiveUp(id)

\* processResponse; an answer for which there is no channel is dropped.
processResponse(id, err) ==
  /\ Running(id)
  /\ channel' = IF id \in responseCh THEN [channel EXCEPT ![id] = err] ELSE channel
  /\ responseCh' = responseCh \ {id}
  /\ UNCHANGED <<call, broken, aborted>>

Return(id) ==
  /\ Running(id) /\ call[id] = "wait" /\ channel[id] # "empty"
  /\ call' = [call EXCEPT ![id] = IF channel[id] = "OK" THEN "ok" ELSE "error"]
  /\ UNCHANGED <<responseCh, channel, broken, aborted>>

\* A connection to the proxy is lost; its receiving goroutine returns.
Disconnect(conn) ==
  /\ conn \in Breaking \ broken
  /\ broken' = broken \cup {conn}
  /\ UNCHANGED <<call, responseCh, channel, aborted>>
=============================================================================
