------------------------------ MODULE Service ------------------------------
(***************************************************************************)
(* The way of a request from a clerk over the proxy and the cluster        *)
(* manager to a node and back: modules Clerk and Cluster, joined by the    *)
(* connection between them.  The proxy copies bytes; module TcpProxy has   *)
(* its decisions.                                                          *)
(***************************************************************************)
EXTENDS Cluster

vars == <<clerkVars, clusterVars>>

Init == ClerkInit /\ ClusterInit

ClerkStep ==
  /\ \/ \E id \in Ids : prepareData(id) \/ SendFails(id) \/ Timeout(id) \/ Return(id)
     \/ \E conn \in Breaking : Disconnect(conn)
  /\ UNCHANGED clusterVars

\* A request arrives at the manager, an answer at the clerk.
SendStep == \E id \in Ids : sendRequest(id) /\ serve(Call[id])
Receiver == procRespQue

Answer(m, n) ==
  \/ \E err \in {"OK", "NoKey", "LeaderChanged", "HandleTimeout"} : AnswerRead(m, n, err)
  \/ \E err \in {"OK", "LeaderChanged"} : CommitWrite(m, n, err)
  \/ RejectWrite(m, n) \/ Unanswered(m, n)
NodeStep ==
  /\ \/ \E w \in working : Answer(w[1], w[2])
     \/ \E w \in owed : AnswerWrite(w) \/ SkipWrite(w)
  /\ UNCHANGED clerkVars
Sender == (Take \/ pick \/ PickPanics \/ NotConnected \/ Forward) /\ UNCHANGED clerkVars
FailStep == procFailedReq /\ UNCHANGED clerkVars
ResendStep == (\E m \in resending : RespToReq(m)) /\ UNCHANGED clerkVars
RegisterStep == (\E m \in serving : Register(m)) /\ UNCHANGED clerkVars
SyncStep(n) ==
  (\E isLeader \in BOOLEAN : SyncAddr(n, isLeader) \/ SyncState(n, isLeader)) /\ UNCHANGED clerkVars
CloseStep == (\E n \in Node : Close(n)) /\ UNCHANGED clerkVars

Next ==
  \/ ClerkStep \/ SendStep \/ NodeStep \/ Sender \/ Receiver \/ FailStep \/ ResendStep
  \/ RegisterStep \/ CloseStep \/ \E n \in Node : SyncStep(n)

\* The goroutines of the manager run, the nodes answer, and each introduces itself and
\* accepts the connection of the manager in the end.
Fairness ==
  /\ WF_vars(Sender) /\ SF_vars(Forward /\ UNCHANGED clerkVars)
  /\ WF_vars(Receiver) /\ WF_vars(FailStep) /\ WF_vars(ResendStep)
  /\ WF_vars(NodeStep) /\ \A n \in Node : WF_vars(n \notin nodes /\ SyncStep(n))
Spec == Init /\ [][Next]_vars /\ Fairness

-----------------------------------------------------------------------------
(* Properties *)

\* A write is executed at most once although procFailedReq sends requests again
\* and the leader may change under them: a server that did not take a request
\* itself has no history of it and would execute it again.
WriteOnce == \A id \in Ids : executed[id] <= 1

\* A Put or Append that returns without an error has been executed, whatever late
\* answers of earlier calls arrive at the clerk, and over whichever connection.
OkExecuted == \A id \in Ids : call[id] = "ok" /\ ~IsRead(Call[id]) => executed[id] = 1

Count(q, m) == Cardinality({k \in DOMAIN q : q[k] = m})
CountAt(tuples, m) == Cardinality({w \in tuples : w[1] = m})
Held(m) == IF hand # << >> /\ hand[1] = m THEN 1 ELSE 0
Resent(m) == IF m \in resending THEN 1 ELSE 0
TimedOut(m) == [msg |-> m, err |-> "HandleTimeout"]

\* How often request m is on its way to a node, at one or about to be sent again.
Attempts(m) ==
  Count(sendQue, m) + Held(m) + CountAt(working, m) + Count(failQue, TimedOut(m)) + Resent(m)

Done(m) ==
  executed[m.id] > 0 \/ channel[m.id] # "empty" \/ \E k \in 1..Len(respQue) : respQue[k].msg = m

\* The manager makes one attempt at a request at a time, and none once the request is
\* executed, a good answer waits in respQue or the clerk has it, although every node
\* that knows the clerk answers a write and a failed answer may follow a good one.
OneAttempt ==
  \A m \in Messages : Attempts(m) <= 1 /\ (Done(m) => Attempts(m) = 0)

\* Request m is in a queue or a goroutine of the manager, or at a node.
Inside(m) ==
  \/ hand # << >> /\ hand[1] = m
  \/ m \in resending
  \/ \E k \in 1..Len(sendQue) : sendQue[k] = m
  \/ \E w \in working \cup owed : w[1] = m
  \/ \E k \in 1..Len(respQue) : respQue[k].msg = m
  \/ \E k \in 1..Len(failQue) : failQue[k].msg = m

\* No request stays in the manager for ever, not even one that arrives before any
\* node or leader is known: procSendQue picks again until connectToNode succeeds,
\* and holds up all requests behind it until then.
Drains == \A m \in Messages : []<>(~Inside(m) \/ panicked)
=============================================================================
