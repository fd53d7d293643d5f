------------------------------ MODULE Cluster ------------------------------
(***************************************************************************)
(* The cluster manager of src/server/clustermg.go.  It receives the        *)
(* requests of the clerks (serve), sends each to a node (procSendQue,      *)
(* pick, connectToNode), takes the answers (serveServ), returns the good   *)
(* ones (procRespQue) and sends some of the failed ones again              *)
(* (procFailedReq).  handleSync learns of nodes, leader and progress.      *)
(*                                                                         *)
(* The weights count only by their domain: every node with a weight can be *)
(* picked for a read.  Answers carry no ServerId, so they weigh node 0.    *)
(* The nodes are here what module KVServer shows of them: a write may be   *)
(* executed and not answered, an answer OK follows the execution, and      *)
(* every node that knows the clerk answers, not only the one asked.        *)
(***************************************************************************)
EXTENDS Clerk

CONSTANTS
  Node,        \* ids of the nodes, from 0
  MaxTimeouts, \* bound: reads that a node gives up
  Closing      \* bound: nodes whose connection is closed

ASSUME ClusterAssumption == 0 \in Node /\ Closing \subseteq Node /\ MaxTimeouts \in Nat

VARIABLES
  sendQue, respQue, failQue,
  hand,        \* procSendQue: << >>, <<msg>>, or <<msg, node>> that pick returned
  serving,     \* requests that serve has queued before it registered their clerk
  resending,   \* requests that a goroutine of procFailedReq is about to queue
  proxyConns,  \* per registered clerk: the connection of its last request
  nodes, conns, weights, LeaderId,
  panicked,    \* pick found no weights: the process ends
  working,     \* the nodes: <<request, node>> that a node has received
  known,       \* the nodes: <<node, clerk>> that is in clientConns of the node
  owed,        \* the nodes: <<write, node, err>> that the node has yet to apply and answer
  closed,      \* nodes whose connection in conns is closed
  timeouts,
  executed     \* the nodes: per write, how often it was executed

queueVars == <<sendQue, respQue, failQue, hand, serving, resending, proxyConns>>
nodeVars == <<nodes, conns, weights, LeaderId>>
envVars == <<working, known, owed, closed, timeouts, executed>>
clusterVars == <<queueVars, nodeVars, panicked, envVars>>

ClusterInit ==
  /\ sendQue = << >> /\ respQue = << >> /\ failQue = << >> /\ hand = << >>
  /\ serving = {} /\ resending = {} /\ proxyConns = << >>
  /\ nodes = {} /\ conns = {} /\ weights = {} /\ LeaderId = 0
  /\ panicked = FALSE
  /\ working = {} /\ known = {} /\ owed = {} /\ closed = {} /\ timeouts = 0
  /\ executed = [id \in Ids |-> 0]

\* adjustWeight: a node that had no weight gets one.
adjustWeight(n) == weights' = weights \cup {n}

-----------------------------------------------------------------------------
(* serve: the request is queued first, its clerk registered afterwards *)

serve(m) ==
  /\ ~panicked
  /\ sendQue' = Append(sendQue, m)
  /\ serving' = serving \cup {m}
  /\ UNCHANGED <<respQue, failQue, hand, resending, proxyConns, nodeVars, panicked, envVars>>

Register(m) ==
  /\ ~panicked /\ m \in serving
  /\ serving' = serving \ {m}
  /\ proxyConns' = [k \in DOMAIN proxyConns \cup {m.clerk} |->
                     IF k = m.clerk THEN Connection(m) ELSE proxyConns[k]]
  /\ UNCHANGED <<sendQue, respQue, failQue, hand, resending, nodeVars, panicked, envVars>>

-----------------------------------------------------------------------------
(* procSendQue *)

Take ==
  /\ ~panicked /\ hand = << >> /\ sendQue # << >>
  /\ hand' = <<Head(sendQue)>>
  /\ sendQue' = Tail(sendQue)
  /\ UNCHANGED <<respQue, failQue, serving, resending, proxyConns, nodeVars, panicked, envVars>>

pick ==
  /\ ~panicked /\ Len(hand) = 1
  /\ \E n \in IF IsRead(hand[1]) THEN weights ELSE {LeaderId} : hand' = Append(hand, n)
  /\ UNCHANGED <<sendQue, respQue, failQue, serving, resending, proxyConns, nodeVars, panicked,
                 envVars>>

\* rand.Int31n(0)
PickPanics ==
  /\ ~panicked /\ Len(hand) = 1 /\ IsRead(hand[1]) /\ weights = {}
  /\ panicked' = TRUE
  /\ UNCHANGED <<queueVars, nodeVars, envVars>>

\* connectToNode fails: the node has not introduced itself or does not accept.
NotConnected ==
  /\ ~panicked /\ Len(hand) = 2 /\ hand[2] \notin conns
  /\ hand' = <<hand[1]>>
  /\ UNCHANGED <<sendQue, respQue, failQue, serving, resending, proxyConns, nodeVars, panicked,
                 envVars>>

\* The request is written to the connection, which connectToNode makes if needed, and
\* handleClientConnection of the node keeps it for the clerk.  A connection that is
\* closed stays in conns, and the request is lost.
Forward ==
  /\ ~panicked /\ Len(hand) = 2 /\ hand[2] \in conns \cup nodes
  /\ conns' = conns \cup {hand[2]}
  /\ adjustWeight(hand[2])
  /\ IF hand[2] \in closed
     THEN UNCHANGED <<working, known>>
     ELSE working' = working \cup {hand} /\ known' = known \cup {<<hand[2], hand[1].clerk>>}
  /\ hand' = << >>
  /\ UNCHANGED <<sendQue, respQue, failQue, serving, resending, proxyConns, nodes, LeaderId,
                 panicked, owed, closed, timeouts, executed>>

-----------------------------------------------------------------------------
(* The nodes, and serveServ *)

Execute(m) == [executed EXCEPT ![m.id] = @ + 1]

\* serveServ: OK and NoKey are answers, the rest has failed; node 0 gets the credit.
serveServ(m, err) ==
  /\ IF err \in {"OK", "NoKey"}
     THEN /\ respQue' = Append(respQue, [msg |-> m, err |-> err])
          /\ adjustWeight(0)
          /\ UNCHANGED failQue
     ELSE /\ failQue' = Append(failQue, [msg |-> m, err |-> err])
          /\ UNCHANGED <<respQue, weights>>
  /\ UNCHANGED <<sendQue, hand, serving, resending, proxyConns, nodes, conns, LeaderId, panicked>>

AnswerRead(m, n, err) ==
  /\ ~panicked /\ <<m, n>> \in working /\ IsRead(m) /\ n \notin closed
  /\ err = "HandleTimeout" => timeouts < MaxTimeouts
  /\ timeouts' = timeouts + (IF err = "HandleTimeout" THEN 1 ELSE 0)
  /\ working' = working \ {<<m, n>>}
  /\ serveServ(m, err)
  /\ UNCHANGED <<known, owed, closed, executed>>

\* Mutant: the node answers OK although it does not take the write.
RejectWriteOk(m, n) ==
  /\ ~panicked /\ <<m, n>> \in working /\ ~IsRead(m) /\ n \notin closed
  /\ working' = working \ {<<m, n>>}
  /\ serveServ(m, "OK")
  /\ UNCHANGED <<known, owed, closed, timeouts, executed>>

\* handleOpQue of a node that is not the leader.
RejectWrite(m, n) ==
  /\ ~panicked /\ <<m, n>> \in working /\ ~IsRead(m) /\ n \notin closed
  /\ working' = working \ {<<m, n>>}
  /\ serveServ(m, "LeaderChanged")
  /\ UNCHANGED <<known, owed, closed, timeouts, executed>>

\* The write is committed.  Every ApplyHandler will answer it, the one of the node that
\* took it by an error if the term has changed.
CommitWrite(m, n, err) ==
  /\ ~panicked /\ <<m, n>> \in working /\ ~IsRead(m)
  /\ executed' = Execute(m)
  /\ working' = working \ {<<m, n>>}
  /\ owed' = owed \cup {<<m, q, IF q = n THEN err ELSE "OK">> : q \in Node}
  /\ UNCHANGED <<queueVars, nodeVars, panicked, known, closed, timeouts>>

\* ApplyHandler and handleClientResponse of one node.
AnswerWrite(w) ==
  /\ ~panicked /\ w \in owed
  /\ <<w[2], w[1].clerk>> \in known /\ w[2] \notin closed
  /\ owed' = owed \ {w}
  /\ serveServ(w[1], w[3])
  /\ UNCHANGED <<working, known, closed, timeouts, executed>>

\* handleClientResponse finds no connection for the clerk, or a closed one; or the node
\* has a snapshot of the entry.
SkipWrite(w) ==
  /\ ~panicked /\ w \in owed
  /\ owed' = owed \ {w}
  /\ UNCHANGED <<queueVars, nodeVars, panicked, working, known, closed, timeouts, executed>>

\* No answer: the entry of a deposed leader, or a connection that is closed.
Unanswered(m, n) ==
  /\ ~panicked /\ <<m, n>> \in working /\ (IsRead(m) => n \in closed)
  /\ working' = working \ {<<m, n>>}
  /\ UNCHANGED <<queueVars, nodeVars, panicked, known, owed, closed, timeouts, executed>>

\* The node or the network closes the connection; nothing removes it from Conns.
Close(n) ==
  /\ n \in (conns \cap Closing) \ closed
  /\ closed' = closed \cup {n}
  /\ UNCHANGED <<queueVars, nodeVars, panicked, working, known, owed, timeouts, executed>>

-----------------------------------------------------------------------------
(* procRespQue writes an answer to the connection of its clerk; the answer of a
   clerk that is not registered yet, or that is gone, is dropped *)
procRespQue ==
  /\ ~panicked /\ respQue # << >>
  /\ LET m == Head(respQue).msg
         conn == proxyConns[m.clerk]
     IN  IF m.clerk \in DOMAIN proxyConns /\ conn \notin broken /\ conn[1] \notin aborted
         THEN processResponse(m.id, Head(respQue).err)
         ELSE UNCHANGED clerkVars
  /\ respQue' = Tail(respQue)
  /\ UNCHANGED <<sendQue, failQue, hand, serving, resending, proxyConns, nodeVars, panicked,
                 envVars>>

\* Mutant: the case of ErrLeaderChanged falls through to the retry.
procFailedReqAll ==
  /\ ~panicked /\ failQue # << >>
  /\ resending' = resending \cup {Head(failQue).msg}
  /\ failQue' = Tail(failQue)
  /\ adjustWeight(0)
  /\ UNCHANGED <<sendQue, respQue, hand, serving, proxyConns, nodes, conns, LeaderId, panicked,
                 envVars>>

(* procFailedReq: only the reads that timed out are sent again; the case of
   ErrLeaderChanged is empty, and the nodes never answer ErrWrongLeader or
   ErrChanClosed *)
procFailedReq ==
  /\ ~panicked /\ failQue # << >>
  /\ resending' = IF Head(failQue).err = "HandleTimeout"
                  THEN resending \cup {Head(failQue).msg} ELSE resending
  /\ failQue' = Tail(failQue)
  /\ adjustWeight(0)
  /\ UNCHANGED <<sendQue, respQue, hand, serving, proxyConns, nodes, conns, LeaderId, panicked,
                 envVars>>

\* Mutant: the goroutine queues the request a second time.
RespToReqAgain(m) ==
  /\ ~panicked /\ m \in resending
  /\ sendQue' = Append(sendQue, m)
  /\ UNCHANGED <<respQue, failQue, hand, serving, resending, proxyConns, nodeVars, panicked,
                 envVars>>

RespToReq(m) ==
  /\ ~panicked /\ m \in resending
  /\ resending' = resending \ {m}
  /\ sendQue' = Append(sendQue, m)
  /\ UNCHANGED <<respQue, failQue, hand, serving, proxyConns, nodeVars, panicked, envVars>>

-----------------------------------------------------------------------------
(* handleSync; what a node says of itself may be out of date *)

\* Mutant: the address of the node is not kept.
SyncAddrForgotten(n, isLeader) ==
  /\ ~panicked
  /\ LeaderId' = IF isLeader THEN n ELSE LeaderId
  /\ UNCHANGED <<queueVars, nodes, conns, weights, panicked, envVars>>

\* The first message on a connection has the address of the node; handleSync calls
\* connectToNode and ignores whether it succeeds.
SyncAddr(n, isLeader) ==
  /\ ~panicked
  /\ nodes' = nodes \cup {n}
  /\ conns' \in {conns, conns \cup {n}}
  /\ LeaderId' = IF isLeader THEN n ELSE LeaderId
  /\ UNCHANGED <<queueVars, weights, panicked, envVars>>

\* The following messages have its role and commit index; both move its weight.  A node
\* sends them when the manager has confirmed the first one.
SyncState(n, isLeader) ==
  /\ ~panicked /\ n \in nodes
  /\ adjustWeight(n)
  /\ LeaderId' = IF isLeader THEN n ELSE LeaderId
  /\ UNCHANGED <<queueVars, nodes, conns, panicked, envVars>>
=============================================================================
