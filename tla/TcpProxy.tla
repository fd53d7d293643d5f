------------------------------ MODULE TcpProxy ------------------------------
(***************************************************************************)
(* The TCP proxy of src/proxy/tcpproxy.go, between the clients and the     *)
(* cluster manager: accept loops, one serve goroutine per connection that  *)
(* picks an endpoint, dials it and deactivates it when that fails, and the *)
(* monitor, whose goroutines dial the inactive endpoints and activate them *)
(* again.  Endpoints go down and come up at any time.                      *)
(*                                                                         *)
(* pick holds tp.mu, but the activity of a remote is guarded by a lock of  *)
(* its own, which failed dials and the monitor's goroutines take without   *)
(* tp.mu: pick reads the remotes one by one, each read is a step, and what *)
(* it has read may have changed when it chooses.                           *)
(***************************************************************************)
EXTENDS Integers, Sequences, FiniteSets, SequencesExt

CONSTANTS
  Endpoints,  \* sequence of [priority, weight]
  Conn,       \* connections of clients
  MaxChanges  \* bound: times that endpoints go down or come up, all before Stop

ASSUME TcpProxyAssumption ==
  /\ Endpoints # << >> /\ \A i \in DOMAIN Endpoints : Endpoints[i].weight \in Nat
  /\ MaxChanges \in Nat

VARIABLES
  up,        \* environment: endpoints that accept connections
  changes,
  fallen,    \* ghost: endpoints that have been down
  inactive,  \* remotes that are inactive
  pickCount, \* modulo Cycle, which every use of it divides
  conn,      \* per connection: what serve does, and the remote it has picked
  scan,      \* the pick under way, which holds tp.mu: the remotes that it has looked at,
             \* those of them that were active, and the tries of its round robin
  dialing,   \* remotes that a goroutine of the monitor is about to dial
  reviving,  \* remotes that it has reached and is about to activate
  stopped,
  crashed    \* serve(nil) has used its connection: the process panics

environment == <<up, changes, fallen>>
vars == <<environment, inactive, pickCount, conn, scan, dialing, reviving, stopped, crashed>>

Remote == DOMAIN Endpoints
Nobody == 0
\* The remotes among whose active ones a draw may use pickCount.
Mixed == {r \in Remote : Endpoints[r].weight = 0 /\ \E q \in Remote :
            Endpoints[q].weight > 0 /\ Endpoints[q].priority = Endpoints[r].priority}
Cycle == LET f[n \in Nat] == IF n = 0 THEN Len(Endpoints) ELSE n * f[n - 1]
         IN  f[Cardinality(Mixed)]
At(at, r) == [at |-> at, remote |-> r]
NoScan == [looked |-> 0, seen |-> {}, tries |-> 0]

-----------------------------------------------------------------------------
(* What pick makes of the remotes it has seen active *)

BestPr == CHOOSE p \in {Endpoints[r].priority : r \in scan.seen} :
            \A r \in scan.seen : p <= Endpoints[r].priority

\* The active remotes of the best priority.
Class == SelectSeq([r \in Remote |-> r],
                   LAMBDA r : r \in scan.seen /\ Endpoints[r].priority = BestPr)
Weighted == SelectSeq(Class, LAMBDA r : Endpoints[r].weight > 0)
Unweighted == SelectSeq(Class, LAMBDA r : Endpoints[r].weight = 0)

\* The sum of the first i weights.
WeightSum(i) == FoldLeft(LAMBDA sum, r : sum + Endpoints[r].weight, 0, SubSeq(Weighted, 1, i))
\* choose -= weight, until it is not positive.
ByWeight(choose) ==
  Weighted[CHOOSE i \in DOMAIN Weighted :
             choose <= WeightSum(i) /\ \A j \in 1..i - 1 : choose > WeightSum(j)]

\* What pick may return when the class has a weight, and how far it moves pickCount.
Draws ==
  {<<ByWeight(choose), 0>> : choose \in 0..WeightSum(Len(Weighted)) - 1} \cup
  (IF Unweighted = << >> THEN {} ELSE {<<Unweighted[(pickCount % Len(Unweighted)) + 1], 1>>})

-----------------------------------------------------------------------------
(* Run and serve *)

Accept(c) ==
  /\ ~stopped /\ ~crashed /\ conn[c].at = "new"
  /\ conn' = [conn EXCEPT ![c] = At("wait", Nobody)]
  /\ UNCHANGED <<environment, inactive, pickCount, scan, dialing, reviving, stopped, crashed>>

\* tp.mu.Lock(), and pick.
MuFree == \A c \in Conn : conn[c].at # "pick"
Lock(c) ==
  /\ ~crashed /\ conn[c].at = "wait" /\ MuFree
  /\ conn' = [conn EXCEPT ![c] = At("pick", Nobody)]
  /\ scan' = [NoScan EXCEPT !.looked = 1, !.seen = {1} \ inactive]
  /\ UNCHANGED <<environment, inactive, pickCount, dialing, reviving, stopped, crashed>>

\* Whether the next remote is active.
Look(c) ==
  /\ ~crashed /\ conn[c].at = "pick" /\ scan.looked < Len(Endpoints)
  /\ scan' = [scan EXCEPT !.looked = @ + 1,
                          !.seen = @ \cup ({scan.looked + 1} \ inactive)]
  /\ UNCHANGED <<environment, inactive, pickCount, conn, dialing, reviving, stopped, crashed>>

\* pick returns r, and tp.mu is free again.
Picks(c, r) ==
  /\ conn' = [conn EXCEPT ![c] = IF r = Nobody THEN At("refused", Nobody) ELSE At("dial", r)]
  /\ scan' = NoScan

\* All remotes are looked at, and none was active or the best class has a weight.
Draw(c) ==
  /\ ~crashed /\ conn[c].at = "pick" /\ scan.looked = Len(Endpoints)
  /\ \/ scan.seen = {} /\ Picks(c, Nobody) /\ UNCHANGED pickCount
     \/ /\ scan.seen # {} /\ Weighted # << >>
        /\ \E d \in Draws : Picks(c, d[1]) /\ pickCount' = (pickCount + d[2]) % Cycle
  /\ UNCHANGED <<environment, inactive, dialing, reviving, stopped, crashed>>

\* Else the round robin over all remotes, which looks at their activity again.
InRobin(c) ==
  /\ ~crashed /\ conn[c].at = "pick" /\ scan.looked = Len(Endpoints)
  /\ scan.seen # {} /\ Weighted = << >>
\* Mutant: the round robin does not go on after an inactive remote.
RobinOnce(c) ==
  /\ InRobin(c)
  /\ LET r == (pickCount % Len(Endpoints)) + 1
     IN  Picks(c, IF r \notin inactive THEN r ELSE Nobody)
  /\ pickCount' = (pickCount + 1) % Cycle
  /\ UNCHANGED <<environment, inactive, dialing, reviving, stopped, crashed>>

Robin(c) ==
  /\ InRobin(c)
  /\ LET r == (pickCount % Len(Endpoints)) + 1
     IN  \/ r \notin inactive /\ Picks(c, r)
         \/ /\ r \in inactive /\ scan.tries + 1 < Len(Endpoints)
            /\ scan' = [scan EXCEPT !.tries = @ + 1] /\ UNCHANGED conn
         \/ r \in inactive /\ scan.tries + 1 = Len(Endpoints) /\ Picks(c, Nobody)
  /\ pickCount' = (pickCount + 1) % Cycle
  /\ UNCHANGED <<environment, inactive, dialing, reviving, stopped, crashed>>

Dial(c) ==
  /\ ~crashed /\ conn[c].at = "dial"
  /\ conn' = [conn EXCEPT ![c] = IF @.remote \in up THEN At("piped", Nobody)
                                 ELSE At("failed", @.remote)]
  /\ UNCHANGED <<environment, inactive, pickCount, scan, dialing, reviving, stopped, crashed>>

\* Mutant: the remote stays active after a failed dial.
inactivateNot(c) ==
  /\ ~crashed /\ conn[c].at = "failed"
  /\ conn' = [conn EXCEPT ![c] = At("wait", Nobody)]
  /\ UNCHANGED <<environment, inactive, pickCount, scan, dialing, reviving, stopped, crashed>>

inactivate(c) ==
  /\ ~crashed /\ conn[c].at = "failed"
  /\ inactive' = inactive \cup {conn[c].remote}
  /\ conn' = [conn EXCEPT ![c] = At("wait", Nobody)]
  /\ UNCHANGED <<environment, pickCount, scan, dialing, reviving, stopped, crashed>>

\* Either side ends: both copies stop and close both connections.
Close(c) ==
  /\ ~crashed /\ conn[c].at \in {"piped", "refused"}
  /\ conn' = [conn EXCEPT ![c] = At("new", Nobody)]
  /\ UNCHANGED <<environment, inactive, pickCount, scan, dialing, reviving, stopped, crashed>>

\* Accept fails, for lack of a descriptor or after Stop: the error is sent to Run,
\* and serve(nil) is started all the same, which panics whether or not it finds an
\* endpoint.  With the process its connections and goroutines end.
AcceptFails ==
  /\ ~crashed /\ crashed' = TRUE
  /\ conn' = [c \in Conn |-> At("new", Nobody)] /\ scan' = NoScan
  /\ inactive' = {} /\ pickCount' = 0 /\ dialing' = {} /\ reviving' = {}
  /\ UNCHANGED <<environment, stopped>>

Stop ==
  /\ ~stopped /\ ~crashed /\ stopped' = TRUE
  /\ UNCHANGED <<environment, inactive, pickCount, conn, scan, dialing, reviving, crashed>>

-----------------------------------------------------------------------------
(* runMonitor *)

\* What a tick does with remote r, under tp.mu.
Monitor(r) ==
  /\ ~stopped /\ ~crashed /\ MuFree /\ r \in inactive
  /\ dialing' = dialing \cup {r}
  /\ UNCHANGED <<environment, inactive, pickCount, conn, scan, reviving, stopped, crashed>>

TryDial(r) ==
  /\ ~crashed /\ r \in dialing
  /\ dialing' = dialing \ {r}
  /\ reviving' = IF r \in up THEN reviving \cup {r} ELSE reviving
  /\ UNCHANGED <<environment, inactive, pickCount, conn, scan, stopped, crashed>>

\* Mutant: the remote is reached and stays inactive.
tryReactivateNot(r) ==
  /\ ~crashed /\ r \in reviving
  /\ reviving' = reviving \ {r}
  /\ UNCHANGED <<environment, inactive, pickCount, conn, scan, dialing, stopped, crashed>>

tryReactivate(r) ==
  /\ ~crashed /\ r \in reviving
  /\ reviving' = reviving \ {r}
  /\ inactive' = inactive \ {r}
  /\ UNCHANGED <<environment, pickCount, conn, scan, dialing, stopped, crashed>>

\* An endpoint goes down or comes up.
Flip(r) ==
  /\ ~stopped /\ ~crashed /\ changes < MaxChanges /\ changes' = changes + 1
  /\ up' = IF r \in up THEN up \ {r} ELSE up \cup {r}
  /\ fallen' = fallen \cup {r}
  /\ UNCHANGED <<inactive, pickCount, conn, scan, dialing, reviving, stopped, crashed>>

-----------------------------------------------------------------------------

Init ==
  /\ up = Remote /\ changes = 0 /\ fallen = {}
  /\ inactive = {} /\ pickCount = 0
  /\ conn = [c \in Conn |-> At("new", Nobody)]
  /\ scan = NoScan /\ dialing = {} /\ reviving = {}
  /\ stopped = FALSE /\ crashed = FALSE

Serve(c) == Look(c) \/ Draw(c) \/ Robin(c) \/ Dial(c) \/ inactivate(c)
Next ==
  \/ \E c \in Conn : Accept(c) \/ Lock(c) \/ Serve(c) \/ Close(c)
  \/ \E r \in Remote : Monitor(r) \/ TryDial(r) \/ tryReactivate(r) \/ Flip(r)
  \/ Stop \/ AcceptFails

\* Goroutines run, the timer of the monitor fires, and tp.mu is given to everyone
\* who waits for it, as a sync.Mutex is.
Fairness ==
  /\ \A c \in Conn : WF_vars(Serve(c)) /\ SF_vars(Lock(c))
  /\ \A r \in Remote : WF_vars(TryDial(r)) /\ WF_vars(tryReactivate(r)) /\ SF_vars(Monitor(r))
Spec == Init /\ [][Next]_vars /\ Fairness

-----------------------------------------------------------------------------
(* Properties *)

\* serve closes the connection of a client without an endpoint only when every
\* endpoint has been down: neither the goroutines of runMonitor nor the failed
\* dials of other connections, which change the activity that pick reads while it
\* reads it, nor a pickCount that they share, make pick miss an endpoint that
\* always worked.
NoRefusal == (\E c \in Conn : conn[c].at = "refused") => fallen = Remote


\* The loop of serve ends: a connection is connected or closed in the end, whatever
\* is deactivated and activated while it tries.
Settles == \A c \in Conn : []<>(crashed \/ conn[c].at \in {"new", "piped", "refused"})

\* The endpoints that stay up are active in the end and stay so: a dial that failed
\* before the endpoint came up may deactivate it after the monitor has activated
\* it, but not for ever.
Recovers == <>[](stopped \/ crashed \/ up \cap inactive = {})
=============================================================================
