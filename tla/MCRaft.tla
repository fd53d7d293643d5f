------------------------------- MODULE MCRaft -------------------------------
(* Small instances of Raft for TLC; the bounds are set in the .cfg files. *)
EXTENDS Raft

\* The elections that may be started.
Rivals == {<<0, 1>>, <<0, 2>>, <<1, 2>>}
OneEach == {<<0, 1>>, <<1, 2>>}
ThreeTerms == {<<0, 1>>, <<1, 2>>, <<0, 3>>}

\* State constraints of the runs about replication: one election at a time, no
\* vote of the last one being in flight when the next begins; and while votes are
\* in flight, of replication only answers are.  The election run explores the
\* other interleavings of elections.
InTurn ==
  /\ Cardinality(electionDue \cup {m.from : m \in rpcs \ Replicating}) <= 1
  /\ \A m \in rpcs \ Replicating : m.from \notin electionDue /\ m.term = currentTerm[m.from]
Apart ==
  \/ rpcs \subseteq Replicating
  \/ installing = {} /\ \A m \in Replicating : m.stage = "reply"
OneAtATime == InTurn /\ Apart

\* The replication runs go no further once a step of Flaw has been taken, for
\* their properties say nothing from there on; the run about the consequences
\* of one such step leaves out the others.
Calm == OneAtATime /\ flaws = {}
CalmButOverCommit == OneAtATime /\ flaws \subseteq {"overCommit"}

\* View of the replication runs: what has an effect there on the next steps or
\* on the properties.  Without restarts the disk is never read, without reads
\* neither is leaderIdx, and ballots, elected and counted only record.  The
\* votes, and the values of nextIndex and matchIndex, are those of the election
\* or leadership under way; before a leadership only the keys present matter.
ReplicationView ==
  <<phase, currentTerm, votedFor, role, logVars, electionDue, snapDue, installing, rpcs, flaws,
    [s \in Server |-> IF role[s] = "Candidate" THEN voteCount[s] ELSE 0],
    [s \in Server |-> IF role[s] = "Leader" THEN <<nextIndex[s], matchIndex[s]>>
                      ELSE {p \in Server : nextIndex[s][p] # Absent}],
    IF MaxRestart = 0 THEN << >> ELSE <<disk, restarts>>,
    IF Readers = {} THEN << >> ELSE <<leaderIdx, reading>> >>
=============================================================================
