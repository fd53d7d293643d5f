------------------------------ MODULE LogStore ------------------------------
(***************************************************************************)
(* What the write-ahead log of src/wal promises, without segments, files   *)
(* or caches: a contiguous run of entries that grows at the end, is cut at *)
(* either end, and after a crash still holds every entry that was flushed. *)
(* Module Wal implements this specification, module Persister uses it.     *)
(***************************************************************************)
EXTENDS Integers, Sequences

VARIABLE store
(* store.first    index of the first entry                                 *)
(* store.entries  the entries first, first + 1, ...                        *)
(* store.flushed  no entry up to this index can be lost by a crash         *)
(* store.broken   half an entry ends the log, it cannot be opened again    *)

Empty == [first |-> 1, entries |-> << >>, flushed |-> 0, broken |-> FALSE]

Last(s) == s.first + Len(s.entries) - 1
\* The entries i..j of a log.
Slice(s, i, j) == SubSeq(s.entries, i - s.first + 1, j - s.first + 1)

\* The logs that one operation makes of log s.
CutFront(s, i) == [s EXCEPT !.first = i, !.entries = Slice(s, i, Last(s))]
CutBack(s, i) == [s EXCEPT !.entries = Slice(s, s.first, i), !.flushed = i]
Flushed(s) == [s EXCEPT !.flushed = Last(s)]

\* New entries follow the old ones; until they are flushed they may be lost.
Extend(s, t) ==
  /\ Len(t.entries) > Len(s.entries)
  /\ SubSeq(t.entries, 1, Len(s.entries)) = s.entries
  /\ t = [s EXCEPT !.entries = t.entries]

\* Only a log without pending writes is cut, and at least one entry is left.
Truncate(s, t) ==
  /\ s.flushed = Last(s)
  /\ \E i \in s.first..Last(s) : t = CutFront(s, i) \/ t = CutBack(s, i)

\* A crash keeps a prefix of the entries that includes the flushed ones.
Crash(s, t) ==
  \E i \in s.flushed..Last(s) :
    t = [CutBack(s, i) EXCEPT !.broken = t.broken] /\ t.broken \in {FALSE, i < Last(s)}

Step(s, t) ==
  /\ ~s.broken
  /\ Extend(s, t) \/ t = Flushed(s) \/ Truncate(s, t) \/ Crash(s, t)

Init == store = Empty
Next == Step(store, store')
Spec == Init /\ [][Next]_store
=============================================================================
