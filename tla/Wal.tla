-------------------------------- MODULE Wal --------------------------------
(***************************************************************************)
(* The write-ahead log of src/wal/wal.go: segment files in a directory,    *)
(* the segments and the cache the process keeps in memory, and the         *)
(* operations on them.  Every call that changes a file is a step of its    *)
(* own, so a crash can fall between any two of them; what the process only *)
(* does in memory belongs to the step before or after it.                  *)
(*                                                                         *)
(* The file system is assumed to apply creations, renames and removals     *)
(* atomically, in order and durably.  The bytes of a file are durable once *)
(* Sync has returned: a crash keeps any prefix of the rest, and may leave  *)
(* the entry it cuts half written.                                         *)
(***************************************************************************)
EXTENDS Integers, Sequences, FiniteSets, FiniteSetsExt, SequencesExt, Functions

CONSTANTS
  Value,             \* entries
  Bytes,             \* Bytes[v]: the length of an encoded entry
  SegmentSize,       \* opts.SegmentSize
  SegmentCacheSize,  \* opts.SegmentCacheSize
  MaxIndex,          \* bound: no index above it is written
  MaxBatch           \* bound: entries of a batch

ASSUME WalAssumption ==
  /\ Bytes \in [Value -> Nat \ {0}]
  /\ {SegmentSize, SegmentCacheSize, MaxIndex, MaxBatch} \subseteq Nat \ {0}

VARIABLES
  files,       \* the directory: <<index, suffix>> -> content
  op,          \* the operation in progress, or "idle", or "down"
  segments,    \* l.segments: first index and, when loaded, the entries of each
  cache,       \* l.scache: positions in segments, the most recent first
  firstIndex, lastIndex,
  sfile        \* the tail file handle is open

vars == <<files, op, segments, cache, firstIndex, lastIndex, sfile>>
memory == <<segments, cache, firstIndex, lastIndex, sfile>>

\* A file whose entries are all durable.
Whole(data) == [data |-> data, synced |-> Len(data), torn |-> FALSE]
Size(data) == FoldLeft(LAMBDA n, v : n + Bytes[v], 0, data)

Idle == [name |-> "idle"]
Down == [name |-> "down"]

-----------------------------------------------------------------------------
(* Files *)

Seg(i) == <<i, "">>
Start(i) == <<i, ".START">>
End(i) == <<i, ".END">>
Put(fs, n, c) == [m \in DOMAIN fs \cup {n} |-> IF m = n THEN c ELSE fs[m]]
Remove1(fs, n) == Restrict(fs, DOMAIN fs \ {n})
Rename(fs, n, m) == Put(Remove1(fs, n), m, fs[n])

\* os.ReadDir sorts by name.
NameOrder == <<"", ".END", ".START">>
Earlier(n, m) ==
  \/ n[1] < m[1]
  \/ n[1] = m[1] /\ \E i, j \in DOMAIN NameOrder :
                       NameOrder[i] = n[2] /\ NameOrder[j] = m[2] /\ i < j
Sorted(names) ==
  [k \in 1..Cardinality(names) |->
     CHOOSE n \in names : Cardinality({m \in names : Earlier(m, n)}) = k - 1]
Listing(fs) == Sorted(DOMAIN fs)
Suffixed(fs, suffix) == {n \in DOMAIN fs : n[2] = suffix}
\* The last START and the first END of the listing.
StartFile(fs) == CHOOSE n \in Suffixed(fs, ".START") :
                   \A m \in Suffixed(fs, ".START") : m = n \/ Earlier(m, n)
EndFile(fs) == CHOOSE n \in Suffixed(fs, ".END") :
                 \A m \in Suffixed(fs, ".END") : m = n \/ Earlier(n, m)

-----------------------------------------------------------------------------
(* Segments in memory: a segment without entries in memory has an empty ebuf *)

Segment(i, data) == [index |-> i, ebuf |-> data]
Unloaded(s) == Segment(s.index, << >>)
Top == Len(segments)

\* The binary search: the last segment that does not begin after i.
findSegment(i) == CHOOSE k \in 1..Top :
                    /\ segments[k].index <= i
                    /\ \A j \in 1..Top : segments[j].index <= i => j <= k

\* A file that cannot be read leaves the segment empty.
loadSegmentEntries(fs, s) ==
  IF Seg(s.index) \in DOMAIN fs THEN Segment(s.index, fs[Seg(s.index)].data) ELSE s

\* Mutant: the cache never evicts.
pushCacheGrows(segs, k) == [cache |-> Cons(k, Remove(cache, k)), segments |-> segs]

\* Position k becomes the most recent one; the evicted segment loses its entries.
pushCache(segs, k) ==
  LET keys == Cons(k, Remove(cache, k))
      kept == SubSeq(keys, 1, IF Len(keys) > SegmentCacheSize THEN SegmentCacheSize ELSE Len(keys))
  IN  [cache |-> kept,
       segments |-> [j \in DOMAIN segs |->
                       IF j \in Range(keys) \ Range(kept) THEN Unloaded(segs[j]) ELSE segs[j]]]

\* clearCache drops the entries of the cached segments.
clearCache(segs) ==
  [k \in DOMAIN segs |-> IF k \in Range(cache) THEN Unloaded(segs[k]) ELSE segs[k]]

Covers(s, i) == s.index <= i /\ i < s.index + Len(s.ebuf)

\* loadSegment: the tail, or the most recently cached segment, or the one
\* found in the list, read from its file when it has no entries in memory.
loadSegment(i) ==
  LET k == findSegment(i)
      segs == IF segments[k].ebuf # << >> THEN segments
              ELSE [segments EXCEPT ![k] = loadSegmentEntries(files, @)]
  IN  IF i >= segments[Top].index
        THEN [at |-> Top, cache |-> cache, segments |-> segments]
      ELSE IF cache # << >> /\ Covers(segments[cache[1]], i)
        THEN [at |-> cache[1], cache |-> cache, segments |-> segments]
      ELSE LET p == pushCache(segs, k)
           IN  [at |-> k, cache |-> p.cache, segments |-> p.segments]

-----------------------------------------------------------------------------
(* Read, Write and WriteBatch *)

Read(i) ==
  /\ op = Idle
  /\ firstIndex <= i /\ i <= lastIndex
  /\ LET l == loadSegment(i) IN segments' = l.segments /\ cache' = l.cache
  /\ UNCHANGED <<files, op, firstIndex, lastIndex, sfile>>

ClearCache ==
  /\ op = Idle
  /\ segments' = clearCache(segments) /\ cache' = << >>
  /\ UNCHANGED <<files, op, firstIndex, lastIndex, sfile>>

\* writeBatch, after its check that the indexes follow lastIndex.
Write(batch) ==
  /\ op = Idle
  /\ lastIndex + Len(batch) <= MaxIndex
  /\ op' = [name |-> "write", rest |-> batch,
            stage |-> IF Size(segments[Top].ebuf) > SegmentSize THEN "cycle" ELSE "fill"]
  /\ UNCHANGED <<files, memory>>

\* How many entries of the batch the tail takes before it is full.
Taken(ebuf, rest) ==
  LET fills == {n \in 1..Len(rest) : Size(ebuf \o SubSeq(rest, 1, n)) >= SegmentSize}
  IN  IF fills = {} THEN Len(rest) ELSE CHOOSE n \in fills : \A m \in fills : n <= m

\* Entries go to ebuf and to the tail file, until the segment is full or the batch ends.
WriteFile ==
  /\ op.name = "write" /\ op.stage = "fill" /\ sfile
  /\ LET s == segments[Top]
         n == Taken(s.ebuf, op.rest)
         new == SubSeq(op.rest, 1, n)
     IN  /\ segments' = [segments EXCEPT ![Top].ebuf = @ \o new]
         /\ files' = [files EXCEPT ![Seg(s.index)].data = @ \o new]
         /\ lastIndex' = lastIndex + n
         /\ op' = [op EXCEPT !.rest = SubSeq(op.rest, n + 1, Len(op.rest)),
                             !.stage = IF Size(s.ebuf \o new) >= SegmentSize THEN "cycle"
                                       ELSE "sync"]
  /\ UNCHANGED <<cache, firstIndex, sfile>>

\* cycle: the tail is synced and cached, and an empty segment becomes the tail.
cycle ==
  /\ op.name = "write" /\ op.stage = "cycle" /\ sfile
  /\ LET p == pushCache(segments, Top)
     IN  /\ segments' = Append(p.segments, Segment(lastIndex + 1, << >>))
         /\ cache' = p.cache
  /\ files' = Put([files EXCEPT ![Seg(segments[Top].index)] = Whole(@.data)],
                  Seg(lastIndex + 1), Whole(<< >>))
  /\ op' = [op EXCEPT !.stage = IF op.rest = << >> THEN "sync" ELSE "fill"]
  /\ UNCHANGED <<firstIndex, lastIndex, sfile>>

\* Mutant: WriteBatch returns without the final Sync.
WriteNoSync ==
  /\ op.name = "write" /\ op.stage = "sync"
  /\ op' = Idle
  /\ UNCHANGED <<files, memory>>

\* The last step of writeBatch, after which the caller knows the batch is stored.
WriteSync ==
  /\ op.name = "write" /\ op.stage = "sync"
  /\ files' = [files EXCEPT ![Seg(segments[Top].index)] = Whole(@.data)]
  /\ op' = Idle
  /\ UNCHANGED memory

-----------------------------------------------------------------------------
(* TruncateFront *)

truncateFront(i) ==
  /\ op = Idle
  /\ firstIndex < i /\ i <= lastIndex
  /\ LET l == loadSegment(i)
         s == l.segments[l.at]
     IN  /\ Covers(s, i)
         /\ segments' = l.segments /\ cache' = l.cache
         /\ op' = [name |-> "front", index |-> i, seg |-> findSegment(i), stage |-> "temp",
                   next |-> 1, data |-> SubSeq(s.ebuf, i - s.index + 1, Len(s.ebuf))]
  /\ UNCHANGED <<files, firstIndex, lastIndex, sfile>>

\* TEMP, written and synced, is renamed to START: from here on the log is truncated.
FrontCommit ==
  /\ op.name = "front" /\ op.stage = "temp"
  /\ files' = Put(files, Start(op.index), Whole(op.data))
  /\ sfile' = (sfile /\ op.seg # Top)
  /\ op' = [op EXCEPT !.stage = "remove"]
  /\ UNCHANGED <<segments, cache, firstIndex, lastIndex>>

FrontRemove ==
  /\ op.name = "front" /\ op.stage = "remove" /\ op.next <= op.seg
  /\ files' = Remove1(files, Seg(segments[op.next].index))
  /\ op' = [op EXCEPT !.next = @ + 1]
  /\ UNCHANGED memory

\* Mutant: the cut tail is not read again, its entries in memory keep their old positions.
FrontRenameStale ==
  /\ op.name = "front" /\ op.stage = "remove" /\ op.next > op.seg
  /\ files' = Rename(files, Start(op.index), Seg(op.index))
  /\ segments' = SubSeq(clearCache([segments EXCEPT ![op.seg].index = op.index]), op.seg, Top)
  /\ cache' = << >>
  /\ firstIndex' = op.index
  /\ sfile' = TRUE
  /\ op' = Idle
  /\ UNCHANGED lastIndex

\* START gets its final name; the tail is reopened and reloaded when it was cut.
FrontRename ==
  /\ op.name = "front" /\ op.stage = "remove" /\ op.next > op.seg
  /\ files' = Rename(files, Start(op.index), Seg(op.index))
  /\ LET cut == [segments EXCEPT ![op.seg].index = op.index]
         reloaded == IF op.seg = Top
                       THEN [cut EXCEPT ![op.seg] = loadSegmentEntries(files', @)] ELSE cut
     IN  segments' = SubSeq(clearCache(reloaded), op.seg, Top)
  /\ cache' = << >>
  /\ firstIndex' = op.index
  /\ sfile' = TRUE
  /\ op' = Idle
  /\ UNCHANGED lastIndex

-----------------------------------------------------------------------------
(* TruncateBack *)

\* Mutant: the entry at i is cut as well.
truncateBackOneMore(i) ==
  /\ op = Idle
  /\ firstIndex <= i /\ i < lastIndex
  /\ LET l == loadSegment(i)
         s == l.segments[l.at]
     IN  /\ Covers(s, i)
         /\ segments' = l.segments /\ cache' = l.cache
         /\ op' = [name |-> "back", index |-> i, seg |-> findSegment(i), stage |-> "temp",
                   next |-> findSegment(i), data |-> SubSeq(s.ebuf, 1, i - s.index)]
  /\ UNCHANGED <<files, firstIndex, lastIndex, sfile>>

truncateBack(i) ==
  /\ op = Idle
  /\ firstIndex <= i /\ i < lastIndex
  /\ LET l == loadSegment(i)
         s == l.segments[l.at]
     IN  /\ Covers(s, i)
         /\ segments' = l.segments /\ cache' = l.cache
         /\ op' = [name |-> "back", index |-> i, seg |-> findSegment(i), stage |-> "temp",
                   next |-> findSegment(i), data |-> SubSeq(s.ebuf, 1, i - s.index + 1)]
  /\ UNCHANGED <<files, firstIndex, lastIndex, sfile>>

\* TEMP becomes END, and the tail file is closed (an error when it already is).
BackCommit ==
  /\ op.name = "back" /\ op.stage = "temp"
  /\ files' = Put(files, End(segments[op.seg].index), Whole(op.data))
  /\ sfile' = FALSE
  /\ op' = IF sfile THEN [op EXCEPT !.stage = "remove"] ELSE Idle
  /\ UNCHANGED <<segments, cache, firstIndex, lastIndex>>

BackRemove ==
  /\ op.name = "back" /\ op.stage = "remove" /\ op.next <= Top
  /\ files' = Remove1(files, Seg(segments[op.next].index))
  /\ op' = [op EXCEPT !.next = @ + 1]
  /\ UNCHANGED memory

\* Mutant: END is copied to its final name and stays.
BackCopy ==
  /\ op.name = "back" /\ op.stage = "remove" /\ op.next > Top
  /\ LET i == segments[op.seg].index
     IN  /\ files' = Put(files, Seg(i), files[End(i)])
         /\ segments' = [SubSeq(clearCache(segments), 1, op.seg)
                           EXCEPT ![op.seg] = loadSegmentEntries(files', @)]
  /\ cache' = << >>
  /\ lastIndex' = op.index
  /\ sfile' = TRUE
  /\ op' = Idle
  /\ UNCHANGED firstIndex

BackRename ==
  /\ op.name = "back" /\ op.stage = "remove" /\ op.next > Top
  /\ LET i == segments[op.seg].index
     IN  /\ files' = Rename(files, End(i), Seg(i))
         /\ segments' = [SubSeq(clearCache(segments), 1, op.seg)
                           EXCEPT ![op.seg] = loadSegmentEntries(files', @)]
  /\ cache' = << >>
  /\ lastIndex' = op.index
  /\ sfile' = TRUE
  /\ op' = Idle
  /\ UNCHANGED firstIndex

-----------------------------------------------------------------------------
(* Open, Close and crashes *)

Forget ==
  /\ segments' = << >> /\ cache' = << >> /\ firstIndex' = 0 /\ lastIndex' = 0 /\ sfile' = FALSE

Open ==
  /\ op = Down
  /\ op' = [name |-> "load"]
  /\ UNCHANGED <<files, memory>>

Close ==
  /\ op = Idle
  /\ files' = [files EXCEPT ![Seg(segments[Top].index)] = Whole(@.data)]
  /\ op' = Down
  /\ Forget

HasStart == Suffixed(files, ".START") # {}
HasEnd == Suffixed(files, ".END") # {}

\* load deletes the files before START, one at a time, then renames START.
LoadStart ==
  /\ op.name = "load" /\ HasStart /\ ~HasEnd
  /\ LET start == StartFile(files)
         head == Listing(files)[1]
     IN  files' = IF head # start THEN Remove1(files, head)
                  ELSE Rename(files, start, Seg(start[1]))
  /\ UNCHANGED <<op, memory>>

\* Mutant: END is renamed although segments after it remain.
LoadEndKeepsRest ==
  /\ op.name = "load" /\ HasEnd /\ ~HasStart
  /\ files' = Rename(files, EndFile(files), Seg(EndFile(files)[1]))
  /\ UNCHANGED <<op, memory>>

\* It deletes the files after END from the last one down, then renames END
\* over the segment with the same first index.
LoadEnd ==
  /\ op.name = "load" /\ HasEnd /\ ~HasStart
  /\ LET end == EndFile(files)
         foot == Listing(files)[Cardinality(DOMAIN files)]
     IN  files' = IF foot # end THEN Remove1(files, foot)
                  ELSE Rename(files, end, Seg(end[1]))
  /\ UNCHANGED <<op, memory>>

\* START and END together, or a tail that ends in half an entry, is ErrCorrupt.
LoadRefused ==
  /\ op.name = "load"
  /\ \/ HasStart /\ HasEnd
     \/ /\ ~HasStart /\ ~HasEnd /\ files # << >>
        /\ files[Listing(files)[Cardinality(DOMAIN files)]].torn
  /\ op' = Down
  /\ UNCHANGED <<files, memory>>

\* The segment list and the entries of the tail; an empty directory gets segment 1.
LoadDone ==
  /\ op.name = "load" /\ ~HasStart /\ ~HasEnd
  /\ files' = IF files = << >> THEN Put(files, Seg(1), Whole(<< >>)) ELSE files
  /\ LET names == Listing(files')
         n == Len(names)
         tail == files'[names[n]]
     IN  /\ ~tail.torn
         /\ segments' = [k \in 1..n |-> Segment(names[k][1], IF k = n THEN tail.data ELSE << >>)]
         /\ firstIndex' = names[1][1]
         /\ lastIndex' = names[n][1] + Len(tail.data) - 1
  /\ cache' = << >>
  /\ sfile' = TRUE
  /\ op' = Idle

\* What a crash may leave of a file: its synced entries and up to k others,
\* with or without a part of the next one.
Remains(c, k, torn) ==
  LET n == Min({c.synced + k, Len(c.data)})
  IN  [data |-> SubSeq(c.data, 1, n), synced |-> n, torn |-> c.torn \/ (torn /\ n < Len(c.data))]
Crash ==
  /\ op # Down
  /\ files' \in {[n \in DOMAIN files |-> Remains(files[n], k, torn)] :
                   k \in 0..MaxBatch, torn \in BOOLEAN}
  /\ op' = Down
  /\ Forget

-----------------------------------------------------------------------------

Init ==
  /\ files = << >> /\ op = Down
  /\ segments = << >> /\ cache = << >> /\ firstIndex = 0 /\ lastIndex = 0 /\ sfile = FALSE

Batch == UNION {[1..n -> Value] : n \in 1..MaxBatch}

Next ==
  \/ \E batch \in Batch : Write(batch)
  \/ \E i \in 1..MaxIndex : Read(i) \/ truncateFront(i) \/ truncateBack(i)
  \/ ClearCache
  \/ WriteFile \/ cycle \/ WriteSync
  \/ FrontCommit \/ FrontRemove \/ FrontRename
  \/ BackCommit \/ BackRemove \/ BackRename
  \/ Open \/ LoadStart \/ LoadEnd \/ LoadRefused \/ LoadDone
  \/ Close \/ Crash

Spec == Init /\ [][Next]_vars

-----------------------------------------------------------------------------
(* What an Open would find: the log that is on disk. *)

\* The segment files that load keeps.
Kept(fs) ==
  LET starts == Suffixed(fs, ".START")
      ends == Suffixed(fs, ".END")
      start == StartFile(fs)
      end == EndFile(fs)
  IN  {n \in DOMAIN fs :
         /\ starts # {} => n = start \/ Earlier(start, n)
         /\ ends # {} => n = end \/ (Earlier(n, end) /\ n[1] # end[1])}
Recovered == Sorted(Kept(files))
Disk ==
  LET names == Recovered
      first == IF names = << >> THEN 1 ELSE names[1][1]
      data == FoldLeft(LAMBDA es, n : es \o files[n].data, << >>, names)
      lost == FoldLeft(LAMBDA sum, n : sum + Len(files[n].data) - files[n].synced, 0, names)
  IN  [first |-> first, entries |-> data, flushed |-> first + Len(data) - 1 - lost,
       broken |-> \E n \in DOMAIN files : files[n].torn]

L == INSTANCE LogStore WITH store <- Disk

-----------------------------------------------------------------------------
(* Properties *)

\* The directory holds entries, the segments of an open log are in increasing
\* order, and cached positions are segments before the tail.
TypeOK ==
  /\ \A n \in DOMAIN files : n[1] \in 1..MaxIndex + 1 /\ files[n].synced <= Len(files[n].data)
  /\ \A k \in DOMAIN segments : k > 1 => segments[k - 1].index < segments[k].index
  /\ Range(cache) \subseteq 1..Top - 1 /\ Len(cache) <= SegmentCacheSize
  /\ op.name \in {"down", "load", "idle", "write", "front", "back"}

\* Each file of the log begins where the one before it ends, whatever step of a
\* write, a truncation or a recovery a crash has interrupted: load only looks at
\* the first and the last file to find firstIndex and lastIndex.
Contiguous ==
  \A k \in DOMAIN Recovered :
    k > 1 => Recovered[k][1] = Recovered[k - 1][1] + Len(files[Recovered[k - 1]].data)

\* Between operations an open log reads back, for every index from firstIndex to
\* lastIndex, the entry that is on disk there: through the tail, the cached
\* segment, an evicted segment or one that a truncation has renumbered.
ReadsStored ==
  op = Idle =>
    LET disk == Disk
    IN  /\ firstIndex = disk.first /\ lastIndex = L!Last(disk)
        /\ \A i \in firstIndex..lastIndex :
             LET l == loadSegment(i)
                 s == l.segments[l.at]
             IN  Covers(s, i) /\ <<s.ebuf[i - s.index + 1]>> = L!Slice(disk, i, i)

\* When an operation has returned, nothing that was written can be lost.
Durable == op = Idle => Disk.flushed = L!Last(Disk)

\* load calls a START next to an END corrupt; no crash leaves the two together.
NoStartWithEnd == ~(HasStart /\ HasEnd)

\* The segment files implement the abstract log: every step changes what Open
\* would find as one step of LogStore does, so a crash inside a truncation
\* leaves the log before it or the log after it.
Implements == L!Spec
=============================================================================
