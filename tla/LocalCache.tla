----------------------------- MODULE LocalCache -----------------------------
(***************************************************************************)
(* storage/cache.go: the directory of files readings wait in while         *)
(* InfluxDB is away.                                                       *)
(*                                                                         *)
(* Every operation holds lc.mu from its first line to its return and is    *)
(* one action.  A cache file is the attempt that wrote it; "cachedAt"      *)
(* gives its CachedAt stamp.  The stamp and the file name come from        *)
(* time.Now(), so a write takes the clock forward and no two stamps are    *)
(* equal.  Files all have EntrySize bytes.  A part of a file, which a      *)
(* failed or interrupted os.WriteFile leaves behind, is no reading (it     *)
(* does not unmarshal) and no operation ever removes it; only its size is  *)
(* kept, in tornBytes.                                                     *)
(*                                                                         *)
(* "Faults" are the operations that may fail.  Of a directory that can be  *)
(* opened, filepath.Glob fails only for a name that is a malformed         *)
(* pattern; the failure is left to chance here.                            *)
(***************************************************************************)
EXTENDS Integers, FiniteSets

CONSTANTS
  Attempts,    \* attempt IDs, one for each call of Write
  EntrySize,   \* bytes of one cache file
  MaxSize,     \* lc.maxSize
  MaxAge,      \* lc.maxAge
  MaxClock,    \* bound of this model: time passes by itself up to here
  Faults       \* the file operations that may fail

FileOperations == {"write", "stat", "remove", "read", "glob"}

ASSUME CacheAssumption ==
  /\ IsFiniteSet(Attempts)
  /\ EntrySize \in Nat \ {0}
  /\ MaxSize \in Nat \ {0}
  /\ MaxAge \in Nat
  /\ MaxClock \in Nat
  /\ Faults \subseteq FileOperations

VARIABLES
  cachedAt,     \* stamp of each attempt's file, NoFile if it has none
  currentSize,  \* lc.currentSize
  tornBytes,    \* bytes of unreadable files in the directory
  uncounted,    \* history: bytes of files that lc.currentSize left out
  clock         \* time.Now()

cacheVars == <<cachedAt, currentSize, tornBytes, uncounted, clock>>

NoFile == 0

\* The readable files: what ListCachedReadings returns.
Files == {a \in Attempts : cachedAt[a] # NoFile}

Expired(a) == clock - cachedAt[a] > MaxAge

MayFail(operations) == Faults \cap operations # {}

Init ==
  /\ cachedAt = [a \in Attempts |-> NoFile]
  /\ currentSize = 0
  /\ tornBytes = 0
  /\ uncounted = 0
  /\ clock = 1
-----------------------------------------------------------------------------
\* Mutant: the limit may be passed by a file.
HasRoomAtLimit == currentSize <= MaxSize

\* The check at the head of Write.
HasRoom == currentSize < MaxSize

\* Write, the file written: its size is counted.
Write(a) ==
  /\ HasRoom
  /\ cachedAt' = [cachedAt EXCEPT ![a] = clock]
  /\ currentSize' = currentSize + EntrySize
  /\ clock' = clock + 1
  /\ UNCHANGED <<tornBytes, uncounted>>

\* Write, refused because the cache is full: no older file makes room.
WriteRefused == ~HasRoom /\ UNCHANGED cacheVars

\* os.WriteFile returns an error after it wrote a part of the file ...
LeavesPart ==
  /\ \E bytes \in 0..(EntrySize - 1) : tornBytes' = tornBytes + bytes
  /\ UNCHANGED <<cachedAt, uncounted>>

\* ... or all of it, the error being that of the close: a readable file.
LeavesWhole(a) ==
  /\ cachedAt' = [cachedAt EXCEPT ![a] = clock]
  /\ uncounted' = uncounted + EntrySize
  /\ UNCHANGED tornBytes

\* Write, os.WriteFile failing: whatever it left is not counted.
WriteFails(a) ==
  /\ MayFail({"write"})
  /\ HasRoom
  /\ LeavesPart \/ LeavesWhole(a)
  /\ clock' = clock + 1
  /\ UNCHANGED currentSize

\* DeleteCached: the file's size, taken by os.Stat, leaves the total.
DeleteCached(a) ==
  /\ a \in Files
  /\ cachedAt' = [cachedAt EXCEPT ![a] = NoFile]
  /\ currentSize' = currentSize - EntrySize
  /\ UNCHANGED <<tornBytes, uncounted, clock>>

\* DeleteCached, os.Stat or os.Remove failing: nothing changes.
DeleteFails == MayFail({"stat", "remove"}) /\ UNCHANGED cacheVars

\* The sets of files CleanupOld may remove: those past maxAge, less the ones
\* that cannot be read or removed.
Removable ==
  LET old == {a \in Files : Expired(a)}
  IN  IF MayFail({"read", "remove", "glob"}) THEN SUBSET old ELSE {old}

\* CleanupOld, starting from a total of "size": the files "gone" are removed and
\* leave the total, in which they may not have been.
CleanupOld(gone, size) ==
  /\ cachedAt' = [a \in Attempts |-> IF a \in gone THEN NoFile ELSE cachedAt[a]]
  /\ currentSize' = size - EntrySize * Cardinality(gone)
  /\ UNCHANGED <<tornBytes, clock>>

\* What the files in the directory take, the unreadable ones too.
DirectorySize == EntrySize * Cardinality(Files) + tornBytes

\* updateCurrentSize skips the files that os.Stat fails on; it counts none if
\* the directory cannot be listed.
Skipped == IF MayFail({"stat", "glob"}) THEN SUBSET Files ELSE {{}}
TornCounted == IF MayFail({"stat", "glob"}) THEN 0..tornBytes ELSE {tornBytes}

\* Mutant: the files an earlier process left are not counted at startup.
NewLocalCacheUncounted ==
  \E gone \in Removable : CleanupOld(gone, 0) /\ uncounted' = 0

\* NewLocalCache on the directory an earlier process left: the total is
\* computed afresh, then the files past their age are cleaned up.
NewLocalCache ==
  \E skipped \in Skipped, torn \in TornCounted, gone \in Removable :
    /\ CleanupOld(gone, EntrySize * Cardinality(Files \ skipped) + torn)
    /\ uncounted' = EntrySize * Cardinality(skipped)

\* The process dies inside Write: the file may be there in part.
Tear ==
  /\ HasRoom
  /\ \E bytes \in 0..(EntrySize - 1) : tornBytes' = tornBytes + bytes
  /\ UNCHANGED <<cachedAt, currentSize, uncounted, clock>>

\* Time passes.
Elapse ==
  /\ clock < MaxClock
  /\ clock' = clock + 1
  /\ UNCHANGED <<cachedAt, currentSize, tornBytes, uncounted>>

Next ==
  \/ \E a \in Attempts \ Files : Write(a) \/ WriteFails(a)
  \/ \E a \in Attempts : DeleteCached(a)
  \/ WriteRefused
  \/ DeleteFails
  \/ Tear
  \/ NewLocalCache
  \/ Elapse

Spec == Init /\ [][Next]_cacheVars
-----------------------------------------------------------------------------
TypeOK ==
  /\ cachedAt \in [Attempts -> Nat]
  /\ currentSize \in Int
  /\ tornBytes \in Nat
  /\ uncounted \in Nat
  /\ clock \in Nat \ {0}

\* The running total lc.currentSize falls below what the readable files take by
\* no more than the files that were never counted - a write that failed with its
\* file complete, a file os.Stat failed on at startup - and by nothing at all
\* where those calls do not fail; and it never exceeds what is in the directory,
\* so a cache is never called full that is not.  No order of writes, deletions,
\* restarts and cleanups makes it drift, although a file is taken off the total
\* whether it was counted or not.
SizeAccounted ==
  /\ EntrySize * Cardinality(Files) <= currentSize + uncounted
  /\ currentSize <= DirectorySize
  /\ ~MayFail({"write", "stat", "glob"}) => uncounted = 0

\* A write takes the readings in the cache past the configured size by less than
\* one file and the files that were never counted: the check against maxSize
\* comes before the write and ignores its size.
CacheBounded ==
  [][Cardinality(Files') > Cardinality(Files) =>
       EntrySize * Cardinality(Files') < MaxSize + EntrySize + uncounted']_cacheVars

\* README.md says the size and age limits prevent unbounded growth, which would
\* bound what the directory takes, the unreadable files included, by some
\* multiple of the limit: here twice maxSize.
DirectoryBounded == DirectorySize <= 2 * MaxSize
=============================================================================
