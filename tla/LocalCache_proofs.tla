------------------------- MODULE LocalCache_proofs --------------------------
(***************************************************************************)
(* The size accounting of LocalCache, for any set of attempts, any file    *)
(* size and any limit, disk faults included.                               *)
(*                                                                         *)
(* TypeOK and SizeAccounted are inductive together.  That the running      *)
(* total and the uncounted bytes are at least what the files take is what  *)
(* the check against maxSize needs to bound the files: CacheBounded, of    *)
(* every step that adds one.                                               *)
(***************************************************************************)
EXTENDS LocalCache, FiniteSetTheorems, TLAPS

CacheInv == TypeOK /\ SizeAccounted

\* What CacheBounded says of one step.
Bounded ==
  Cardinality(Files') > Cardinality(Files) =>
    EntrySize * Cardinality(Files') < MaxSize + EntrySize + uncounted'

LEMMA FilesFinite == IsFiniteSet(Files) /\ Cardinality(Files) \in Nat
BY CacheAssumption, FS_Subset, FS_CardinalityType DEF Files

\* The sizes of the files add up: one file more, and some files fewer.
LEMMA SizeOfOneMore == \A n \in Nat : EntrySize * (n + 1) = EntrySize * n + EntrySize
BY CacheAssumption

LEMMA SizeOfFewer ==
  \A n, k \in Nat : k <= n =>
    /\ EntrySize * (n - k) = EntrySize * n - EntrySize * k
    /\ EntrySize * k \in Nat
    /\ EntrySize * k <= EntrySize * n
<1>. SUFFICES ASSUME NEW n \in Nat, NEW k \in Nat, k <= n
              PROVE  /\ EntrySize * (n - k) = EntrySize * n - EntrySize * k
                     /\ EntrySize * k \in Nat
                     /\ EntrySize * k <= EntrySize * n
  OBVIOUS
<1>. DEFINE d == n - k
<1>1. d \in Nat /\ n = k + d
  OBVIOUS
<1>2. EntrySize * (k + d) = EntrySize * k + EntrySize * d
  BY <1>1, CacheAssumption
<1>3. EntrySize * k \in Nat /\ EntrySize * d \in Nat
  BY <1>1, CacheAssumption
<1>. QED
  BY <1>1, <1>2, <1>3

\* Operations that leave the files and the running total alone, and add no more
\* than torn bytes to the directory.
LEMMA SameFiles ==
  ASSUME CacheInv, UNCHANGED <<cachedAt, currentSize, uncounted>>,
         clock' \in Nat \ {0}, tornBytes' \in Nat, tornBytes <= tornBytes'
  PROVE  CacheInv' /\ Bounded
<1>1. Files' = Files
  BY DEF Files
<1>2. EntrySize * Cardinality(Files) \in Nat /\ Cardinality(Files) \in Nat
  BY FilesFinite, CacheAssumption
<1>3. CacheInv'
  BY <1>1, <1>2 DEF CacheInv, TypeOK, SizeAccounted, DirectorySize, MayFail
<1>. QED
  BY <1>1, <1>2, <1>3 DEF Bounded

\* A file is written, for an attempt that has none yet; "counted" is what it adds
\* to the total, and what it does not add is uncounted.
LEMMA NewFileKeeps ==
  ASSUME CacheInv, NEW a \in Attempts, a \notin Files, HasRoom,
         cachedAt' = [cachedAt EXCEPT ![a] = clock], clock' = clock + 1,
         tornBytes' = tornBytes, NEW counted \in {0, EntrySize},
         currentSize' = currentSize + counted,
         uncounted' = uncounted + (EntrySize - counted),
         counted = 0 => MayFail({"write"})
  PROVE  CacheInv' /\ Bounded
<1>1. clock \in Nat \ {0} /\ clock # NoFile
  BY DEF CacheInv, TypeOK, NoFile
<1>2. Files' = Files \cup {a}
  BY <1>1 DEF Files, CacheInv, TypeOK
<1>3. Cardinality(Files') = Cardinality(Files) + 1
  BY <1>2, FilesFinite, FS_AddElement
<1>4. EntrySize * Cardinality(Files') = EntrySize * Cardinality(Files) + EntrySize
  BY <1>3, FilesFinite, SizeOfOneMore
<1>5. EntrySize * Cardinality(Files) \in Nat
  BY FilesFinite, CacheAssumption
<1>6. TypeOK'
  BY <1>1, CacheAssumption DEF CacheInv, TypeOK
<1>7. ~MayFail({"write", "stat", "glob"}) => uncounted' = 0
  BY CacheAssumption DEF MayFail, CacheInv, SizeAccounted, TypeOK
<1>. DEFINE before == EntrySize * Cardinality(Files)
            after == EntrySize * Cardinality(Files')
<1>8. /\ before \in Nat /\ after = before + EntrySize
      /\ before <= currentSize + uncounted /\ currentSize <= before + tornBytes
      /\ currentSize \in Int /\ uncounted \in Nat /\ tornBytes \in Nat
      /\ currentSize < MaxSize
  BY <1>4, <1>5 DEF CacheInv, TypeOK, SizeAccounted, DirectorySize, HasRoom
<1>9. /\ after <= currentSize' + uncounted' /\ currentSize' <= after + tornBytes'
      /\ after < MaxSize + EntrySize + uncounted'
  <2>. HIDE DEF before, after
  <2>1. CASE counted = 0
    BY <1>8, <2>1, CacheAssumption
  <2>2. CASE counted = EntrySize
    BY <1>8, <2>2, CacheAssumption
  <2>. QED
    BY <2>1, <2>2
<1>. QED
  BY <1>6, <1>7, <1>9 DEF CacheInv, SizeAccounted, DirectorySize, Bounded, MayFail

LEMMA WriteKeeps ==
  ASSUME CacheInv, NEW a \in Attempts, a \notin Files, Write(a)
  PROVE  CacheInv' /\ Bounded
<1>1. uncounted' = uncounted + (EntrySize - EntrySize)
  BY CacheAssumption DEF Write, CacheInv, TypeOK
<1>. QED
  BY <1>1, NewFileKeeps, CacheAssumption DEF Write

\* A failed write leaves a part of the file, or all of it.
LEMMA WriteFailsKeeps ==
  ASSUME CacheInv, NEW a \in Attempts, a \notin Files, WriteFails(a)
  PROVE  CacheInv' /\ Bounded
<1>1. CASE LeavesPart
  <2>1. PICK bytes \in 0..(EntrySize - 1) : tornBytes' = tornBytes + bytes
    BY <1>1 DEF LeavesPart
  <2>. QED
    BY <1>1, <2>1, SameFiles DEF WriteFails, LeavesPart, CacheInv, TypeOK
<1>2. CASE LeavesWhole(a)
  <2>1. currentSize' = currentSize + 0 /\ uncounted' = uncounted + (EntrySize - 0)
    BY <1>2, CacheAssumption DEF WriteFails, LeavesWhole, CacheInv, TypeOK
  <2>. QED
    BY <1>2, <2>1, NewFileKeeps DEF WriteFails, LeavesWhole
<1>. QED
  BY <1>1, <1>2 DEF WriteFails

\* Files are removed, and the total becomes "size" less what they took; "left" is
\* what it leaves out of account.
LEMMA RemovalKeeps ==
  ASSUME CacheInv, NEW gone \in SUBSET Files, NEW size \in Int, NEW left \in Nat,
         EntrySize * Cardinality(Files) <= size + left, size <= DirectorySize,
         CleanupOld(gone, size), uncounted' = left,
         ~MayFail({"write", "stat", "glob"}) => left = 0
  PROVE  CacheInv' /\ Bounded
<1>1. Files' = Files \ gone
  BY DEF CleanupOld, Files, NoFile
<1>2. IsFiniteSet(gone) /\ Cardinality(gone) \in Nat
      /\ Cardinality(gone) <= Cardinality(Files)
  BY FilesFinite, FS_Subset, FS_CardinalityType
<1>3. Files \cap gone = gone
  OBVIOUS
<1>4. Cardinality(Files') = Cardinality(Files) - Cardinality(gone)
  BY <1>1, <1>3, FilesFinite, FS_Difference
<1>5. /\ EntrySize * Cardinality(Files')
           = EntrySize * Cardinality(Files) - EntrySize * Cardinality(gone)
      /\ EntrySize * Cardinality(gone) \in Nat
  BY <1>2, <1>4, FilesFinite, SizeOfFewer
<1>6. EntrySize * Cardinality(Files) \in Nat
  BY FilesFinite, CacheAssumption
<1>7. TypeOK'
  BY <1>5 DEF CleanupOld, CacheInv, TypeOK, NoFile
<1>. DEFINE before == EntrySize * Cardinality(Files)
            removed == EntrySize * Cardinality(gone)
            after == EntrySize * Cardinality(Files')
<1>8. /\ before \in Nat /\ removed \in Nat /\ after = before - removed
      /\ before <= size + left /\ size <= before + tornBytes
      /\ tornBytes \in Nat /\ tornBytes' = tornBytes
      /\ currentSize' = size - removed
  BY <1>5, <1>6 DEF CleanupOld, CacheInv, TypeOK, DirectorySize
<1>9. after <= currentSize' + uncounted' /\ currentSize' <= after + tornBytes'
  <2>. HIDE DEF before, removed, after
  <2>. QED
    BY <1>8
<1>10. CacheInv'
  BY <1>7, <1>9 DEF CacheInv, SizeAccounted, DirectorySize, MayFail
<1>11. ~(Cardinality(Files') > Cardinality(Files))
  BY <1>2, <1>4, FilesFinite
<1>. QED
  BY <1>10, <1>11 DEF Bounded

\* A file is deleted: a removal of one, from the running total.
LEMMA DeleteKeeps ==
  ASSUME CacheInv, NEW a \in Attempts, DeleteCached(a)
  PROVE  CacheInv' /\ Bounded
<1>1. {a} \in SUBSET Files
  BY DEF DeleteCached
<1>2. EntrySize * Cardinality({a}) = EntrySize
  BY FS_Singleton, CacheAssumption
<1>3. cachedAt' = [b \in Attempts |-> IF b \in {a} THEN NoFile ELSE cachedAt[b]]
  BY DEF DeleteCached, CacheInv, TypeOK
<1>4. CleanupOld({a}, currentSize)
  BY <1>2, <1>3 DEF DeleteCached, CleanupOld
<1>5. uncounted' = uncounted
  BY DEF DeleteCached
<1>. QED
  BY <1>1, <1>4, <1>5, RemovalKeeps DEF CacheInv, TypeOK, SizeAccounted

\* A new process counts the directory, less the files it skips, and cleans it up.
LEMMA NewLocalCacheKeeps ==
  ASSUME CacheInv, NewLocalCache
  PROVE  CacheInv' /\ Bounded
<1>1. PICK skipped \in Skipped, torn \in TornCounted, gone \in Removable :
        /\ CleanupOld(gone, EntrySize * Cardinality(Files \ skipped) + torn)
        /\ uncounted' = EntrySize * Cardinality(skipped)
  BY DEF NewLocalCache
<1>2. gone \in SUBSET Files /\ skipped \in SUBSET Files
  BY DEF Removable, Skipped
<1>3. torn \in Nat /\ torn <= tornBytes
  BY DEF TornCounted, CacheInv, TypeOK
<1>4. IsFiniteSet(skipped) /\ Cardinality(skipped) \in Nat
      /\ Cardinality(skipped) <= Cardinality(Files)
  BY <1>2, FilesFinite, FS_Subset, FS_CardinalityType
<1>5. Files \cap skipped = skipped
  BY <1>2
<1>6. Cardinality(Files \ skipped) = Cardinality(Files) - Cardinality(skipped)
  BY <1>5, FilesFinite, FS_Difference
<1>. DEFINE before == EntrySize * Cardinality(Files)
            counted == EntrySize * Cardinality(Files \ skipped)
            left == EntrySize * Cardinality(skipped)
<1>7. counted = before - left /\ left \in Nat /\ before \in Nat
  BY <1>4, <1>6, FilesFinite, SizeOfFewer, CacheAssumption
<1>8. /\ counted + torn \in Int
      /\ before <= (counted + torn) + left
      /\ counted + torn <= before + tornBytes
  <2>1. tornBytes \in Nat
    BY DEF CacheInv, TypeOK
  <2>. HIDE DEF before, counted, left
  <2>. QED
    BY <1>3, <1>7, <2>1
<1>9. ~MayFail({"write", "stat", "glob"}) => left = 0
  <2>1. SUFFICES ASSUME ~MayFail({"write", "stat", "glob"}) PROVE left = 0
    OBVIOUS
  <2>2. skipped = {}
    BY <2>1 DEF Skipped, MayFail
  <2>. QED
    BY <2>2, FS_EmptySet, CacheAssumption
<1>10. counted + torn <= DirectorySize
  BY <1>8 DEF DirectorySize
<1>. HIDE DEF counted, left
<1>11. CleanupOld(gone, counted + torn) /\ uncounted' = left
  BY <1>1 DEF counted, left
<1>. QED
  BY <1>2, <1>7, <1>8, <1>9, <1>10, <1>11, RemovalKeeps

LEMMA CacheInit == Init => CacheInv
<1>. SUFFICES ASSUME Init PROVE CacheInv
  OBVIOUS
<1>1. Files = {}
  BY DEF Init, Files, NoFile
<1>2. EntrySize * Cardinality(Files) = 0
  BY <1>1, FS_EmptySet, CacheAssumption
<1>. QED
  BY <1>2, CacheAssumption
  DEF Init, CacheInv, TypeOK, SizeAccounted, DirectorySize, NoFile

LEMMA CacheNext == CacheInv /\ [Next]_cacheVars => CacheInv' /\ Bounded
<1>. SUFFICES ASSUME CacheInv, [Next]_cacheVars PROVE CacheInv' /\ Bounded
  OBVIOUS
<1>1. ASSUME NEW a \in Attempts \ Files, Write(a) PROVE CacheInv' /\ Bounded
  BY <1>1, WriteKeeps
<1>2. ASSUME NEW a \in Attempts \ Files, WriteFails(a) PROVE CacheInv' /\ Bounded
  BY <1>2, WriteFailsKeeps
<1>3. ASSUME NEW a \in Attempts, DeleteCached(a) PROVE CacheInv' /\ Bounded
  BY <1>3, DeleteKeeps
<1>4. CASE UNCHANGED cacheVars
  BY <1>4, SameFiles DEF cacheVars, CacheInv, TypeOK
<1>5. CASE Tear
  <2>1. PICK bytes \in 0..(EntrySize - 1) : tornBytes' = tornBytes + bytes
    BY <1>5 DEF Tear
  <2>. QED
    BY <1>5, <2>1, SameFiles DEF Tear, CacheInv, TypeOK
<1>6. CASE NewLocalCache
  BY <1>6, NewLocalCacheKeeps
<1>7. CASE Elapse
  BY <1>7, SameFiles DEF Elapse, CacheInv, TypeOK
<1>. QED
  BY <1>1, <1>2, <1>3, <1>4, <1>5, <1>6, <1>7 DEF Next, WriteRefused, DeleteFails

LEMMA CacheInvariant == Spec => []CacheInv
BY CacheInit, CacheNext, PTL DEF Spec

\* Every operation of the cache keeps the total an integer - it may be negative,
\* after the deletion of a file that was not counted - and gives every file a
\* stamp.
THEOREM CacheTyped == Spec => []TypeOK
<1>1. CacheInv => TypeOK
  BY DEF CacheInv
<1>. QED
  BY <1>1, CacheInvariant, PTL

\* lc.currentSize stays between what the readable files take, less the files that
\* were never counted, and what the directory takes, in every behaviour of the
\* cache, whichever file operations may fail.
THEOREM CacheSafe == Spec => []SizeAccounted
<1>1. CacheInv => SizeAccounted
  BY DEF CacheInv
<1>. QED
  BY <1>1, CacheInvariant, PTL

\* The check against maxSize: a write takes the readable files past it by less
\* than one file and the files that were never counted.
THEOREM CacheLimited == Spec => CacheBounded
<1>1. CacheInv /\ [Next]_cacheVars
        => [Cardinality(Files') > Cardinality(Files) =>
              EntrySize * Cardinality(Files')
                < MaxSize + EntrySize + uncounted']_cacheVars
  BY CacheNext DEF Bounded
<1>. QED
  BY <1>1, CacheInvariant, PTL DEF Spec, CacheBounded
=============================================================================
