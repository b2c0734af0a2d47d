------------------------------- MODULE FileIO -------------------------------
(***************************************************************************)
(* The file data path of the wiifs driver: the handle table, the single   *)
(* slot write-back file cache, and the cluster-level file I/O that chains *)
(* data clusters through the FAT with copy-on-write                       *)
(* (src/source/driver/file.cpp, low_level.cpp WriteFileData/ReadFileData) *)
(* together with the metadata operations that allocate or free clusters   *)
(* and handles: Format, CreateFile and Delete of a file (fs.cpp).         *)
(*                                                                         *)
(* Abstractions.                                                           *)
(*  - A cluster holds ClusterSize abstract bytes (0x4000 in the code); a   *)
(*    byte is 0 or a member of Vals.  Only data clusters are modelled:     *)
(*    Clusters stands for 64..0x7EFF and is allocated lowest index first.  *)
(*  - A cluster's HMAC is modelled by the salt it was computed with,       *)
(*    <<fst_index, chain_index>>; verification succeeds iff the salt of    *)
(*    the cluster equals the salt of the entry and chain position read     *)
(*    (uid, name and x3 of an entry do not change in this module).         *)
(*  - Files live directly under the root; the FST tree (paths, sub/sib     *)
(*    lists, directories, permissions) is the Fst module.  Every caller    *)
(*    here is root (uid 0), so HasPermission always grants.                *)
(*  - FlushSuperblock is an atomic commit of the in-memory FAT and FST to  *)
(*    `disk`; the replica ring that implements it is SuperblockRing.       *)
(*  - u32 arithmetic in ReadFile and SeekFile is taken modulo WordSize     *)
(*    (2^32 in the code).                                                  *)
(***************************************************************************)
EXTENDS Naturals, Sequences, FiniteSets, FiniteSetsExt

CONSTANTS
  FileIdx,       \* FST indices that may hold files (entry 0 is the root)
  NumHandles,    \* size of m_handles (16 in the code)
  NumClusters,   \* number of data clusters
  ClusterSize,   \* CLUSTER_DATA_SIZE
  MaxFileSize,   \* bound: no write extends a file beyond this size
  Vals,          \* non-zero byte values a WriteFile may write
  WordSize,      \* 2^32: the modulus of u32 arithmetic
  ReadCounts,    \* `size` arguments of ReadFile
  WriteCounts,   \* `size` arguments of WriteFile
  SeekOffsets,   \* `offset` arguments of SeekFile with Current or End
  NoFile,        \* fst_index 0xffff of a handle bound to no file
  LAST,          \* CLUSTER_LAST_IN_CHAIN
  UNUSED,        \* CLUSTER_UNUSED
  None           \* nullptr / an empty std::optional

ASSUME /\ FileIdx \subseteq Nat \ {0} /\ NoFile \notin FileIdx
       /\ NumHandles \in Nat \ {0} /\ NumClusters \in Nat \ {0}
       /\ ClusterSize \in Nat \ {0} /\ MaxFileSize \in Nat
       /\ WordSize > MaxFileSize + ClusterSize
       /\ 0 \notin Vals

VARIABLES
  fat,       \* in-memory superblock FAT over the data clusters
  fst,       \* in-memory superblock FST entries of FileIdx
  nand,      \* data cluster contents on NAND with the salt of their HMAC
  disk,      \* FAT and FST of the last superblock written to NAND
  handles,   \* m_handles
  cache,     \* m_cache_handle, m_cache_chain_index, m_cache_for_write, m_cache_data
  logical,   \* ghost: the bytes WriteFile has accepted into each file
  ub         \* ghost: undefined behaviour has been executed

vars == <<fat, fst, nand, disk, handles, cache, logical, ub>>

Handles   == 0 .. NumHandles - 1
Clusters  == 0 .. NumClusters - 1
CS        == ClusterSize
Bytes     == {0} \cup Vals
ZeroCluster == [i \in 0 .. CS - 1 |-> 0]
Empty     == <<>>              \* a cleared std::vector
OpenModes == {{"R"}, {"W"}, {"R", "W"}}   \* FileMode Read, Write, Read|Write

\* FstEntry{} as left by Format: not a file; its sub is never read.
FreeEntry == [isFile |-> FALSE, sub |-> LAST, size |-> 0]
\* Handle{}: the value AssignFreeHandle and Close reset a slot to.
NewHandle == [opened |-> FALSE, fst |-> NoFile, mode |-> {}, offset |-> 0,
              size |-> 0, flush |-> FALSE]

-----------------------------------------------------------------------------
(* The driver's state as one record, so that a handler's loop can be      *)
(* written as a function from state to the set of possible outcomes.      *)
St == [fat |-> fat, fst |-> fst, nand |-> nand, disk |-> disk,
       handles |-> handles, cache |-> cache, logical |-> logical, ub |-> ub]

Apply(s) == /\ fat' = s.fat /\ fst' = s.fst /\ nand' = s.nand
            /\ disk' = s.disk /\ handles' = s.handles /\ cache' = s.cache
            /\ logical' = s.logical /\ ub' = s.ub

Ok(s)       == [st |-> s, rc |-> "Success"]
Fail(s, rc) == [st |-> s, rc |-> rc]

\* GetClusterForFile: the cluster at position i of the chain starting at c.
RECURSIVE ClusterAt(_, _, _)
ClusterAt(fatf, c, i) ==
  IF c \notin Clusters THEN None
  ELSE IF i = 0 THEN c ELSE ClusterAt(fatf, fatf[c], i - 1)

\* The clusters of a chain in order, cut after `fuel` links.
RECURSIVE ChainFrom(_, _, _)
ChainFrom(fatf, c, fuel) ==
  IF c \notin Clusters \/ fuel = 0 THEN <<>>
  ELSE <<c>> \o ChainFrom(fatf, fatf[c], fuel - 1)

Chain(fatf, e) == ChainFrom(fatf, e.sub, NumClusters + 1)

IsFileOpened(s, f) == \E h \in Handles : s.handles[h].opened /\ s.handles[h].fst = f

\* FlushSuperblock: the in-memory FAT and FST become the NAND's.
FlushSuperblock(s) == [s EXCEPT !.disk = [fat |-> s.fat, fst |-> s.fst]]

\* Bytes [off, off + n) of a file's content set to v, zero filling a gap.
WriteBytes(seq, off, n, v) ==
  [i \in 1 .. Max({Len(seq), off + n}) |->
     IF off < i /\ i <= off + n THEN v ELSE IF i <= Len(seq) THEN seq[i] ELSE 0]

-----------------------------------------------------------------------------
(* Cluster-level file I/O (low_level.cpp).                                 *)

(* Mutants of WriteFileData, each a plausible slip in that code: the old  *)
(* cluster is not freed; the HMAC salt omits the chain index; the cluster *)
(* is rewritten in place instead of copied.                               *)
WriteFileData_KeepOld(s, f, data, k, newSize) ==
  LET e == s.fst[f]  c == Min({x \in Clusters : s.fat[x] = UNUSED})
      old == ClusterAt(s.fat, e.sub, k)  prev == ClusterAt(s.fat, e.sub, k - 1)
      fat1 == IF k = 0 THEN s.fat ELSE [s.fat EXCEPT ![prev] = c]
  IN IF f \notin FileIdx \/ ~e.isFile \/ newSize <= e.size
          \/ (\A x \in Clusters : s.fat[x] # UNUSED) \/ (k # 0 /\ prev = None)
     THEN Fail(s, "Invalid")
     ELSE Ok([s EXCEPT !.nand[c] = [data |-> data, salt |-> <<f, k>>],
                       !.fat = [fat1 EXCEPT ![c] = IF old = None THEN LAST ELSE fat1[old]],
                       !.fst[f].sub = IF k = 0 THEN c ELSE @, !.fst[f].size = newSize])
WriteFileData_SaltNoIndex(s, f, data, k, newSize) ==
  LET r == WriteFileData_KeepOld(s, f, data, k, newSize)
      old == ClusterAt(s.fat, s.fst[f].sub, k)
      c == Min({x \in Clusters : s.fat[x] = UNUSED})
  IN IF r.rc # "Success" THEN r
     ELSE Ok([r.st EXCEPT !.nand[c].salt = <<f, 0>>,
                          !.fat = IF old = None THEN @ ELSE [@ EXCEPT ![old] = UNUSED]])
WriteFileData_InPlace(s, f, data, k, newSize) ==
  LET old == ClusterAt(s.fat, s.fst[f].sub, k)
      r == WriteFileData_KeepOld(s, f, data, k, newSize)
  IN IF f \in FileIdx /\ s.fst[f].isFile /\ newSize > s.fst[f].size /\ old # None
     THEN Ok([s EXCEPT !.nand[old] = [data |-> data, salt |-> <<f, k>>],
                       !.fst[f].size = newSize])
     ELSE r

(* WriteFileData: write the cluster at chain position k of file f to the  *)
(* first unused cluster, splice it into the chain in place of the old one *)
(* (copy-on-write), free the old one and set the entry's size.            *)
WriteFileData(s, f, data, k, newSize) ==
  LET e       == s.fst[f]
      free    == {c \in Clusters : s.fat[c] = UNUSED}
      c       == Min(free)
      written == [s EXCEPT !.nand[c] = [data |-> data, salt |-> <<f, k>>]]
      old     == ClusterAt(s.fat, e.sub, k)
      prev    == ClusterAt(s.fat, e.sub, k - 1)
      fat1    == IF k = 0 THEN s.fat ELSE [s.fat EXCEPT ![prev] = c]
      fat2    == [fat1 EXCEPT ![c] = IF old = None THEN LAST ELSE fat1[old]]
      fat3    == IF old = None THEN fat2 ELSE [fat2 EXCEPT ![old] = UNUSED]
  IN CASE f \notin FileIdx                    -> Fail(s, "Invalid")
       [] ~e.isFile \/ newSize <= e.size      -> Fail(s, "Invalid")
       [] free = {}                           -> Fail(s, "NoFreeSpace")
       [] k # 0 /\ prev = None                -> Fail(written, "Invalid")
       [] OTHER -> Ok([written EXCEPT !.fat = fat3,
                                      !.fst[f].sub = IF k = 0 THEN c ELSE @,
                                      !.fst[f].size = newSize])

(* ReadFileData: the set of possible results of reading chain position k  *)
(* of file f.  When the chain is shorter than k + 1 the code dereferences *)
(* an empty std::optional; the cluster index read is then indeterminate:  *)
(* out of range (Invalid), a cluster whose HMAC fails, or any cluster     *)
(* whose HMAC happens to verify.                                          *)
ReadFileData(s, f, k) ==
  LET e == s.fst[f]
      c == ClusterAt(s.fat, e.sub, k)
      Verifies(x) == s.nand[x].salt = <<f, k>>
      Res(rc, d) == [rc |-> rc, data |-> d]
  IN CASE f \notin FileIdx                   -> {Res("Invalid", Empty)}
       [] ~e.isFile \/ e.size <= k * CS      -> {Res("Invalid", Empty)}
       [] c # None -> {IF Verifies(c) THEN Res("Success", s.nand[c].data)
                                      ELSE Res("CheckFailed", Empty)}
       [] OTHER    -> {Res("Invalid", Empty), Res("CheckFailed", Empty)}
                      \cup {Res("Success", s.nand[x].data) :
                              x \in {y \in Clusters : Verifies(y)}}

-----------------------------------------------------------------------------
(* The file cache (file.cpp).                                              *)

\* Mutant: the new size passed to WriteFileData is one past the handle's.
FlushFileCache_SizePastEnd(s) ==
  LET h == s.cache.handle
      r == WriteFileData(s, s.handles[h].fst, s.cache.data, s.cache.chain,
                         s.handles[h].size + 1)
  IN IF h = None \/ ~s.cache.forWrite \/ s.cache.data = Empty THEN Ok(s)
     ELSE IF r.rc = "Success" THEN Ok([r.st EXCEPT !.handles[h].flush = TRUE])
     ELSE r

(* FlushFileCache: write the cached cluster back if it was populated for  *)
(* writing; on success the owner must flush the superblock at Close.      *)
FlushFileCache(s) ==
  LET h == s.cache.handle
      r == WriteFileData(s, s.handles[h].fst, s.cache.data, s.cache.chain,
                         s.handles[h].size)
  IN IF h = None \/ ~s.cache.forWrite \/ s.cache.data = Empty THEN Ok(s)
     ELSE IF r.rc = "Success" THEN Ok([r.st EXCEPT !.handles[h].flush = TRUE])
     ELSE r

(* PopulateFileCache: make the cache hold the cluster of handle h that    *)
(* contains offset `off`.  A hit returns at once, even when it was        *)
(* populated for reading and is now used for writing.  On a miss the     *)
(* slot is flushed, rebound, and filled with zeros (when appending a new  *)
(* cluster) or with the file's data; a failed read leaves the slot bound  *)
(* with its previous data.                                                *)
PopulateFileCache(s, h, off, write) ==
  LET k     == off \div CS
      fl    == FlushFileCache(s)
      bound == [fl.st EXCEPT !.cache.handle = h, !.cache.chain = k,
                             !.cache.forWrite = write]
  IN IF s.cache.handle = h /\ s.cache.chain = k THEN {Ok(s)}
     ELSE IF fl.rc # "Success" THEN {fl}
     ELSE IF off % CS = 0 /\ off = bound.handles[h].size
          THEN {Ok([bound EXCEPT !.cache.data = ZeroCluster])}
     ELSE {IF r.rc = "Success" THEN Ok([bound EXCEPT !.cache.data = r.data])
                               ELSE Fail(bound, r.rc)
             : r \in ReadFileData(bound, bound.handles[h].fst, k)}

(* The copy loops of ReadFile and WriteFile, `left` bytes still to go.    *)
(* Copying from a cache whose data was cleared by Close (a bound slot     *)
(* whose fill failed) indexes an empty vector: undefined behaviour, after *)
(* which the model records `ub` and ends the call.                        *)
RECURSIVE ReadLoop(_, _, _)
ReadLoop(s, h, left) ==
  IF left = 0 THEN {Ok(s)}
  ELSE UNION {
    IF r.rc # "Success" THEN {r}
    ELSE IF r.st.cache.data = Empty THEN {Fail([r.st EXCEPT !.ub = TRUE], "Undefined")}
    ELSE LET pos == r.st.handles[h].offset - r.st.cache.chain * CS
             n   == Min({CS - pos, left})
         IN ReadLoop([r.st EXCEPT !.handles[h].offset = (@ + n) % WordSize],
                      h, left - n)
    : r \in PopulateFileCache(s, h, s.handles[h].offset, FALSE)}

RECURSIVE WriteLoop(_, _, _, _)
WriteLoop(s, h, v, left) ==
  IF left = 0 THEN {Ok(s)}
  ELSE UNION {
    IF r.rc # "Success" THEN {r}
    ELSE IF r.st.cache.data = Empty THEN {Fail([r.st EXCEPT !.ub = TRUE], "Undefined")}
    ELSE LET off == r.st.handles[h].offset
             pos == off - r.st.cache.chain * CS
             n   == Min({CS - pos, left})
             f   == r.st.handles[h].fst
         IN WriteLoop([r.st EXCEPT
                 !.cache.data = [i \in 0 .. CS - 1 |->
                                   IF pos <= i /\ i < pos + n THEN v ELSE @[i]],
                 !.handles[h].offset = off + n,
                 !.handles[h].size = Max({off + n, @}),
                 !.logical[f] = WriteBytes(@, off, n, v)], h, v, left - n)
    : r \in PopulateFileCache(s, h, s.handles[h].offset, TRUE)}

-----------------------------------------------------------------------------
(* Handlers.  An early return that changes nothing is a stuttering step   *)
(* and is left out; every other path of a handler is part of its action. *)

\* AssignFreeHandle: the lowest unopened slot, reset to Handle{}.
FreeHandles == {h \in Handles : ~handles[h].opened}
FirstFree   == Min(FreeHandles)

OpenFs ==
  /\ FreeHandles # {}
  /\ handles' = [handles EXCEPT ![FirstFree] = [NewHandle EXCEPT !.opened = TRUE]]
  /\ UNCHANGED <<fat, fst, nand, disk, cache, logical, ub>>

\* OpenFile of an existing file; the size is snapshotted at open.
OpenFile(f, mode) ==
  /\ fst[f].isFile
  /\ FreeHandles # {}
  /\ handles' = [handles EXCEPT ![FirstFree] =
                   [NewHandle EXCEPT !.opened = TRUE, !.fst = f, !.mode = mode,
                                     !.size = fst[f].size]]
  /\ UNCHANGED <<fat, fst, nand, disk, cache, logical, ub>>

\* A handle that GetHandleFromFd accepts for a file operation.
FileHandle(h) == handles[h].opened /\ handles[h].fst \in FileIdx

\* ReadFile: the count is clipped to the handle's size with u32 arithmetic.
ReadFile(h, count) ==
  LET hd == handles[h]
      n  == IF (count + hd.offset) % WordSize > hd.size
            THEN (hd.size - hd.offset) % WordSize ELSE count
  IN /\ FileHandle(h) /\ "R" \in hd.mode
     /\ \E r \in ReadLoop(St, h, n) : Apply(r.st)

\* WriteFile of `count` bytes of value v.
WriteFile(h, v, count) ==
  /\ FileHandle(h) /\ "W" \in handles[h].mode
  /\ handles[h].offset + count <= MaxFileSize
  /\ \E r \in WriteLoop(St, h, v, count) : Apply(r.st)

\* SeekFile: no seeking past the handle's size.
SeekFile(h, mode, off) ==
  LET hd == handles[h]
      p  == CASE mode = "Set"     -> off
              [] mode = "Current" -> (hd.offset + off) % WordSize
              [] mode = "End"     -> (hd.size + off) % WordSize
  IN /\ FileHandle(h)
     /\ p <= hd.size
     /\ handles' = [handles EXCEPT ![h].offset = p]
     /\ UNCHANGED <<fat, fst, nand, disk, cache, logical, ub>>

(* Close: flush and release the cache slot if h owns it (a failed flush   *)
(* returns with h still open), flush the superblock if a data cluster of  *)
(* h was written, and reset the slot.                                     *)
Close(h) ==
  LET fl  == FlushFileCache(St)
      s1  == IF cache.handle = h
             THEN [fl.st EXCEPT !.cache.handle = None, !.cache.data = Empty]
             ELSE St
      s2  == IF s1.handles[h].flush THEN FlushSuperblock(s1) ELSE s1
  IN /\ handles[h].opened
     /\ IF cache.handle = h /\ fl.rc # "Success"
        THEN Apply(fl.st)
        ELSE Apply([s2 EXCEPT !.handles[h] = NewHandle])

(* Format: reset FAT and FST, mark every handle closed, flush.  The file  *)
(* cache is left as it is.                                                *)
Format ==
  Apply(FlushSuperblock([St EXCEPT
          !.fat = [c \in Clusters |-> UNUSED],
          !.fst = [f \in FileIdx |-> FreeEntry],
          !.handles = [h \in Handles |-> [@[h] EXCEPT !.opened = FALSE]],
          !.logical = [f \in FileIdx |-> <<>>]]))

\* CreateFile: the lowest unused FST entry becomes an empty file; flush.
CreateFile ==
  LET f == Min({x \in FileIdx : ~fst[x].isFile})
  IN /\ \E x \in FileIdx : ~fst[x].isFile
     /\ Apply(FlushSuperblock([St EXCEPT
             !.fst[f] = [isFile |-> TRUE, sub |-> LAST, size |-> 0],
             !.logical[f] = <<>>]))

\* DeleteFile's loop: free every cluster of the chain starting at c.
RECURSIVE FreeChain(_, _)
FreeChain(fatf, c) ==
  IF c \notin Clusters THEN fatf
  ELSE FreeChain([fatf EXCEPT ![c] = UNUSED], fatf[c])

\* Delete of a file that no handle has open; flush.
Delete(f) ==
  /\ fst[f].isFile
  /\ ~IsFileOpened(St, f)
  /\ Apply(FlushSuperblock([St EXCEPT
          !.fat = FreeChain(fat, fst[f].sub),
          !.fst[f].isFile = FALSE,
          !.logical[f] = <<>>]))

-----------------------------------------------------------------------------
(* A freshly formatted NAND on which every file of FileIdx was created    *)
(* empty; nothing has been written to a data cluster yet.                 *)
Init ==
  /\ fat = [c \in Clusters |-> UNUSED]
  /\ fst = [f \in FileIdx |-> [isFile |-> TRUE, sub |-> LAST, size |-> 0]]
  /\ nand = [c \in Clusters |-> [data |-> ZeroCluster, salt |-> <<NoFile, 0>>]]
  /\ disk = [fat |-> fat, fst |-> fst]
  /\ handles = [h \in Handles |-> NewHandle]
  /\ cache = [handle |-> None, chain |-> 0, forWrite |-> FALSE, data |-> Empty]
  /\ logical = [f \in FileIdx |-> <<>>]
  /\ ub = FALSE

Next ==
  \/ OpenFs
  \/ \E f \in FileIdx, m \in OpenModes : OpenFile(f, m)
  \/ \E h \in Handles, n \in ReadCounts : ReadFile(h, n)
  \/ \E h \in Handles, v \in Vals, n \in WriteCounts : WriteFile(h, v, n)
  \/ \E h \in Handles, o \in 0 .. MaxFileSize : SeekFile(h, "Set", o)
  \/ \E h \in Handles, o \in SeekOffsets, m \in {"Current", "End"} : SeekFile(h, m, o)
  \/ \E h \in Handles : Close(h)
  \/ Format
  \/ CreateFile
  \/ \E f \in FileIdx : Delete(f)

Spec == Init /\ [][Next]_vars

-----------------------------------------------------------------------------
(* Invariants.                                                             *)

TypeOK ==
  /\ fat \in [Clusters -> Clusters \cup {LAST, UNUSED}]
  /\ fst \in [FileIdx -> [isFile : BOOLEAN, sub : Clusters \cup {LAST},
                          size : 0 .. MaxFileSize]]
  /\ nand \in [Clusters -> [data : [0 .. CS - 1 -> Bytes],
                            salt : (FileIdx \cup {NoFile}) \X Nat]]
  /\ handles \in [Handles -> [opened : BOOLEAN, fst : FileIdx \cup {NoFile},
                              mode : SUBSET {"R", "W"},
                              offset : 0 .. WordSize - 1,
                              size : 0 .. MaxFileSize, flush : BOOLEAN]]
  /\ cache \in [handle : Handles \cup {None}, chain : Nat, forWrite : BOOLEAN,
                data : [0 .. CS - 1 -> Bytes] \cup {Empty}]
  /\ ub \in BOOLEAN

\* The files of the in-memory superblock and their chains.
LiveFiles == {f \in FileIdx : fst[f].isFile}
ChainOf(f) == Chain(fat, fst[f])

(* No cluster aliasing (copy-on-write allocator, WriteFileData and        *)
(* DeleteFile): every chain is acyclic, no cluster is in two chains, and  *)
(* the clusters the FAT marks in use are exactly those of the chains, so  *)
(* no cluster leaks and none is both free and chained.                    *)
NoClusterAliasing ==
  /\ \A f \in LiveFiles : Len(ChainOf(f)) <= NumClusters
  /\ \A f, g \in LiveFiles : f # g => Range(ChainOf(f)) \cap Range(ChainOf(g)) = {}
  /\ UNION {Range(ChainOf(f)) : f \in LiveFiles} = {c \in Clusters : fat[c] # UNUSED}

(* Every cluster a live chain reaches carries the HMAC salt of its file   *)
(* and chain position, so ReadFileData never fails verification on data  *)
(* the driver itself wrote: WriteFileData salts with the position it      *)
(* splices the cluster into.                                              *)
ChainsVerify ==
  \A f \in LiveFiles : \A k \in 1 .. Len(ChainOf(f)) :
    nand[ChainOf(f)[k]].salt = <<f, k - 1>>

\* The clusters reachable from the live entries of an FST through a FAT.
Chained(fatf, fstf) ==
  UNION {Range(Chain(fatf, fstf[f])) : f \in {x \in FileIdx : fstf[x].isFile}}

(* Copy-on-write (spec 8.8, WriteFileData): a chain position of a file    *)
(* that holds the same cluster before and after a step holds the same     *)
(* contents, so rewriting a position always moves it to a fresh cluster.  *)
(* One WriteFile may free a cluster (its cache miss flushes another       *)
(* handle's cluster) and reuse it for its own, so the property is stated  *)
(* per file and position, not per cluster.                               *)
CopyOnWrite ==
  [][\A f \in LiveFiles \cap LiveFiles' :
       LET before == ChainOf(f)  after == ChainOf(f)'
       IN \A k \in 1 .. Min({Len(before), Len(after)}) :
            before[k] = after[k] => nand'[before[k]] = nand[before[k]]]_vars

-----------------------------------------------------------------------------
(* Properties the code does not have; each is checked in a violation run. *)

\* The bytes of an entry's data as its chain holds them (None past the chain).
ContentOf(fatf, e) ==
  LET ch == Chain(fatf, e)
  IN [i \in 1 .. e.size |-> IF (i - 1) \div CS < Len(ch)
                             THEN nand[ch[(i - 1) \div CS + 1]].data[(i - 1) % CS]
                             ELSE None]

(* Round trip (spec 8.1): once no handle has a file open, its chain holds *)
(* every byte WriteFile accepted for it.  PopulateFileCache returns on a  *)
(* hit without upgrading m_cache_for_write, so a WriteFile into the       *)
(* cluster a ReadFile just cached is never flushed.                       *)
WritesSurviveClose ==
  \A f \in LiveFiles : ~IsFileOpened(St, f) => ContentOf(fat, fst[f]) = logical[f]

(* A dirty cluster can always be written back (spec 4.7 and 8.1), short  *)
(* of running out of clusters.  WriteFileData refuses a new size that is  *)
(* not larger than the entry's, so rewriting bytes without growing the    *)
(* file leaves a cluster that FlushFileCache can never write: the flush,  *)
(* and so every Close of the owner, fails from then on.                   *)
DirtyClusterWritable ==
  (cache.handle # None /\ cache.forWrite /\ cache.data # Empty)
    => FlushFileCache(St).rc \in {"Success", "NoFreeSpace"}

(* Spec 4.8 (copy-on-write order): the old chain stays live until the   *)
(* superblock is flushed, so the superblock last written to NAND, which   *)
(* is what a driver constructed after a crash would load, chains only     *)
(* clusters that still verify at their position.  WriteFileData frees the *)
(* old cluster in memory only, and the first-free allocation of a later   *)
(* WriteFileData before the next FlushSuperblock can hand it out again.   *)
PersistedChainsVerify ==
  \A f \in FileIdx : disk.fst[f].isFile =>
    LET ch == Chain(disk.fat, disk.fst[f])
    IN \A k \in 1 .. Len(ch) : nand[ch[k]].salt = <<f, k - 1>>

(* No call executes undefined behaviour.  A failed fill leaves the slot   *)
(* bound with the data it had, which Close has cleared; the next call at  *)
(* that offset hits the slot and copies from the empty vector.            *)
NoUndefinedBehaviour == ~ub

=============================================================================
