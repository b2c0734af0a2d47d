--------------------------- MODULE SuperblockRing ---------------------------
(***************************************************************************)
(* The superblock manager of the wiifs driver (src/source/driver/          *)
(* low_level.cpp GetSuperblock, FlushSuperblock; fs.cpp the constructor    *)
(* and Format): NumReplicas replicas of ClustersPerSb clusters in a ring,  *)
(* written one cluster at a time, the HMAC of a replica stored with its    *)
(* last cluster, and the version-wrap fix-up.                              *)
(*                                                                         *)
(* Abstractions.                                                           *)
(*  - The contents of the superblock are a function from its clusters to  *)
(*    Vals: an operation that changes the FAT or FST changes the slice of  *)
(*    one cluster.  A cluster never written holds Blank (zeros), so a      *)
(*    replica has the SFFS magic iff its cluster 0 was written.           *)
(*  - The version lives in cluster 0.  An HMAC is modelled by what it was  *)
(*    computed over: the version, the contents and the replica index that *)
(*    GenerateHmacForSuperblock puts in the salt.                          *)
(*  - WriteCluster never fails for a superblock cluster (all are below     *)
(*    0x8000), so FlushSuperblock's loop over 16 attempts always succeeds  *)
(*    at the first; what can interrupt a flush is the program stopping    *)
(*    (Crash) between two cluster writes.                                  *)
(*  - The u32 version is taken modulo VersionMod.                          *)
(***************************************************************************)
EXTENDS Naturals, FiniteSets, FiniteSetsExt

CONSTANTS
  NumReplicas,     \* NUMBER_OF_SUPERBLOCKS (16)
  ClustersPerSb,   \* CLUSTERS_PER_SUPERBLOCK (16)
  VersionMod,      \* 2^32: the modulus of the u32 version
  Vals,            \* contents of one cluster's slice of the superblock
  FormatVal,       \* the contents Format installs
  Blank,           \* a cluster never written
  None,            \* an empty m_superblock / no flush in progress
  MaxCrashes       \* bound on the crashes in a behaviour

Reps == 0 .. NumReplicas - 1
Cl   == 0 .. ClustersPerSb - 1
Last == ClustersPerSb - 1          \* the cluster that carries the HMAC

ASSUME /\ NumReplicas \in Nat \ {0} /\ ClustersPerSb \in Nat \ {0}
       /\ VersionMod > NumReplicas
       /\ FormatVal \in [Cl -> Vals] /\ Blank \notin Vals
       /\ MaxCrashes \in Nat

VARIABLES
  replica,    \* per replica: version (cluster 0), contents, HMAC (cluster 15)
  mem,        \* m_superblock: None or [ver, val]
  index,      \* m_superblock_index
  flush,      \* the flush in progress: next cluster, extra flushes left
  verified,   \* ghost: the superblock in memory was verified or formatted
  crashes,    \* ghost: crashes so far
  preCall     \* ghost: what the NAND held, and whether it verified,
              \* when the last flush started

vars == <<replica, mem, index, flush, verified, crashes, preCall>>

Image == [Cl -> Vals \cup {Blank}]

-----------------------------------------------------------------------------
(* GetSuperblock's scan.                                                   *)

\* ReadSuperblock(i)->magic == SUPERBLOCK_MAGIC
Magic(i) == replica[i].part[0] # Blank
Cands    == {i \in Reps : Magic(i)}
\* The highest version; among equal versions the later index wins (`<`).
TopVersion == Max({replica[i].ver : i \in Cands})
Winner     == Max({i \in Cands : replica[i].ver = TopVersion})

\* Mutant: the salt's starting cluster is left zero.
HmacFor_NoIndex(m, i) == [ver |-> m.ver, val |-> m.val, idx |-> 0]

\* GenerateHmacForSuperblock: over the salt (the replica's first cluster)
\* and the whole superblock, version included.
HmacFor(m, i) == [ver |-> m.ver, val |-> m.val, idx |-> i]

\* The HMAC read from cluster 15 matches the replica as read.
Verifies(i) ==
  replica[i].hmac = HmacFor([ver |-> replica[i].ver, val |-> replica[i].part], i)

(* GetSuperblock on a driver with no superblock in memory: the winner is  *)
(* stored in m_superblock and m_superblock_index before it is verified;  *)
(* a failed verification returns nullptr but leaves them set.             *)
Load ==
  IF Cands = {} THEN [mem |-> None, index |-> 0, ok |-> FALSE]
  ELSE [mem   |-> [ver |-> replica[Winner].ver, val |-> replica[Winner].part],
        index |-> Winner,
        ok    |-> Verifies(Winner)]

\* The superblock a load would pick now, and whether it would verify.
OnNand == [img   |-> IF Cands = {} THEN None ELSE replica[Winner].part,
           valid |-> Cands # {} /\ Verifies(Winner)]

-----------------------------------------------------------------------------
(* FlushSuperblock.                                                        *)

\* Mutant: the version is kept in a type wider than u32.
VersionAfter_Wide(v) == v + 1
\* m_superblock->version + 1 in u32.
VersionAfter(v) == (v + 1) % VersionMod

\* Mutant: one extra version too few.
ExtraVersions_Short == NumReplicas - 2
\* The 15 extra versions written after the version wraps to 0.
ExtraVersions == NumReplicas - 1

(* The start of FlushSuperblock with memory m: the version is incremented *)
(* and write_block moves to the next replica of the ring.                 *)
StartFlush(m, i) ==
  /\ mem'   = [m EXCEPT !.ver = VersionAfter(@)]
  /\ index' = (i + 1) % NumReplicas
  /\ flush' = [cl |-> 0, extra |-> 0]

WriteCluster ==
  LET j == flush.cl
      n == IF mem.ver = 0 THEN ExtraVersions ELSE flush.extra
  IN /\ flush # None
     /\ replica' = [replica EXCEPT ![index] =
                      [@ EXCEPT !.part[j] = mem.val[j],
                                !.ver  = IF j = 0 THEN mem.ver ELSE @,
                                !.hmac = IF j = Last THEN HmacFor(mem, index) ELSE @]]
     /\ IF j < Last THEN flush' = [flush EXCEPT !.cl = j + 1] /\ UNCHANGED <<mem, index>>
        ELSE IF n = 0 THEN flush' = None /\ UNCHANGED <<mem, index>>
        ELSE /\ mem' = [mem EXCEPT !.ver = VersionAfter(@)]
             /\ index' = (index + 1) % NumReplicas
             /\ flush' = [cl |-> 0, extra |-> n - 1]
     /\ UNCHANGED <<verified, crashes, preCall>>

-----------------------------------------------------------------------------
(* Operations.  Between two calls no flush is in progress.                 *)

(* An operation that changes cluster c's slice of the superblock to x and *)
(* flushes (CreateFileOrDirectory, Delete, Rename, SetMetadata, Close).    *)
(* It runs on whatever m_superblock holds, verified or not.               *)
Commit(c, x) ==
  /\ flush = None /\ mem # None
  /\ StartFlush([mem EXCEPT !.val[c] = x], index)
  /\ preCall' = OnNand
  /\ UNCHANGED <<replica, verified, crashes>>

(* Mutant: Format always starts from a fresh superblock of version 0.     *)
Format_Fresh ==
  LET l == IF mem # None THEN [mem |-> mem, index |-> index, ok |-> TRUE] ELSE Load
  IN /\ flush = None
     /\ StartFlush([ver |-> 0, val |-> FormatVal], l.index)
     /\ verified' = TRUE
     /\ preCall' = OnNand
     /\ UNCHANGED <<replica, crashes>>

(* Format: if GetSuperblock returns nullptr a zeroed superblock (version  *)
(* 0) replaces m_superblock; FAT and FST are reset; flush.                *)
Format ==
  LET l   == IF mem # None THEN [mem |-> mem, index |-> index, ok |-> TRUE] ELSE Load
      ver == IF l.ok THEN l.mem.ver ELSE 0
  IN /\ flush = None
     /\ StartFlush([ver |-> ver, val |-> FormatVal], l.index)
     /\ verified' = TRUE
     /\ preCall' = OnNand
     /\ UNCHANGED <<replica, crashes>>

(* The driver object is destroyed between two calls and a new one is      *)
(* constructed on the NAND; the constructor calls GetSuperblock.          *)
Restart ==
  /\ flush = None
  /\ mem' = Load.mem /\ index' = Load.index /\ verified' = Load.ok
  /\ UNCHANGED <<replica, flush, crashes, preCall>>

\* The program stops between two cluster writes of a flush; then Restart.
Crash ==
  /\ flush # None /\ crashes < MaxCrashes
  /\ mem' = Load.mem /\ index' = Load.index /\ verified' = Load.ok
  /\ flush' = None /\ crashes' = crashes + 1
  /\ UNCHANGED <<replica, preCall>>

-----------------------------------------------------------------------------
\* A NAND never written, and a driver constructed on it.
Init ==
  /\ replica = [i \in Reps |-> [ver |-> 0, part |-> [c \in Cl |-> Blank], hmac |-> None]]
  /\ mem = None /\ index = 0 /\ flush = None /\ verified = FALSE
  /\ crashes = 0 /\ preCall = OnNand

Next ==
  \/ WriteCluster
  \/ \E c \in Cl, x \in Vals : Commit(c, x)
  \/ Format
  \/ Restart
  \/ Crash

\* write_block's loop runs to its end without waiting on anything.
Spec == Init /\ [][Next]_vars /\ WF_vars(WriteCluster)

-----------------------------------------------------------------------------
TypeOK ==
  /\ replica \in [Reps -> [ver : 0 .. VersionMod - 1, part : Image,
                           hmac : {None} \cup [ver : 0 .. VersionMod - 1,
                                               val : Image, idx : Reps]]]
  /\ mem \in {None} \cup [ver : 0 .. VersionMod - 1, val : Image]
  /\ index \in Reps
  /\ flush \in {None} \cup [cl : Cl, extra : 0 .. NumReplicas - 1]
  /\ verified \in BOOLEAN /\ crashes \in 0 .. MaxCrashes
  /\ preCall \in [img : {None} \cup Image, valid : BOOLEAN]

(* Between two calls, a driver constructed on the NAND now would load     *)
(* exactly the superblock in memory, and it would verify (spec 8.4): the  *)
(* ring index, the version and the extra flushes after a wrap keep the    *)
(* newest replica the one GetSuperblock picks.                            *)
RemountLoadsMemory ==
  (flush = None /\ mem # None /\ verified) =>
    /\ Cands # {} /\ Winner = index /\ Verifies(Winner)
    /\ replica[Winner].ver = mem.ver /\ replica[Winner].part = mem.val

(* The superblock manager implements the store of SuperblockStore: from *)
(* the start of a flush the NAND holds its contents; when no flush is in  *)
(* progress it holds what GetSuperblock would load now.                   *)
Store == INSTANCE SuperblockStore WITH
  Images <- Image, FormatImage <- FormatVal,
  sb        <- IF mem = None THEN None ELSE mem.val,
  persisted <- IF flush # None THEN mem.val ELSE OnNand.img,
  valid     <- flush # None \/ OnNand.valid,
  ok        <- verified,
  prev      <- preCall,
  inFlight  <- flush # None

(* FlushSuperblock refines the store: every flush makes the memory the    *)
(* persisted superblock, construction loads it and verifies it, and a     *)
(* crash between two cluster writes brings back the superblock from       *)
(* before the flush, the flush's own, or one that fails verification,     *)
(* never an older one that verifies, across the version wrap and its      *)
(* extra flushes included.                                                *)
StoreRefinement == Store!Spec

-----------------------------------------------------------------------------
(* Properties the code does not have; each is checked in a violation run. *)

(* Spec 3 and 4.5: every call works on the authoritative superblock, the *)
(* newest replica that verifies; a failed verification returns no         *)
(* superblock.  GetSuperblock verifies only the newest replica, so a      *)
(* crash that tears it leaves the load failing although an older replica  *)
(* verifies, and it keeps the torn candidate in m_superblock, so the next *)
(* call that changes the superblock runs on it and flushes it.            *)
CallsUseVerified ==
  [][\A c \in Cl, x \in Vals : Commit(c, x) => verified]_vars
=============================================================================
