-------------------------------- MODULE Fst ---------------------------------
(***************************************************************************)
(* The file system tree of the wiifs driver: the FST entries linked by     *)
(* `sub' (first child) and `sib' (next sibling), the lookups over them     *)
(* (low_level.cpp) and the handlers that change them (fs.cpp, file.cpp).   *)
(* A file's sub, the head of its FAT chain (FileIO), is End here unless a  *)
(* handler links an FST entry there.  Names are model values; StoredName  *)
(* is the first 12 bytes SetName keeps.  A file's data is the name its     *)
(* clusters' HMAC salt was made with (`signed').  Every caller is root, so *)
(* HasPermission grants; FlushSuperblock (SuperblockRing) leaves `fst' as  *)
(* it is.  A walk is a RECURSIVE operator given Fuel steps, more than any  *)
(* walk of an acyclic graph of N entries takes; out of fuel, it is one the *)
(* code never ends (`hang').                                               *)
(***************************************************************************)
EXTENDS Naturals, SequencesExt, FiniteSetsExt

CONSTANTS
  N,           \* fst.size() (0x17ff)
  Names,       \* the path components callers pass
  StoredName,  \* [Names -> Names \cup ...]: the first 12 bytes of a name
  Handles,     \* m_handles indices (0 .. 15)
  NoFile,      \* a handle that is not opened
  None,        \* a file with no data clusters
  MaxDepth,    \* longest path, in components
  RenameDirs,  \* whether callers rename directories
  FileParents  \* whether callers pass paths whose parent is a file

Idx  == 0 .. N - 1
End  == N                                       \* 0xffff, CLUSTER_LAST_IN_CHAIN
Long == {n \in Names : StoredName[n] # n}       \* more than 12 bytes
\* A name over 12 bytes never resolves, so callers pass one only as the
\* name of a new entry in the root.
Paths == UNION {[1 .. k -> Names \ Long] : k \in 1 .. MaxDepth}
NewPaths == Paths \cup {<<n>> : n \in Long}
Fuel == 2 ^ N

ASSUME /\ N \in Nat \ {0} /\ MaxDepth \in Nat \ {0}
       /\ Handles \subseteq Nat /\ {RenameDirs, FileParents} \subseteq BOOLEAN

VARIABLES
  fst,       \* superblock->fst: [mode, name, sub, sib] per entry
  handles,   \* per handle: NoFile, or the fst_index of the opened file
  signed,    \* per entry: the name its data clusters were signed with
  hang,      \* ghost: a call entered a walk that never ends
  ub,        \* ghost: a call read past the end of fst
  rc         \* ghost: the ResultCode the last Create, Delete or Rename returned

vars == <<fst, handles, signed, hang, ub, rc>>

\* FstEntry{} after Format's fill; the root Format installs.
ZeroEntry == [mode |-> 0, name |-> "", sub |-> 0, sib |-> 0]
RootEntry == [mode |-> 2, name |-> "/", sub |-> End, sib |-> End]
FormatFst == [i \in Idx |-> IF i = 0 THEN RootEntry ELSE ZeroEntry]

IsFile(f, i)      == f[i].mode = 1
IsDirectory(f, i) == f[i].mode = 2

\* Mutant: SetName keeps the whole name.
SetName_Full(n) == n
\* FstEntry::SetName: the first 12 bytes.
SetName(n) == StoredName[n]

Opened == {handles[h] : h \in Handles} \ {NoFile}

-----------------------------------------------------------------------------
(* Lookups.  A result is a record [rc, idx].                               *)

RECURSIVE FindInChain(_, _, _, _)
FindInChain(f, i, name, fuel) ==
  IF fuel = 0 THEN [rc |-> "Hang", idx |-> i]
  ELSE IF f[i].name = name THEN [rc |-> "Success", idx |-> i]
  ELSE IF f[i].sib >= N THEN [rc |-> "NotFound", idx |-> i]
  ELSE FindInChain(f, f[i].sib, name, fuel - 1)

\* GetFstIndex(superblock, parent, file_name): the sib chain from sub,
\* whatever the parent's mode.
Lookup(f, p, name) ==
  IF name \in Long \/ f[p].sub >= N THEN [rc |-> "NotFound", idx |-> p]
  ELSE FindInChain(f, f[p].sub, name, Fuel)

RECURSIVE ResolveFrom(_, _, _)
ResolveFrom(f, i, path) ==
  IF path = <<>> THEN [rc |-> "Success", idx |-> i]
  ELSE LET r == Lookup(f, i, Head(path))
       IN IF r.rc = "Success" THEN ResolveFrom(f, r.idx, Tail(path)) ELSE r

\* GetFstIndex(superblock, path), components from the root.
GetFstIndex(f, path) == ResolveFrom(f, 0, path)

\* GetUnusedFstIndex: the first entry whose mode & 3 is 0.
Unused(f) == {i \in Idx : f[i].mode = 0}

-----------------------------------------------------------------------------
(* Walks of a directory's subtree, as a stack of chain cursors: a child    *)
(* directory's chain is walked before its next sibling, as the recursion   *)
(* of the code does.                                                       *)

RECURSIVE InUseWalk(_, _, _, _)
InUseWalk(f, todo, open, fuel) ==
  IF todo = <<>> THEN [rc |-> "Success", v |-> FALSE]
  ELSE IF fuel = 0 THEN [rc |-> "Hang", v |-> FALSE]
  ELSE LET c == Head(todo) IN
    IF c >= N THEN InUseWalk(f, Tail(todo), open, fuel)
    ELSE IF IsFile(f, c)
         THEN IF c \in open THEN [rc |-> "Success", v |-> TRUE]
              ELSE InUseWalk(f, <<f[c].sib>> \o Tail(todo), open, fuel - 1)
    ELSE InUseWalk(f, <<f[c].sub, f[c].sib>> \o Tail(todo), open, fuel - 1)

\* Mutant: only the files directly in the directory are looked at.
IsDirectoryInUse_Shallow(f, d, open) ==
  InUseWalk([i \in Idx |-> IF IsFile(f, i) THEN f[i] ELSE [f[i] EXCEPT !.sub = End]],
            <<f[d].sub>>, open, Fuel)

\* IsDirectoryInUse: an opened file anywhere below d; anything that is not
\* a file is walked as a directory.
IsDirectoryInUse(f, d, open) == InUseWalk(f, <<f[d].sub>>, open, Fuel)

\* DeleteFile: the FAT chain is freed (FileIO) and the mode cleared.
DeleteFile(f, i) == [f EXCEPT ![i].mode = 0]

RECURSIVE DeleteWalk(_, _, _)
DeleteWalk(f, todo, fuel) ==
  IF todo = <<>> THEN [rc |-> "Success", f |-> f]
  ELSE IF fuel = 0 THEN [rc |-> "Hang", f |-> f]
  ELSE LET c == Head(todo) IN
    IF c >= N THEN DeleteWalk(f, Tail(todo), fuel)
    ELSE IF IsDirectory(f, c)
         THEN DeleteWalk(f, <<f[c].sub, f[c].sib>> \o Tail(todo), fuel - 1)
    ELSE DeleteWalk(DeleteFile(f, c), <<f[c].sib>> \o Tail(todo), fuel - 1)

\* Mutant: the directory's own files are deleted, its subdirectories skipped.
DeleteDirectoryContents_Shallow(f, d) ==
  DeleteWalk([i \in Idx |-> IF IsDirectory(f, i) /\ i # d THEN [f[i] EXCEPT !.sub = End] ELSE f[i]],
             <<f[d].sub>>, Fuel)

\* DeleteDirectoryContents: every file below d is deleted; directories are
\* walked and left as they are.
DeleteDirectoryContents(f, d) == DeleteWalk(f, <<f[d].sub>>, Fuel)

RECURSIVE RemoveWalk(_, _, _, _, _)
RemoveWalk(f, prev, i, child, fuel) ==
  IF i >= N THEN [rc |-> "NotFound", f |-> f]
  ELSE IF fuel = 0 THEN [rc |-> "Hang", f |-> f]
  ELSE IF i = child
       THEN [rc |-> "Success", f |-> [f EXCEPT ![prev].sib = f[child].sib, ![child].mode = 0]]
  ELSE RemoveWalk(f, i, f[i].sib, child, fuel - 1)

\* The non-head case: `previous' starts at parent.sub, 0xffff (read out of
\* bounds) when the chain is empty.
RemoveFromTail(f, parent, child) ==
  IF f[parent].sub >= N THEN [rc |-> "UB", f |-> f]
  ELSE RemoveWalk(f, f[parent].sub, f[f[parent].sub].sib, child, Fuel)

\* Mutant: the head case clears the mode but does not unlink the entry.
RemoveFstEntryFromChain_NoRelink(f, parent, child) ==
  IF f[parent].sub = child THEN [rc |-> "Success", f |-> [f EXCEPT ![child].mode = 0]]
  ELSE RemoveFromTail(f, parent, child)

\* RemoveFstEntryFromChain: unlink child from parent's chain, clear its mode.
RemoveFstEntryFromChain(f, parent, child) ==
  IF f[parent].sub = child
  THEN [rc |-> "Success", f |-> [f EXCEPT ![parent].sub = f[child].sib, ![child].mode = 0]]
  ELSE RemoveFromTail(f, parent, child)

\* The deletion Delete and Rename do to an entry before unlinking it.
DeleteEntry(f, t, open) ==
  LET u == IsDirectoryInUse(f, t, open) IN
  IF IsDirectory(f, t) /\ u.rc = "Hang" THEN [rc |-> "Hang", f |-> f]
  ELSE IF IsDirectory(f, t) /\ ~u.v THEN DeleteDirectoryContents(f, t)
  ELSE IF IsFile(f, t) /\ t \notin open THEN [rc |-> "Success", f |-> DeleteFile(f, t)]
  ELSE [rc |-> "InUse", f |-> f]

\* CountDirectoryRecursively's inode count over the chains on `todo': one
\* per file, and one per anything else, whose chain is then counted too.
\* The cluster count sums file sizes, which this module leaves to FileIO.
RECURSIVE StatsWalk(_, _, _, _)
StatsWalk(f, todo, inodes, fuel) ==
  IF todo = <<>> THEN [rc |-> "Success", inodes |-> inodes]
  ELSE IF fuel = 0 THEN [rc |-> "Hang", inodes |-> inodes]
  ELSE LET c == Head(todo) IN
    IF c >= N THEN StatsWalk(f, Tail(todo), inodes, fuel)
    ELSE IF IsFile(f, c) THEN StatsWalk(f, <<f[c].sib>> \o Tail(todo), inodes + 1, fuel - 1)
    ELSE StatsWalk(f, <<f[c].sub, f[c].sib>> \o Tail(todo), inodes + 1, fuel - 1)

\* One inode for the directory itself, then its subtree.
CountDirectoryRecursively(f, d) == StatsWalk(f, <<f[d].sub>>, 1, Fuel)

GetDirectoryStats(f, path) ==
  LET r == GetFstIndex(f, path) IN
  IF r.rc # "Success" THEN [rc |-> "NotFound", inodes |-> 0]
  ELSE IF ~IsDirectory(f, r.idx) THEN [rc |-> "Invalid", inodes |-> 0]
  ELSE CountDirectoryRecursively(f, r.idx)

\* GetNandStats' used_inodes: the entries whose mode & 3 is not 0.
UsedInodes(f) == Cardinality({i \in Idx : f[i].mode # 0})

-----------------------------------------------------------------------------
(* Handlers on the FST, each returning [rc, f].  A failing one returns the *)
(* FST as it stood at its early return.                                    *)

Fail(f, code) == [rc |-> code, f |-> f]

CreateFileOrDirectory(f, path, isFile) ==
  LET p == GetFstIndex(f, Front(path))
      e == Lookup(f, p.idx, Last(path))
      c == Min(Unused(f))
      \* child's fields in the order the code sets them
      f1 == [f EXCEPT ![c] = [mode |-> IF isFile THEN 1 ELSE 2,
                              name |-> SetName(Last(path)), sub |-> End, sib |-> f[c].sib]]
      f2 == [f1 EXCEPT ![c].sib = f1[p.idx].sub]
  IN IF p.rc # "Success" THEN Fail(f, p.rc)
     ELSE IF e.rc = "Hang" THEN Fail(f, "Hang")
     ELSE IF e.rc = "Success" THEN Fail(f, "AlreadyExists")
     ELSE IF Unused(f) = {} THEN Fail(f, "FstFull")
     ELSE [rc |-> "Success", f |-> [f2 EXCEPT ![p.idx].sub = c]]

DeletePath(f, path, open) ==
  LET p == GetFstIndex(f, Front(path))
      x == Lookup(f, p.idx, Last(path))
      d == DeleteEntry(f, x.idx, open)
  IN IF p.rc # "Success" THEN Fail(f, p.rc)
     ELSE IF x.rc # "Success" THEN Fail(f, x.rc)
     ELSE IF d.rc # "Success" THEN d
     ELSE RemoveFstEntryFromChain(d.f, p.idx, x.idx)

\* Mutant: the target is deleted before its kind is compared.
ReplaceTarget_DeleteFirst(f, np, t, i, open) ==
  LET d == DeleteEntry(f, t, open) IN
  IF d.rc # "Success" THEN d
  ELSE IF f[t].mode # f[i].mode \/ t = i THEN Fail(d.f, "Invalid")
  ELSE RemoveFstEntryFromChain(d.f, np, t)

\* An entry of the same kind at the new path is deleted and unlinked.
ReplaceTarget(f, np, t, i, open) ==
  LET d == DeleteEntry(f, t, open) IN
  IF f[t].mode # f[i].mode \/ t = i THEN Fail(f, "Invalid")
  ELSE IF d.rc # "Success" THEN d
  ELSE RemoveFstEntryFromChain(d.f, np, t)

\* The entry is unlinked, its mode restored, renamed and prepended to the
\* new parent's chain.
MoveEntry(f, op, np, i, name) ==
  LET r  == RemoveFstEntryFromChain(f, op, i)
      f1 == [r.f EXCEPT ![i].mode = f[i].mode, ![i].name = SetName(name)]
      f2 == [f1 EXCEPT ![i].sib = f1[np].sub]
  IN IF r.rc # "Success" THEN r
     ELSE [rc |-> "Success", f |-> [f2 EXCEPT ![np].sub = i]]

RenamePath(f, old, new, open) ==
  LET op == GetFstIndex(f, Front(old))
      np == GetFstIndex(f, Front(new))
      x  == Lookup(f, op.idx, Last(old))
      i  == x.idx
      u  == IF IsDirectory(f, i) THEN IsDirectoryInUse(f, i, open)
            ELSE [rc |-> "Success", v |-> IsFile(f, i) /\ i \in open]
      y  == Lookup(f, np.idx, Last(new))
      g  == IF y.rc = "Success" THEN ReplaceTarget(f, np.idx, y.idx, i, open)
            ELSE [rc |-> "Success", f |-> f]
  IN IF op.rc = "Hang" \/ np.rc = "Hang" THEN Fail(f, "Hang")
     ELSE IF op.rc # "Success" \/ np.rc # "Success" THEN Fail(f, "NotFound")
     ELSE IF x.rc # "Success" THEN Fail(f, x.rc)
     ELSE IF IsFile(f, i) /\ SetName(Last(old)) = SetName(Last(new)) THEN Fail(f, "Invalid")
     ELSE IF u.rc = "Hang" THEN Fail(f, "Hang")
     ELSE IF u.v THEN Fail(f, "InUse")
     ELSE IF y.rc = "Hang" THEN Fail(f, "Hang")
     ELSE IF g.rc # "Success" THEN g
     ELSE MoveEntry(g.f, op.idx, np.idx, i, Last(new))

-----------------------------------------------------------------------------
(* Actions.  A call that hangs or reads out of bounds ends the program.    *)

Running == ~hang /\ ~ub

Apply(r) ==
  /\ fst' = r.f
  /\ hang' = (r.rc = "Hang")
  /\ ub' = (r.rc = "UB")
  /\ rc' = r.rc

\* Callers name a directory as parent unless FileParents; the code never
\* checks the parent's mode.
ParentAllowed(path) ==
  LET r == GetFstIndex(fst, Front(path)) IN
  FileParents \/ r.rc # "Success" \/ ~IsFile(fst, r.idx)

CreateEntry(path, isFile) ==
  /\ Running /\ ParentAllowed(path)
  /\ Apply(CreateFileOrDirectory(fst, path, isFile))
  /\ signed' = IF CreateFileOrDirectory(fst, path, isFile).rc = "Success"
               THEN [signed EXCEPT ![Min(Unused(fst))] = None] ELSE signed
  /\ UNCHANGED handles

Delete(path) ==
  /\ Running
  /\ Apply(DeletePath(fst, path, Opened))
  /\ UNCHANGED <<handles, signed>>

\* Callers rename only files unless RenameDirs.
RenameAllowed(old) ==
  LET r == GetFstIndex(fst, old) IN
  RenameDirs \/ r.rc # "Success" \/ ~IsDirectory(fst, r.idx)

Rename(old, new) ==
  /\ Running /\ RenameAllowed(old) /\ ParentAllowed(new)
  /\ Apply(RenamePath(fst, old, new, Opened))
  /\ UNCHANGED <<handles, signed>>

\* OpenFile: resolve, require a file, then AssignFreeHandle (the first).
OpenFile(path) ==
  LET r == GetFstIndex(fst, path)
      free == {h \in Handles : handles[h] = NoFile}
  IN /\ Running
     /\ hang' = (r.rc = "Hang")
     /\ handles' = IF r.rc = "Success" /\ IsFile(fst, r.idx) /\ free # {}
                   THEN [handles EXCEPT ![Min(free)] = r.idx] ELSE handles
     /\ UNCHANGED <<fst, signed, ub, rc>>

Close(h) ==
  /\ Running /\ handles[h] # NoFile
  /\ handles' = [handles EXCEPT ![h] = NoFile]
  /\ UNCHANGED <<fst, signed, hang, ub, rc>>

\* A WriteFile on h whose cluster is flushed: WriteFileData signs the
\* cluster with a DataSalt holding the entry's name.
WriteData(h) ==
  /\ Running /\ handles[h] # NoFile
  /\ signed' = [signed EXCEPT ![handles[h]] = fst[handles[h]].name]
  /\ UNCHANGED <<fst, handles, hang, ub, rc>>

Format ==
  /\ Running
  /\ fst' = FormatFst
  /\ handles' = [h \in Handles |-> NoFile]
  /\ signed' = [i \in Idx |-> None]
  /\ rc' = "Success"
  /\ UNCHANGED <<hang, ub>>

Init ==
  /\ fst = FormatFst
  /\ handles = [h \in Handles |-> NoFile]
  /\ signed = [i \in Idx |-> None]
  /\ hang = FALSE /\ ub = FALSE /\ rc = "Success"

Next ==
  \/ \E path \in NewPaths, isFile \in BOOLEAN : CreateEntry(path, isFile)
  \/ \E path \in Paths : Delete(path)
  \/ \E old \in Paths, new \in NewPaths : Rename(old, new)
  \/ \E path \in Paths : OpenFile(path)
  \/ \E h \in Handles : Close(h) \/ WriteData(h)
  \/ Format

Spec == Init /\ [][Next]_vars

-----------------------------------------------------------------------------
(* The tree GetFstIndex walks: from the root along sub and sib links.      *)

RECURSIVE Closure(_, _)
Closure(Step(_), S) ==
  LET T == S \cup UNION {Step(i) : i \in S} IN IF T = S THEN S ELSE Closure(Step, T)

Reach(f) == LET Succ(i) == {f[i].sub, f[i].sib} \cap Idx IN Closure(Succ, {0})


(* Types; a stored name is at most 12 bytes, the prefix SetName keeps of   *)
(* a name a caller passed, whatever its length.                            *)
TypeOK ==
  /\ fst \in [Idx -> [mode : {0, 1, 2}, name : {StoredName[n] : n \in Names} \cup {"", "/"},
                      sub : 0 .. N, sib : 0 .. N]]
  /\ handles \in [Handles -> Idx \cup {NoFile}]
  /\ signed \in [Idx -> {StoredName[n] : n \in Names} \cup {None}]
  /\ hang \in BOOLEAN /\ ub \in BOOLEAN
  /\ rc \in {"Success", "NotFound", "AlreadyExists", "FstFull", "InUse", "Invalid", "Hang", "UB"}

(* The entries reachable from the root form a tree (spec: FST entries    *)
(* reference each other by index, entry 0 is root): every one but the     *)
(* root is linked exactly once, by a sub or a sib, and the root not at     *)
(* all.  Reachable free entries are allowed (spec: they have mode 0); a   *)
(* second link to one is what makes Create's LIFO insert close a loop.    *)
FstIsTree ==
  LET R == Reach(fst)
      InDegree(i) == Cardinality({j \in R : fst[j].sub = i})
                     + Cardinality({j \in R : fst[j].sib = i})
  IN /\ \A i \in R \ {0} : InDegree(i) = 1
     /\ InDegree(0) = 0

(* A file is only ever dropped from the tree by deleting it: every live   *)
(* file is reachable from the root.  Delete and Rename unlink an entry    *)
(* after DeleteFile or DeleteDirectoryContents has freed every file below *)
(* it, and Rename relinks what it unlinked.                                *)
FilesReachable == \A i \in Idx : IsFile(fst, i) => i \in Reach(fst)

(* An opened file, and a directory holding one, is never deleted or      *)
(* renamed (spec, invariants): every handle's entry stays a file that is  *)
(* reachable from the root.  It rests on IsDirectoryInUse walking the    *)
(* whole subtree and on Rename and Delete checking the replaced target.   *)
OpenFilesStayLive ==
  \A h \in Handles : handles[h] # NoFile =>
    IsFile(fst, handles[h]) /\ handles[h] \in Reach(fst)

(* Spec 8.5 (atomicity of metadata): a Create, Delete or Rename that     *)
(* returns an error leaves the FST as it found it, so no later flush      *)
(* persists a change its caller was told failed.  Delete and Rename change *)
(* the FST in several steps (the target's deletion, the unlink, the       *)
(* relink), so every check that can fail must come before the first.     *)
(* A call that never returns is NoHang's.                                 *)
FailedCallsChangeNothing ==
  [][rc' \notin {"Success", "Hang", "UB"} => fst' = fst]_vars

-----------------------------------------------------------------------------
(* Properties the code does not have; each is checked in a violation run. *)

(* The two inode counts the API reports agree: GetDirectoryStats("/")     *)
(* counts every inode GetNandStats counts as used, so deleting a          *)
(* directory frees its whole subtree.  DeleteDirectoryContents clears     *)
(* only files' modes; the subdirectories keep mode 2, unreachable, and    *)
(* GetNandStats counts them until Format.                                 *)
InodeStatsAgree ==
  LET r == GetDirectoryStats(fst, <<>>) IN r.rc = "Success" => r.inodes = UsedInodes(fst)

(* A file's data verifies: its clusters were signed with the name it has. *)
(* Rename changes the name, part of the data HMAC salt, without rewriting *)
(* the clusters.                                                           *)
DataVerifies ==
  \A i \in Idx : IsFile(fst, i) /\ signed[i] # None => signed[i] = fst[i].name

(* Every call returns: no walk of an FST chain goes round a cycle.        *)
NoHang == ~hang
=============================================================================
