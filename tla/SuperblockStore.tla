--------------------------- MODULE SuperblockStore ---------------------------
(***************************************************************************)
(* What the superblock manager promises its callers (spec sections 3, 4.5 *)
(* and 7): the driver holds a superblock in memory once it has loaded one, *)
(* every flush makes the in-memory superblock the one the NAND holds, and  *)
(* loading after a restart yields exactly what the last flush persisted    *)
(* and verifies it.  A flush takes time: the program may stop before it    *)
(* ends, and the NAND then holds the superblock from before the flush, the *)
(* flush's own, or a torn one that fails verification, never anything     *)
(* else that verifies.                                                     *)
(***************************************************************************)
CONSTANTS
  Images,       \* the superblock contents, torn ones included
  FormatImage,  \* the contents Format installs
  None          \* no superblock

VARIABLES
  sb,           \* the superblock in memory, or None before a load
  persisted,    \* the superblock the NAND holds, or None if it holds none
  valid,        \* the superblock the NAND holds verifies
  ok,           \* the superblock in memory was verified or formatted
  prev,         \* history: persisted and valid when the last flush started
  inFlight      \* a flush has started and not ended

svars == <<sb, persisted, valid, ok, prev, inFlight>>

Init == /\ sb = None /\ persisted = None /\ valid = FALSE /\ ok = FALSE
        /\ prev = [img |-> None, valid |-> FALSE] /\ inFlight = FALSE

\* The start of a flush of contents v: the NAND holds v from here on.
StartFlush(v) ==
  /\ ~inFlight
  /\ sb' = v /\ persisted' = v /\ valid' = TRUE /\ inFlight' = TRUE
  /\ prev' = [img |-> persisted, valid |-> valid]

\* An operation that changes the superblock in memory and flushes it.
Commit == sb # None /\ \E v \in Images : StartFlush(v) /\ UNCHANGED ok

Format == StartFlush(FormatImage) /\ ok' = TRUE

\* The flush in progress ends.
EndFlush == inFlight /\ inFlight' = FALSE /\ UNCHANGED <<sb, persisted, valid, ok, prev>>

(* The driver object is destroyed between two calls and a new one is      *)
(* constructed on the same NAND; construction loads what was persisted.   *)
Reopen == /\ ~inFlight
          /\ sb' = persisted /\ ok' = valid
          /\ UNCHANGED <<persisted, valid, prev, inFlight>>

(* The program stops during a flush and a new driver is constructed: the *)
(* NAND holds the flush's superblock, the one from before it, or a torn   *)
(* one that does not verify.                                              *)
Crash ==
  /\ inFlight /\ inFlight' = FALSE
  /\ \/ UNCHANGED <<persisted, valid>>
     \/ persisted' = prev.img /\ valid' = prev.valid
     \/ persisted' \in Images /\ valid' = FALSE
  /\ sb' = persisted' /\ ok' = valid'
  /\ UNCHANGED prev

Next == Commit \/ Format \/ EndFlush \/ Reopen \/ Crash

Spec == Init /\ [][Next]_svars
=============================================================================
