------------------------------ MODULE MmapArea ------------------------------
(***************************************************************************)
(* struct mmapArea (mprofRecord.h) and the three functions on it           *)
(* (mprofRecord.c), together with what the kernel keeps for it: the file   *)
(* and the mapping.  All sizes are counted in records: every caller passes *)
(* a multiple of the record size.                                          *)
(*                                                                         *)
(* mmapSize is split into its system calls, because the threads that log   *)
(* read area.fileSize while another thread is in the middle of it.         *)
(***************************************************************************)
EXTENDS Integers

CONSTANT Empty             \* the all-zero record of a slot never written

VARIABLES
  area,                    \* the struct: descriptor open, fileSize, base set
  mapping,                 \* slots lo .. hi-1 of the file are mapped
  disk                     \* the file: its length and the record in each slot

Areas    == [fd : BOOLEAN, fileSize : Nat, base : BOOLEAN]
Mappings == [lo : Nat, hi : Nat]

\* MMAP_AREA_NULL, nothing mapped, no file yet.
AreaInit ==
  /\ area    = [fd |-> FALSE, fileSize |-> 0, base |-> FALSE]
  /\ mapping = [lo |-> 0, hi |-> 0]
  /\ disk    = [len |-> 0, at |-> [s \in 0 .. -1 |-> Empty]]

\* A store to slot s neither leaves the mapping nor the file behind it.
Reachable(s) == mapping.lo <= s /\ s < mapping.hi /\ s < disk.len

\* The file after ftruncate: cut off, or extended with zeroes.
TruncatedTo(n) ==
  [len |-> n,
   at  |-> [s \in 0 .. n-1 |-> IF s < disk.len THEN disk.at[s] ELSE Empty]]

\* The file after a store of record r through the mapping.
Written(s, r) == [len |-> disk.len, at |-> [disk.at EXCEPT ![s] = r]]

-----------------------------------------------------------------------------
(* mmapOpen( O_RDWR | O_TRUNC | O_CREAT ) and the first mmapSize, as the    *)
(* constructors call them: before any handler runs, so in one step.  mmap   *)
(* refuses a length of zero.                                                *)
OpenAndSize(n) ==
  /\ n > 0
  /\ area'    = [fd |-> TRUE, fileSize |-> n, base |-> TRUE]
  /\ mapping' = [lo |-> 0, hi |-> n]
  /\ disk'    = [len |-> n, at |-> [s \in 0 .. n-1 |-> Empty]]

\* mmapSize, first system call; it needs an open descriptor.
Ftruncate(n) ==
  /\ area.fd
  /\ disk' = TruncatedTo(n)
  /\ UNCHANGED <<area, mapping>>

\* mmapSize, second system call: without MREMAP_MAYMOVE, so base stays put.
\* It needs the old extent, fileSize, still mapped at base.
Mremap(n) ==
  /\ area.base /\ area.fileSize > 0 /\ mapping.lo = 0
  /\ mapping' = [mapping EXCEPT !.hi = n]
  /\ UNCHANGED <<area, disk>>

\* mmapSize, last assignment: only now do other threads see the new size.
SetFileSize(n) ==
  /\ area' = [area EXCEPT !.fileSize = n]
  /\ UNCHANGED <<mapping, disk>>

\* mmapClose: fileSize slots are unmapped; base keeps its stale value.
MmapClose ==
  /\ area'    = [area EXCEPT !.fd = FALSE, !.fileSize = 0]
  /\ mapping' = IF area.fileSize < mapping.hi
                THEN [mapping EXCEPT !.lo = area.fileSize]
                ELSE [lo |-> 0, hi |-> 0]
  /\ UNCHANGED disk
=============================================================================
