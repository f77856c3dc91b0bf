------------------------------ MODULE TmpAlloc ------------------------------
(***************************************************************************)
(* The temporary allocator of the bootstrap (TmpAlloc.c): a buffer handed  *)
(* out from the front and never taken back.  tmpRemaining is read for the  *)
(* test, read for the address and read and written for the subtraction,    *)
(* with nothing to keep a second thread out.                               *)
(***************************************************************************)
EXTENDS Naturals

CONSTANTS
  Threads,
  TmpSize,                 \* tmpSize, bytes in the buffer
  SizeMod                  \* size_t counts modulo SizeMod

ASSUME TmpAssumption ==
  TmpSize \in Nat /\ SizeMod \in Nat /\ TmpSize < SizeMod

VARIABLES
  tmpRemaining,
  want,                    \* in_size of the call each thread is in
  addr,                    \* offset of the block it is about to return
  cover,                   \* blocks handed out over each byte, 2 for more
  stray                    \* a block has reached past the buffer

Bytes == 0 .. TmpSize - 1

\* a - b on size_t.
Minus(a, b) == (SizeMod + a - b) % SizeMod

TmpInit ==
  /\ tmpRemaining = TmpSize
  /\ want  = [t \in Threads |-> 0]
  /\ addr  = [t \in Threads |-> 0]
  /\ cover = [b \in Bytes |-> 0]
  /\ stray = FALSE

\* The sizes a call can ask for; calloc multiplies and does not test for
\* overflow.
Products(sizes) == {(q * s) % SizeMod : q \in sizes, s \in sizes}

Requests(op, sizes) == IF op = "calloc" THEN Products(sizes) ELSE sizes

TmpRequest(t, n) ==
  /\ want' = [want EXCEPT ![t] = n]
  /\ UNCHANGED <<tmpRemaining, addr, cover, stray>>

\* A mutated test that forgets that the last byte is taken.
Fits_OffByOne(t) == want[t] <= tmpRemaining + 1

Fits(t) == want[t] <= tmpRemaining

\* ret = &tmpBuf[ tmpSize - tmpRemaining ]
TmpAddress(t) ==
  /\ addr' = [addr EXCEPT ![t] = Minus(TmpSize, tmpRemaining)]
  /\ UNCHANGED <<tmpRemaining, want, cover, stray>>

\* One more block over byte b.
Covered(b, t) ==
  IF addr[t] <= b /\ b < addr[t] + want[t] /\ cover[b] < 2
  THEN cover[b] + 1 ELSE cover[b]

\* tmpRemaining -= in_size, from what another thread may have changed since,
\* and the return of the block.
TmpSubtract(t) ==
  /\ \E r \in {tmpRemaining, Minus(TmpSize, addr[t])} :
       tmpRemaining' = Minus(r, want[t])
  /\ cover' = [b \in Bytes |-> Covered(b, t)]
  /\ stray' = (stray \/ addr[t] + want[t] > TmpSize)
  /\ UNCHANGED <<want, addr>>

-----------------------------------------------------------------------------
TmpTypeOK ==
  /\ tmpRemaining \in 0 .. SizeMod - 1
  /\ want \in [Threads -> 0 .. SizeMod - 1]
  /\ addr \in [Threads -> 0 .. SizeMod - 1]
  /\ cover \in [Bytes -> 0 .. 2]
  /\ stray \in BOOLEAN

\* The bytes handed out are the front of the buffer, each of them once.
FrontOnce ==
  /\ ~ stray /\ tmpRemaining <= TmpSize
  /\ \A b \in Bytes : cover[b] = IF b < TmpSize - tmpRemaining THEN 1 ELSE 0
=============================================================================
