----------------------------- MODULE DmxBuffer -----------------------------
(***************************************************************************)
(* The live DMX buffer of one output and the ticket lock around it         *)
(* (seqlock.h, dmx_buffer.c).  One writer, the network task on core 0,     *)
(* brackets every store between two bumps of a ticket; the readers, the    *)
(* transmit task on core 1 and the web server task, copy the buffer cell   *)
(* by cell and compare the ticket before and after.  Every load and store  *)
(* of a shared cell is a step of its own.                                  *)
(***************************************************************************)
EXTENDS Integers

CONSTANTS
  Readers,     \* The tasks that call dmxBufSnapshot: dmxTx and httpd.
  LastSlot,    \* Cells are 0..LastSlot; cell 0 is the start code.
  Byte,        \* The values of a cell.
  SeqMod,      \* The ticket counts modulo SeqMod (2^32 in the code).
  MaxRetries,  \* Attempts of one snapshot (8 in the code).
  MaxLag,      \* Bound: brackets that may start while one attempt copies.
  TornMod,     \* The failure counter counts modulo TornMod (2^32 in the code).
  NoFrame      \* A caller without a snapshot; only the refinement uses it.

ASSUME SeqAssumption ==
  /\ SeqMod \in Nat /\ SeqMod % 2 = 0 /\ SeqMod >= 4
  /\ MaxLag \in Nat /\ 2 * MaxLag < SeqMod

ASSUME SizeAssumption ==
  /\ LastSlot \in Nat
  /\ 0 \in Byte
  /\ MaxRetries \in Nat \ {0}
  /\ TornMod \in Nat \ {0}

Cell == 0..LastSlot
Frame == [Cell -> Byte]
ZeroFrame == [c \in Cell |-> 0]

ASSUME NoFrameAssumption == NoFrame \notin Frame

VARIABLES
  seq,        \* The ticket: odd while a bracket is open.
  data,       \* The cells of the live buffer.
  writing,    \* The writer is between write_begin and write_end.
  todo,       \* Cells the open bracket has still to store.
  target,     \* The frame the buffer holds once the bracket is complete.
  frame,      \* History: the frame at the end of the last bracket.
  rpc,        \* rpc[r]: where r is inside dmxBufSnapshot.
  s1,         \* s1[r]: the ticket r read before copying.
  left,       \* left[r]: cells r has still to copy in this attempt.
  retry,      \* retry[r]: attempts that have failed.
  out,        \* out[r]: the caller's frame buffer.
  ret,        \* ret[r]: what the last call returned.
  tornSkips,  \* The shared counter of failed snapshots.
  loaded,     \* loaded[r]: the value r read to increment tornSkips.
  lag         \* lag[r]: brackets started since r read s1 (bounded history).

wvars == <<seq, data, writing, todo, target, frame>>
rvars == <<rpc, s1, left, retry, out, ret, tornSkips, loaded>>
vars == <<seq, data, writing, todo, target, frame,
          rpc, s1, left, retry, out, ret, tornSkips, loaded, lag>>

(***************************************************************************)
(* The ticket is a 32-bit word: it wraps from SeqMod - 1 to 0.             *)
(***************************************************************************)
\* Mutant: the brackets only set and clear the low bit.
NeverAdvances(x) == x
Increment(x) == IF x = SeqMod - 1 THEN 0 ELSE x + 1
SetLowBit(x) == IF x % 2 = 0 THEN x + 1 ELSE x
\* Mutant: the closing bump sets the low bit as the opening one does.
CloseOdd(x) == IF x % 2 = 0 THEN x + 1 ELSE x
ClearLowBit(x) == IF x % 2 = 1 THEN x - 1 ELSE x

Init ==
  /\ seq = 0 /\ data = ZeroFrame /\ frame = ZeroFrame
  /\ writing = FALSE /\ todo = {} /\ target = ZeroFrame
  /\ rpc = [r \in Readers |-> "idle"]
  /\ s1 = [r \in Readers |-> 0]
  /\ left = [r \in Readers |-> {}]
  /\ retry = [r \in Readers |-> 0]
  /\ out = [r \in Readers |-> ZeroFrame]
  /\ ret = [r \in Readers |-> "none"]
  /\ tornSkips = 0 /\ loaded = [r \in Readers |-> 0]
  /\ lag = [r \in Readers |-> 0]

-----------------------------------------------------------------------------
(***************************************************************************)
(* The writer.  The brackets of the firmware store the start code alone    *)
(* (frame_router.c), the slots alone (the merge commit and the zero loss   *)
(* mode), the whole frame (split mirror, ArtSync and sACN commits), or one *)
(* channel (dmxBufWriteEndSet).                                            *)
(***************************************************************************)
StartCode == {0}
AllSlots == 1..LastSlot

Brackets ==
  {StartCode, AllSlots, Cell} \cup {{c} : c \in AllSlots}

WriteBegin(cells, f) ==
  /\ ~writing
  /\ \A c \in Cell \ cells : f[c] = data[c]
  /\ \A r \in Readers : rpc[r] = "copy" => lag[r] < MaxLag
  /\ seq' = SetLowBit(Increment(seq))
  /\ writing' = TRUE
  /\ todo' = cells
  /\ target' = f
  /\ lag' = [r \in Readers |-> IF rpc[r] = "copy" THEN lag[r] + 1 ELSE lag[r]]
  /\ UNCHANGED <<data, frame, rpc, s1, left, retry, out, ret, tornSkips, loaded>>

Store(c) ==
  /\ writing
  /\ c \in todo
  /\ data' = [data EXCEPT ![c] = target[c]]
  /\ todo' = todo \ {c}
  /\ UNCHANGED <<seq, writing, target, frame, rpc, s1, left, retry, out, ret,
                 tornSkips, loaded, lag>>

WriteEnd ==
  /\ writing
  /\ todo = {}
  /\ seq' = ClearLowBit(Increment(seq))
  /\ writing' = FALSE
  /\ frame' = data
  /\ UNCHANGED <<data, todo, target, rpc, s1, left, retry, out, ret,
                 tornSkips, loaded, lag>>

Writer ==
  \/ \E cells \in Brackets, f \in Frame : WriteBegin(cells, f)
  \/ \E c \in Cell : Store(c)
  \/ WriteEnd

-----------------------------------------------------------------------------
(***************************************************************************)
(* A reader: dmxBufSnapshot with seqlock_snapshot inlined.                 *)
(***************************************************************************)
Call(r) ==
  /\ rpc[r] = "idle"
  /\ rpc' = [rpc EXCEPT ![r] = "ticket"]
  /\ retry' = [retry EXCEPT ![r] = 0]
  /\ ret' = [ret EXCEPT ![r] = "none"]
  /\ UNCHANGED <<wvars, s1, left, out, tornSkips, loaded, lag>>

\* The end of one unsuccessful iteration of the retry loop.
NextAttempt(r) ==
  /\ retry' = [retry EXCEPT ![r] = @ + 1]
  /\ rpc' = [rpc EXCEPT ![r] = IF retry[r] + 1 < MaxRetries
                                 THEN "ticket" ELSE "load"]

\* Mutant: an attempt that finds an open bracket is not counted.
OddTicketSpins(r) ==
  /\ rpc[r] = "ticket"
  /\ seq % 2 = 1
  /\ UNCHANGED vars

OddTicket(r) ==
  /\ rpc[r] = "ticket"
  /\ seq % 2 = 1
  /\ NextAttempt(r)
  /\ UNCHANGED <<wvars, s1, left, out, ret, tornSkips, loaded, lag>>

\* Mutant: the copy starts without looking at the parity.
EvenTicketUnchecked(r) ==
  /\ rpc[r] = "ticket"
  /\ s1' = [s1 EXCEPT ![r] = seq]
  /\ left' = [left EXCEPT ![r] = Cell]
  /\ lag' = [lag EXCEPT ![r] = 0]
  /\ rpc' = [rpc EXCEPT ![r] = "copy"]
  /\ UNCHANGED <<wvars, retry, out, ret, tornSkips, loaded>>

EvenTicket(r) ==
  /\ rpc[r] = "ticket"
  /\ seq % 2 = 0
  /\ s1' = [s1 EXCEPT ![r] = seq]
  /\ left' = [left EXCEPT ![r] = Cell]
  /\ lag' = [lag EXCEPT ![r] = 0]
  /\ rpc' = [rpc EXCEPT ![r] = "copy"]
  /\ UNCHANGED <<wvars, retry, out, ret, tornSkips, loaded>>

CopyCell(r, c) ==
  /\ rpc[r] = "copy"
  /\ c \in left[r]
  /\ out' = [out EXCEPT ![r] = [@ EXCEPT ![c] = data[c]]]
  /\ left' = [left EXCEPT ![r] = @ \ {c}]
  /\ UNCHANGED <<wvars, rpc, s1, retry, ret, tornSkips, loaded, lag>>

\* Mutant: the second ticket is not compared with the first.
AcceptUnchecked(r) ==
  /\ rpc[r] = "copy" /\ left[r] = {}
  /\ rpc' = [rpc EXCEPT ![r] = "idle"]
  /\ ret' = [ret EXCEPT ![r] = "ok"]
  /\ s1' = [s1 EXCEPT ![r] = 0]
  /\ lag' = [lag EXCEPT ![r] = 0]
  /\ UNCHANGED <<wvars, left, retry, out, tornSkips, loaded>>

Accept(r) ==
  /\ rpc[r] = "copy" /\ left[r] = {}
  /\ seq = s1[r]
  /\ rpc' = [rpc EXCEPT ![r] = "idle"]
  /\ ret' = [ret EXCEPT ![r] = "ok"]
  /\ s1' = [s1 EXCEPT ![r] = 0]
  /\ lag' = [lag EXCEPT ![r] = 0]
  /\ UNCHANGED <<wvars, left, retry, out, tornSkips, loaded>>

Reject(r) ==
  /\ rpc[r] = "copy" /\ left[r] = {}
  /\ seq # s1[r]
  /\ NextAttempt(r)
  /\ s1' = [s1 EXCEPT ![r] = 0]
  /\ lag' = [lag EXCEPT ![r] = 0]
  /\ UNCHANGED <<wvars, left, out, ret, tornSkips, loaded>>

\* tornSkips++ is a load and a store; nothing makes the pair atomic.
LoadTorn(r) ==
  /\ rpc[r] = "load"
  /\ loaded' = [loaded EXCEPT ![r] = tornSkips]
  /\ rpc' = [rpc EXCEPT ![r] = "store"]
  /\ UNCHANGED <<wvars, s1, left, retry, out, ret, tornSkips, lag>>

StoreTorn(r) ==
  /\ rpc[r] = "store"
  /\ tornSkips' = IF loaded[r] + 1 = TornMod THEN 0 ELSE loaded[r] + 1
  /\ ret' = [ret EXCEPT ![r] = "torn"]
  /\ rpc' = [rpc EXCEPT ![r] = "idle"]
  /\ UNCHANGED <<wvars, s1, left, retry, out, loaded, lag>>

\* Every step of a call that has started.
InCall(r) ==
  \/ OddTicket(r)
  \/ EvenTicket(r)
  \/ \E c \in Cell : CopyCell(r, c)
  \/ Accept(r)
  \/ Reject(r)
  \/ LoadTorn(r)
  \/ StoreTorn(r)

Next == Writer \/ \E r \in Readers : Call(r) \/ InCall(r)

Spec == Init /\ [][Next]_vars

\* The scheduler runs a reader that is inside a call; it owes the writer
\* nothing, which may stop for ever in the middle of a bracket.
FairSpec == Spec /\ \A r \in Readers : WF_vars(InCall(r))

-----------------------------------------------------------------------------
(***************************************************************************)
(* Correctness.                                                            *)
(***************************************************************************)
\* The types of all variables; the loop counter stays within its bound.
TypeOK ==
  /\ seq \in 0..SeqMod-1
  /\ data \in Frame /\ target \in Frame /\ frame \in Frame
  /\ writing \in BOOLEAN
  /\ todo \in SUBSET Cell
  /\ rpc \in [Readers -> {"idle", "ticket", "copy", "load", "store"}]
  /\ s1 \in [Readers -> 0..SeqMod-1]
  /\ left \in [Readers -> SUBSET Cell]
  /\ retry \in [Readers -> 0..MaxRetries]
  /\ out \in [Readers -> Frame]
  /\ ret \in [Readers -> {"none", "ok", "torn"}]
  /\ tornSkips \in 0..TornMod-1
  /\ loaded \in [Readers -> 0..TornMod-1]
  /\ lag \in [Readers -> 0..MaxLag]

\* The parity of the ticket tells every reader whether a bracket is open.
TicketParity == writing <=> seq % 2 = 1

\* Between brackets the buffer holds the last complete frame; inside one,
\* the cells already stored have their final value and the others the old one.
BracketContents ==
  /\ ~writing => data = frame /\ todo = {}
  /\ writing => \A c \in Cell :
       data[c] = IF c \in todo THEN frame[c] ELSE target[c]

\* How far the ticket has moved since r read it: two bumps for every bracket
\* started, less one while the last of them is open; it may have wrapped once.
Moved(r) == 2 * lag[r] - (IF writing /\ lag[r] > 0 THEN 1 ELSE 0)

TicketDistance ==
  \A r \in Readers : rpc[r] = "copy" =>
    /\ s1[r] % 2 = 0
    /\ writing => lag[r] > 0
    /\ \/ seq = s1[r] + Moved(r)
       \/ seq = s1[r] + Moved(r) - SeqMod

\* As long as no bracket has started since r read its ticket, every cell r
\* has copied is the cell of the one frame the buffer has held since.
CopyIsCurrent ==
  \A r \in Readers :
    rpc[r] = "copy" /\ lag[r] = 0 =>
      \A c \in Cell \ left[r] : out[r][c] = frame[c]

\* The loop counter of seqlock_snapshot.
AttemptsLeft ==
  \A r \in Readers : rpc[r] \in {"ticket", "copy"} => retry[r] < MaxRetries

\* A call that has not returned has no result yet.
ReturnPending ==
  \A r \in Readers : rpc[r] # "idle" => ret[r] = "none"

\* The inductive invariant: what a copy in progress has in common with the
\* buffer follows from the distance the ticket has moved (seqlock.h).
IInv ==
  /\ TypeOK
  /\ TicketParity
  /\ BracketContents
  /\ TicketDistance
  /\ CopyIsCurrent
  /\ AttemptsLeft
  /\ ReturnPending

\* dmxBufSnapshot never returns true with a mixture of two frames: what it
\* returns is the frame the buffer holds at the moment of the second ticket
\* read, whole (seqlock_snapshot's comparison of s1 and s2).
SnapshotIsWhole ==
  [][\A r \in Readers : ret[r] = "none" /\ ret'[r] = "ok" => out'[r] = frame']_vars

\* A snapshot returns after at most MaxRetries attempts, even when the writer
\* never stops or stops half-way (the bounded loop of seqlock_snapshot).
SnapshotTerminates ==
  \A r \in Readers : rpc[r] # "idle" ~> rpc[r] = "idle"

\* Once the writer has fallen silent, snapshots stop failing: a completed
\* bracket leaves a ticket every reader accepts (seqlock_write_end).
QuietBufferIsReadable ==
  \A r \in Readers : <>[](~writing) => <>[](rpc[r] # "load")

\* The buffer implements an atomic frame register, with the last bracket's
\* frame as its content and an accepted copy as the value returned.
Atomic == INSTANCE AtomicFrame WITH
  val <- [r \in Readers |-> IF ret[r] = "ok" THEN out[r] ELSE NoFrame]
RefinesAtomicFrame == Atomic!Spec

=============================================================================
