-------------------------- MODULE DmxBufferProofs --------------------------
(***************************************************************************)
(* Proofs about DmxBuffer for every set of readers, frame size, ticket     *)
(* width and retry count.                                                  *)
(***************************************************************************)
EXTENDS DmxBuffer, TLAPS

(***************************************************************************)
(* The ticket arithmetic of seqlock_write_begin and seqlock_write_end: the *)
(* bump flips the parity and moves the ticket by one, modulo the width.    *)
(***************************************************************************)
LEMMA BeginBump ==
  ASSUME NEW x \in 0..SeqMod-1, x % 2 = 0
  PROVE  /\ SetLowBit(Increment(x)) = x + 1
         /\ x + 1 \in 0..SeqMod-1
         /\ (x + 1) % 2 = 1
  BY SeqAssumption DEF SetLowBit, Increment

\* The bump of write_end: the next even ticket, modulo the word.
LEMMA EndBump ==
  ASSUME NEW x \in 0..SeqMod-1, x % 2 = 1
  PROVE  /\ ClearLowBit(Increment(x)) \in 0..SeqMod-1
         /\ ClearLowBit(Increment(x)) % 2 = 0
         /\ \/ ClearLowBit(Increment(x)) = x + 1
            \/ ClearLowBit(Increment(x)) = x + 1 - SeqMod
  BY SeqAssumption DEF ClearLowBit, Increment

\* The frame of zeros is a frame.
LEMMA FrameTyping ==
  /\ ZeroFrame \in Frame
  /\ \A f \in Frame, c \in Cell : f[c] \in Byte
  /\ \A f \in Frame, b \in Byte, c \in Cell : [f EXCEPT ![c] = b] \in Frame
  BY SizeAssumption DEF ZeroFrame, Frame

\* The invariant holds at boot.
LEMMA InitInv == Init => IInv
  <1> SUFFICES ASSUME Init PROVE IInv
    OBVIOUS
  <1>1. TypeOK
    <2>1. 0 \in 0..SeqMod-1 /\ 0 \in 0..MaxRetries /\ 0 \in 0..TornMod-1 /\ 0 \in 0..MaxLag
      BY SeqAssumption, SizeAssumption
    <2> QED
      BY <2>1, FrameTyping DEF Init, TypeOK
  <1>2. TicketParity /\ BracketContents /\ TicketDistance /\ CopyIsCurrent
    BY DEF Init, TicketParity, BracketContents, TicketDistance, CopyIsCurrent
  <1>3. AttemptsLeft /\ ReturnPending
    BY DEF Init, AttemptsLeft, ReturnPending
  <1> QED
    BY <1>1, <1>2, <1>3 DEF IInv

(***************************************************************************)
(* The writer's steps.                                                     *)
(***************************************************************************)
LEMMA WriteBeginInv ==
  ASSUME IInv, NEW cells \in Brackets, NEW f \in Frame, WriteBegin(cells, f)
  PROVE  IInv'
  <1> USE DEF IInv
  <1>1. cells \in SUBSET Cell
    BY SizeAssumption DEF Brackets, StartCode, AllSlots, Cell
  <1>2. seq % 2 = 0 /\ ~writing /\ seq \in 0..SeqMod-1
    BY DEF TicketParity, WriteBegin, TypeOK
  <1>3. /\ seq' = seq + 1
        /\ seq' \in 0..SeqMod-1
        /\ seq' % 2 = 1
    BY <1>2, BeginBump DEF WriteBegin
  <1>4. \A r \in Readers : lag'[r] \in 0..MaxLag
    BY SeqAssumption DEF TypeOK, WriteBegin
  <1>5. TypeOK'
    BY <1>1, <1>3, <1>4 DEF TypeOK, WriteBegin
  <1>6. TicketParity'
    BY <1>3 DEF TicketParity, WriteBegin
  <1>7. BracketContents'
    BY <1>1, <1>2 DEF BracketContents, WriteBegin
  <1>8. TicketDistance'
    <2> SUFFICES ASSUME NEW r \in Readers, rpc[r] = "copy"
                 PROVE  /\ s1[r] % 2 = 0
                        /\ lag'[r] > 0
                        /\ \/ seq' = s1[r] + 2 * lag'[r] - 1
                           \/ seq' = s1[r] + 2 * lag'[r] - 1 - SeqMod
      BY DEF TicketDistance, Moved, WriteBegin
    <2>1. lag'[r] = lag[r] + 1 /\ lag[r] \in 0..MaxLag
      BY DEF WriteBegin, TypeOK
    <2>2. /\ s1[r] % 2 = 0
          /\ seq = s1[r] + 2 * lag[r] \/ seq = s1[r] + 2 * lag[r] - SeqMod
      BY <1>2, <2>1 DEF TicketDistance, Moved
    <2> QED
      BY <1>2, <1>3, <2>1, <2>2, SeqAssumption DEF TypeOK
  <1>9. CopyIsCurrent'
    BY SeqAssumption DEF CopyIsCurrent, WriteBegin, TypeOK
  <1>10. AttemptsLeft' /\ ReturnPending'
    BY DEF AttemptsLeft, ReturnPending, WriteBegin
  <1> QED
    BY <1>5, <1>6, <1>7, <1>8, <1>9, <1>10

\* A store inside a bracket keeps the invariant.
LEMMA StoreInv ==
  ASSUME IInv, NEW c \in Cell, Store(c)
  PROVE  IInv'
  <1> USE DEF IInv
  <1>1. TypeOK'
    BY FrameTyping DEF TypeOK, Store
  <1>2. TicketParity'
    BY DEF TicketParity, Store
  <1>3. BracketContents'
    <2>1. data \in Frame /\ target \in Frame
      BY DEF TypeOK
    <2> QED
      BY <2>1 DEF BracketContents, Store, Frame
  <1>4. TicketDistance' /\ CopyIsCurrent'
    BY DEF TicketDistance, Moved, CopyIsCurrent, Store
  <1>5. AttemptsLeft' /\ ReturnPending'
    BY DEF AttemptsLeft, ReturnPending, Store
  <1> QED
    BY <1>1, <1>2, <1>3, <1>4, <1>5

\* Closing a bracket keeps the invariant.
LEMMA WriteEndInv ==
  ASSUME IInv, WriteEnd
  PROVE  IInv'
  <1> USE DEF IInv
  <1>1. seq % 2 = 1 /\ writing /\ seq \in 0..SeqMod-1
    BY DEF TicketParity, WriteEnd, TypeOK
  <1>2. /\ seq' \in 0..SeqMod-1
        /\ seq' % 2 = 0
        /\ seq' = seq + 1 \/ seq' = seq + 1 - SeqMod
    BY <1>1, EndBump DEF WriteEnd
  <1>3. TypeOK'
    BY <1>2 DEF TypeOK, WriteEnd
  <1>4. TicketParity'
    BY <1>2 DEF TicketParity, WriteEnd
  <1>5. BracketContents'
    BY DEF BracketContents, WriteEnd
  <1>6. TicketDistance'
    <2> SUFFICES ASSUME NEW r \in Readers, rpc[r] = "copy"
                 PROVE  /\ s1[r] % 2 = 0
                        /\ \/ seq' = s1[r] + 2 * lag[r]
                           \/ seq' = s1[r] + 2 * lag[r] - SeqMod
      BY DEF TicketDistance, Moved, WriteEnd, TypeOK
    <2>1. /\ lag[r] \in 0..MaxLag
          /\ s1[r] \in 0..SeqMod-1
      BY DEF TypeOK
    <2>2. /\ s1[r] % 2 = 0
          /\ \/ seq = s1[r] + 2 * lag[r] - 1
             \/ seq = s1[r] + 2 * lag[r] - 1 - SeqMod
      BY <1>1, <2>1 DEF TicketDistance, Moved
    <2> QED
      BY <1>1, <1>2, <2>1, <2>2, SeqAssumption
  <1>7. CopyIsCurrent'
    <2>1. \A r \in Readers : rpc[r] = "copy" => lag[r] # 0
      BY <1>1 DEF TicketDistance, TypeOK
    <2> QED
      BY <2>1 DEF CopyIsCurrent, WriteEnd
  <1>8. AttemptsLeft' /\ ReturnPending'
    BY DEF AttemptsLeft, ReturnPending, WriteEnd
  <1> QED
    BY <1>3, <1>4, <1>5, <1>6, <1>7, <1>8

(***************************************************************************)
(* The reader's steps.  They leave the writer's state alone, so parity and *)
(* bracket contents carry over.                                            *)
(***************************************************************************)
LEMMA ReaderKeepsWriter ==
  ASSUME IInv, UNCHANGED wvars
  PROVE  TicketParity' /\ BracketContents'
  BY DEF IInv, wvars, TicketParity, BracketContents

\* The end of a failed attempt keeps the types and the loop bound.
LEMMA NextAttemptType ==
  ASSUME IInv, NEW r \in Readers, rpc[r] \in {"ticket", "copy"}, NextAttempt(r)
  PROVE  /\ retry' \in [Readers -> 0..MaxRetries]
         /\ rpc' \in [Readers -> {"idle", "ticket", "copy", "load", "store"}]
         /\ rpc'[r] # "copy"
         /\ AttemptsLeft'
  BY SizeAssumption DEF IInv, TypeOK, AttemptsLeft, NextAttempt

\* Entering dmxBufSnapshot keeps the invariant.
LEMMA CallInv ==
  ASSUME IInv, NEW r \in Readers, Call(r)
  PROVE  IInv'
  <1> USE DEF IInv
  <1>1. TypeOK' /\ AttemptsLeft' /\ ReturnPending'
    BY SizeAssumption DEF TypeOK, AttemptsLeft, ReturnPending, Call, wvars
  <1>2. TicketDistance' /\ CopyIsCurrent'
    BY DEF TicketDistance, Moved, CopyIsCurrent, TypeOK, Call, wvars
  <1> QED
    BY <1>1, <1>2, ReaderKeepsWriter DEF Call

\* Meeting an open bracket keeps the invariant.
LEMMA OddTicketInv ==
  ASSUME IInv, NEW r \in Readers, OddTicket(r)
  PROVE  IInv'
  <1> USE DEF IInv
  <1>1. TypeOK' /\ AttemptsLeft'
    BY NextAttemptType DEF TypeOK, OddTicket, wvars
  <1>2. TicketDistance' /\ CopyIsCurrent'
    BY DEF TicketDistance, Moved, CopyIsCurrent, TypeOK, OddTicket,
           NextAttempt, wvars
  <1>3. ReturnPending'
    BY DEF TypeOK, ReturnPending, OddTicket, NextAttempt
  <1> QED
    BY <1>1, <1>2, <1>3, ReaderKeepsWriter DEF OddTicket

\* Starting to copy keeps the invariant: the copy is current so far.
LEMMA EvenTicketInv ==
  ASSUME IInv, NEW r \in Readers, EvenTicket(r)
  PROVE  IInv'
  <1> USE DEF IInv
  <1>1. TypeOK' /\ AttemptsLeft' /\ ReturnPending'
    BY SeqAssumption DEF TypeOK, AttemptsLeft, ReturnPending, EvenTicket, wvars
  <1>2. ~writing
    BY DEF TicketParity, TypeOK, EvenTicket
  <1>3. TicketDistance'
    BY <1>2 DEF TicketDistance, Moved, TypeOK, EvenTicket, wvars
  <1>4. CopyIsCurrent'
    BY DEF CopyIsCurrent, TypeOK, EvenTicket, wvars
  <1> QED
    BY <1>1, <1>3, <1>4, ReaderKeepsWriter DEF EvenTicket

\* Copying a cell keeps the invariant.
LEMMA CopyCellInv ==
  ASSUME IInv, NEW r \in Readers, NEW c \in Cell, CopyCell(r, c)
  PROVE  IInv'
  <1> USE DEF IInv
  <1>1. TypeOK' /\ AttemptsLeft' /\ ReturnPending'
    BY FrameTyping DEF TypeOK, AttemptsLeft, ReturnPending, CopyCell, wvars
  <1>2. TicketDistance'
    BY DEF TicketDistance, Moved, CopyCell, wvars
  <1>3. CopyIsCurrent'
    <2> SUFFICES ASSUME NEW q \in Readers, rpc[q] = "copy", lag[q] = 0,
                        NEW d \in Cell \ left'[q]
                 PROVE  out'[q][d] = frame[d]
      BY DEF CopyIsCurrent, CopyCell, wvars
    <2>1. data = frame
      BY DEF TicketDistance, BracketContents, TypeOK
    <2>2. CASE q = r /\ d = c
      BY <2>1, <2>2 DEF CopyCell, TypeOK, Frame
    <2>3. CASE ~(q = r /\ d = c)
      <3>1. d \in Cell \ left[q] /\ out'[q][d] = out[q][d]
        BY <2>3 DEF CopyCell, TypeOK, Frame
      <3> QED
        BY <3>1 DEF CopyIsCurrent
    <2> QED
      BY <2>2, <2>3
  <1> QED
    BY <1>1, <1>2, <1>3, ReaderKeepsWriter DEF CopyCell

\* Returning a snapshot keeps the invariant.
LEMMA AcceptInv ==
  ASSUME IInv, NEW r \in Readers, Accept(r)
  PROVE  IInv'
  <1> USE DEF IInv
  <1>1. TypeOK' /\ AttemptsLeft' /\ ReturnPending'
    BY SeqAssumption DEF TypeOK, AttemptsLeft, ReturnPending, Accept, wvars
  <1>2. TicketDistance' /\ CopyIsCurrent'
    BY DEF TicketDistance, Moved, CopyIsCurrent, TypeOK, Accept, wvars
  <1> QED
    BY <1>1, <1>2, ReaderKeepsWriter DEF Accept

\* Discarding a copy keeps the invariant.
LEMMA RejectInv ==
  ASSUME IInv, NEW r \in Readers, Reject(r)
  PROVE  IInv'
  <1> USE DEF IInv
  <1>1. TypeOK' /\ AttemptsLeft'
    BY SeqAssumption, NextAttemptType DEF TypeOK, Reject, wvars
  <1>2. TicketDistance' /\ CopyIsCurrent'
    BY DEF TicketDistance, Moved, CopyIsCurrent, TypeOK, Reject, NextAttempt,
           wvars
  <1>3. ReturnPending'
    BY DEF TypeOK, ReturnPending, Reject, NextAttempt
  <1> QED
    BY <1>1, <1>2, <1>3, ReaderKeepsWriter DEF Reject

\* Counting a failed snapshot keeps the invariant.
LEMMA TornCounterInv ==
  ASSUME IInv, NEW r \in Readers, LoadTorn(r) \/ StoreTorn(r)
  PROVE  IInv'
  <1> USE DEF IInv
  <1>1. TypeOK' /\ AttemptsLeft' /\ ReturnPending'
    BY SizeAssumption DEF TypeOK, AttemptsLeft, ReturnPending, LoadTorn,
           StoreTorn, wvars
  <1>2. TicketDistance' /\ CopyIsCurrent'
    BY DEF TicketDistance, Moved, CopyIsCurrent, TypeOK, LoadTorn, StoreTorn,
           wvars
  <1> QED
    BY <1>1, <1>2, ReaderKeepsWriter DEF LoadTorn, StoreTorn

\* Every step keeps the invariant.
LEMMA StepInv == IInv /\ [Next]_vars => IInv'
  <1> SUFFICES ASSUME IInv, [Next]_vars PROVE IInv'
    OBVIOUS
  <1>1. ASSUME NEW cells \in Brackets, NEW f \in Frame, WriteBegin(cells, f)
        PROVE  IInv'
    BY <1>1, WriteBeginInv
  <1>2. ASSUME NEW c \in Cell, Store(c) PROVE IInv'
    BY <1>2, StoreInv
  <1>3. CASE WriteEnd
    BY <1>3, WriteEndInv
  <1>4. ASSUME NEW r \in Readers, Call(r) \/ InCall(r) PROVE IInv'
    BY <1>4, CallInv, OddTicketInv, EvenTicketInv, CopyCellInv, AcceptInv,
       RejectInv, TornCounterInv DEF InCall
  <1>5. CASE UNCHANGED vars
    BY <1>5 DEF vars, IInv, TypeOK, TicketParity, BracketContents,
                TicketDistance, Moved, CopyIsCurrent, AttemptsLeft,
                ReturnPending
  <1> QED
    BY <1>1, <1>2, <1>3, <1>4, <1>5 DEF Next, Writer

-----------------------------------------------------------------------------
(***************************************************************************)
(* The inductive invariant, and with it type correctness, holds in every   *)
(* reachable state (the ticket protocol of seqlock.h as a whole).          *)
(***************************************************************************)
THEOREM InvariantHolds == Spec => []IInv
  <1>1. Init => IInv
    BY InitInv
  <1>2. IInv /\ [Next]_vars => IInv'
    BY StepInv
  <1> QED
    BY <1>1, <1>2, PTL DEF Spec

(***************************************************************************)
(* Every variable keeps its type: in particular the ticket stays within    *)
(* its word and the retry loop within its bound.                           *)
(***************************************************************************)
THEOREM TypeCorrect == Spec => []TypeOK
  <1>1. IInv => TypeOK
    BY DEF IInv
  <1> QED
    BY <1>1, InvariantHolds, PTL

\* The heart of the argument: a copy whose two ticket reads agree was made
\* while no bracket started, so it is the buffer's committed frame.  The
\* bound MaxLag is what excludes a ticket that wrapped back to s1.
LEMMA AcceptedCopyIsFrame ==
  ASSUME IInv, NEW r \in Readers, Accept(r)
  PROVE  out[r] = frame
  <1>1. /\ lag[r] \in 0..MaxLag
        /\ s1[r] \in 0..SeqMod-1
        /\ writing \in BOOLEAN
        /\ out[r] \in Frame /\ frame \in Frame
    BY DEF IInv, TypeOK
  <1>2. Moved(r) = 0 \/ Moved(r) = SeqMod
    BY <1>1, SeqAssumption DEF IInv, TicketDistance, Moved, Accept
  <1>3. lag[r] = 0
    <2>1. CASE lag[r] = 0
      BY <2>1
    <2>2. CASE lag[r] > 0 /\ writing
      BY <1>1, <1>2, <2>2, SeqAssumption DEF Moved
    <2>3. CASE lag[r] > 0 /\ ~writing
      BY <1>1, <1>2, <2>3, SeqAssumption DEF Moved
    <2> QED
      BY <1>1, <2>1, <2>2, <2>3
  <1>4. \A c \in Cell : out[r][c] = frame[c]
    BY <1>3 DEF IInv, CopyIsCurrent, Accept
  <1> QED
    BY <1>1, <1>4 DEF Frame

(***************************************************************************)
(* dmxBufSnapshot returns true only with a whole committed frame, for any  *)
(* number of readers and any frame size: no torn frame is ever handed to   *)
(* the transmitter or to the web interface.                                *)
(***************************************************************************)
THEOREM SnapshotsAreWhole == Spec => SnapshotIsWhole
  <1>1. ASSUME IInv, [Next]_vars, NEW r \in Readers,
               ret[r] = "none", ret'[r] = "ok"
        PROVE  out'[r] = frame'
    <2>1. ASSUME NEW q \in Readers, Accept(q) PROVE out'[r] = frame'
      <3>1. q = r
        BY <1>1, <2>1 DEF Accept, IInv, TypeOK
      <3>2. out[r] = frame
        BY <1>1, <2>1, <3>1, AcceptedCopyIsFrame
      <3> QED
        BY <2>1, <3>1, <3>2 DEF Accept, wvars
    <2>2. CASE \A q \in Readers : ~Accept(q)
      <3>1. ASSUME Writer PROVE ret'[r] = ret[r]
        BY <3>1 DEF Writer, WriteBegin, Store, WriteEnd
      <3>2. ASSUME NEW q \in Readers, Call(q) \/ InCall(q) PROVE ret'[r] # "ok"
        BY <1>1, <2>2, <3>2 DEF Call, InCall, OddTicket, EvenTicket, CopyCell,
           Reject, LoadTorn, StoreTorn, NextAttempt, IInv, TypeOK
      <3> QED
        BY <1>1, <3>1, <3>2 DEF Next, vars
    <2> QED
      BY <2>1, <2>2
  <1>2. IInv /\ [Next]_vars
          => [\A r \in Readers : ret[r] = "none" /\ ret'[r] = "ok"
                                   => out'[r] = frame']_vars
    BY <1>1
  <1> QED
    BY <1>2, InvariantHolds, PTL DEF Spec, SnapshotIsWhole

-----------------------------------------------------------------------------
\* A step that moves neither the committed frame nor what the callers hold
\* is a stutter of the register.
LEMMA SilentStep ==
  ASSUME frame' = frame, ret' = ret,
         \A r \in Readers : ret[r] = "ok" => out'[r] = out[r]
  PROVE  UNCHANGED Atomic!avars
  BY DEF Atomic!avars

\* A step of the writer replaces the frame or stutters.
LEMMA WriterStepRefines ==
  ASSUME IInv, Writer
  PROVE  [Atomic!Next]_(Atomic!avars)
  <1>1. CASE WriteEnd
    <2>1. Atomic!Replace
      BY <1>1 DEF WriteEnd, Atomic!Replace, IInv, TypeOK
    <2> QED
      BY <2>1 DEF Atomic!Next
  <1>2. CASE ~WriteEnd
    <2>1. frame' = frame /\ ret' = ret /\ out' = out
      BY <1>2 DEF Writer, WriteBegin, Store
    <2> QED
      BY <2>1, SilentStep
  <1> QED
    BY <1>1, <1>2

\* A step of a reader is a call, a return, a surrender or a stutter.
LEMMA ReaderStepRefines ==
  ASSUME IInv, NEW r \in Readers, Call(r) \/ InCall(r)
  PROVE  [Atomic!Next]_(Atomic!avars)
  <1>1. frame' = frame
    BY DEF Call, InCall, OddTicket, EvenTicket, CopyCell, Accept, Reject,
           LoadTorn, StoreTorn, wvars
  <1>2. CASE Call(r)
    <2>1. Atomic!Call(r)
      BY <1>1, <1>2 DEF Call, Atomic!Call, IInv, TypeOK
    <2> QED
      BY <2>1 DEF Atomic!Next
  <1>3. CASE Accept(r)
    <2>1. out[r] = frame
      BY <1>3, AcceptedCopyIsFrame
    <2>2. ret[r] = "none"
      BY <1>3 DEF Accept, IInv, ReturnPending
    <2>3. Atomic!Return(r)
      BY <1>1, <1>3, <2>1, <2>2 DEF Accept, Atomic!Return, IInv, TypeOK
    <2> QED
      BY <2>3 DEF Atomic!Next
  <1>4. CASE StoreTorn(r)
    <2>1. ret[r] = "none"
      BY <1>4 DEF StoreTorn, IInv, ReturnPending
    <2>2. Atomic!GiveUp(r)
      BY <1>1, <1>4, <2>1 DEF StoreTorn, Atomic!GiveUp, IInv, TypeOK
    <2> QED
      BY <2>2 DEF Atomic!Next
  <1>5. CASE OddTicket(r) \/ EvenTicket(r) \/ Reject(r) \/ LoadTorn(r)
    <2>1. ret' = ret /\ out' = out
      BY <1>5 DEF OddTicket, EvenTicket, Reject, LoadTorn
    <2> QED
      BY <1>1, <2>1, SilentStep
  <1>6. ASSUME NEW c \in Cell, CopyCell(r, c)
        PROVE  UNCHANGED Atomic!avars
    <2>1. ret[r] = "none"
      BY <1>6 DEF CopyCell, IInv, ReturnPending
    <2> QED
      BY <1>1, <1>6, <2>1, SilentStep DEF CopyCell, IInv, TypeOK
  <1> QED
    BY <1>2, <1>3, <1>4, <1>5, <1>6 DEF InCall

(***************************************************************************)
(* The buffer with its ticket lock implements an atomic frame register:    *)
(* a bracket takes effect at write_end, an accepted snapshot at its second *)
(* ticket read.  Modules that use the buffer may treat both as one step.   *)
(***************************************************************************)
THEOREM ImplementsAtomicFrame == Spec => RefinesAtomicFrame
  <1>1. Init => Atomic!Init
    BY FrameTyping DEF Init, Atomic!Init
  <1>2. IInv /\ [Next]_vars => [Atomic!Next]_(Atomic!avars)
    <2> SUFFICES ASSUME IInv, [Next]_vars
                 PROVE  [Atomic!Next]_(Atomic!avars)
      OBVIOUS
    <2>1. CASE UNCHANGED vars
      BY <2>1, SilentStep DEF vars
    <2> QED
      BY <2>1, WriterStepRefines, ReaderStepRefines DEF Next
  <1> QED
    BY <1>1, <1>2, InvariantHolds, PTL DEF Spec, RefinesAtomicFrame, Atomic!Spec

=============================================================================
