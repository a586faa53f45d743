---------------------------- MODULE AtomicFrame ----------------------------
(***************************************************************************)
(* What the DMX live buffer of one output promises to the tasks that use   *)
(* it: an atomic register that holds one DMX frame.  The network task      *)
(* replaces the frame in one step; a snapshot returns the frame the        *)
(* register holds at one instant of the call, or reports that it gave up.  *)
(* No caller ever sees a mixture of two frames.                            *)
(***************************************************************************)

CONSTANTS
  Readers,  \* The tasks that take snapshots.
  Frame,    \* The set of frames.
  NoFrame   \* What a caller that has no snapshot holds.

VARIABLES
  frame,    \* The frame the register holds.
  ret,      \* ret[r]: "none" while r's call runs, then "ok" or "torn".
  val       \* val[r]: the frame r's last call returned, if it returned one.

avars == <<frame, ret, val>>

Init ==
  /\ frame \in Frame
  /\ ret = [r \in Readers |-> "none"]
  /\ val = [r \in Readers |-> NoFrame]

Replace ==
  /\ frame' \in Frame
  /\ UNCHANGED <<ret, val>>

Call(r) ==
  /\ ret' = [ret EXCEPT ![r] = "none"]
  /\ val' = [val EXCEPT ![r] = NoFrame]
  /\ UNCHANGED frame

Return(r) ==
  /\ ret[r] = "none"
  /\ ret' = [ret EXCEPT ![r] = "ok"]
  /\ val' = [val EXCEPT ![r] = frame]
  /\ UNCHANGED frame

GiveUp(r) ==
  /\ ret[r] = "none"
  /\ ret' = [ret EXCEPT ![r] = "torn"]
  /\ UNCHANGED <<frame, val>>

Next == Replace \/ \E r \in Readers : Call(r) \/ Return(r) \/ GiveUp(r)

Spec == Init /\ [][Next]_avars

=============================================================================
