------------------------------ MODULE RdmLine ------------------------------
(***************************************************************************)
(* A sweep over a line on which bytes get lost and damaged: the steps of   *)
(* RdmDiscovery with the packets of RdmPacket under them.                  *)
(*                                                                         *)
(* rdmDiscRange is given two functions that talk to the line, "probe" and  *)
(* "mute"; the firmware has none yet.  Here probe returns what             *)
(* rdmParseDiscoveryResponse makes of the bytes received, and mute sends a *)
(* packet of rdmBuild and believes an answer that rdmReadResp accepts and  *)
(* that comes from the device.  The devices answer with packets of the     *)
(* same form.                                                              *)
(***************************************************************************)
EXTENDS RdmDiscovery, RdmPacket

CONSTANTS
  Controller,  \* The identifier of the gateway.
  MaxFaults    \* Bound: damages to the bytes on the line.

\* RDM_UID_MAX is the identifier whose bytes are all 0xFF.
ASSUME LineAssumption ==
  /\ UidMax = FromWire([n \in 1..UidBytes |-> 255])
  /\ Controller \in Uid /\ MaxFaults \in Nat

VARIABLES
  phase,   \* Where probe and mute are.
  single,  \* The device that answered alone.
  wire,    \* The bytes received.
  faults   \* Damages so far.

lineVars == <<phase, single, wire, faults>>

LineInit ==
  /\ Init
  /\ phase = "idle" /\ single = 0 /\ wire = <<>> /\ faults = 0

\* Several answers at once: one drowns the other from some byte on.
Splice(p, q, n) == SubSeq(p, 1, n) \o SubSeq(q, n + 1, Len(q))

\* What the line carries when one device answers.
Answers == {DiscoveryResponse(u) : u \in Uid}

Fault == faults < MaxFaults /\ faults' = faults + 1

\* probe: a discovery request for the branch on top, which all its devices
\* answer.  It is a fault if several are heard as one: because one drowns the
\* others, or because what is left of them is by chance the answer of a device
\* that is not there, checksum and all.
Probe ==
  /\ phase = "idle" /\ More
  /\ phase' = "probing"
  /\ \/ Here = {} /\ wire' = <<>> /\ UNCHANGED faults
     \/ \E d, e \in Here, n \in 0..5+2*UidBytes :
          LET p == DiscoveryResponse(d)
              q == DiscoveryResponse(e)
          IN /\ d # e \/ n = 0
             /\ wire' = Splice(p, q, n)
             /\ IF Here # {e} /\ wire' \in Answers THEN Fault ELSE UNCHANGED faults
  /\ UNCHANGED <<vars, single>>

\* The bytes get lost, there is noise on a silent line, or a byte is damaged.
Damage ==
  /\ phase \in {"probing", "muting"}
  /\ Fault
  /\ \/ wire # <<>> /\ wire' = <<>>
     \/ wire = <<>> /\ wire' = <<0, 0, 0, 0>>
     \/ \E n \in 1..Len(wire) : \E b \in {(wire[n] + 1) % 256, Separator} :
          wire' = [wire EXCEPT ![n] = b]
  /\ UNCHANGED <<vars, phase, single>>

\* The packet that mutes u, and the answer of the device that gets it, if any.
Mute(u) == rdmBuild(u, Controller, 16, 2, <<>>)
Reply(u, p) ==
  IF u \in devices /\ p # <<>> THEN rdmBuild(Controller, u, 17, 2, <<0, 0>>) ELSE <<>>

\* rdmDiscRange with what probe returns; a device that answers alone is muted.
ProbeDone ==
  /\ phase = "probing"
  /\ \E r \in {rdmParseDiscoveryResponse(wire)} :
       IF r.kind = "SINGLE" /\ Fresh(r.uid)
         THEN /\ phase' = "muting" /\ single' = r.uid
              /\ wire' = Reply(r.uid, Mute(r.uid))
              /\ UNCHANGED vars
         ELSE /\ phase' = "idle" /\ wire' = <<>>
              /\ IF r.kind = "COLLISION" /\ CanSplit THEN Split ELSE GiveUp
              /\ UNCHANGED single
  /\ UNCHANGED faults

Believed(r) == r.ok /\ r.source = single

\* Mutant: whoever answered alone is found.
MuteDoneTrusting ==
  /\ phase = "muting"
  /\ Probed
  /\ stack' = Rest
  /\ found' = Append(found, single)
  /\ missed' = missed \cup (Here \ (Listed(found) \cup {single}))
  /\ phase' = "idle" /\ wire' = <<>>
  /\ UNCHANGED <<single, faults>>

\* Mutant: a device that does not answer is muted again.
MuteDoneRetrying ==
  /\ phase = "muting"
  /\ \E r \in {rdmReadResp(wire)} :
       IF Believed(r) THEN Record(single) /\ phase' = "idle" /\ wire' = <<>>
       ELSE wire' = Reply(single, Mute(single)) /\ UNCHANGED <<vars, phase>>
  /\ UNCHANGED <<single, faults>>

MuteDone ==
  /\ phase = "muting"
  /\ \E r \in {rdmReadResp(wire)} : IF Believed(r) THEN Record(single) ELSE GiveUp
  /\ phase' = "idle" /\ wire' = <<>>
  /\ UNCHANGED <<single, faults>>

Sweeping == Probe \/ ProbeDone \/ MuteDone

LineNext == Sweeping \/ Damage

\* The task that sweeps is scheduled.
LineSpec ==
  LineInit /\ [][LineNext]_<<vars, lineVars>> /\ WF_<<vars, lineVars>>(Sweeping)

-----------------------------------------------------------------------------
(***************************************************************************)
(* Correctness.                                                            *)
(***************************************************************************)
\* A sweep over a line without faults finds every device, unless there are
\* more than it may report or it runs out of requests.
QuietSweepComplete ==
  stack = <<>> /\ faults = 0 => Listed(found) = devices

\* One damaged byte in the answer of one device never makes it another device:
\* the checksum of rdmParseDiscoveryResponse sees to it.
OneFaultNoPhantom ==
  phase = "muting" /\ faults <= 1 /\ Cardinality(Here) = 1 => single \in devices

\* What the bytes do to the search is a step of the search: a device is
\* recorded only if it is there, was asked for, and was not found before.
RefinesSweep == Spec

\* The types of the line's variables.
LineTypeOK ==
  /\ phase \in {"idle", "probing", "muting"} /\ single \in Uid
  /\ wire \in Seq(Byte) /\ faults \in 0..MaxFaults

\* A request under way was allowed to be made, and only a device that is asked
\* for and was not found is muted.
AskedFor ==
  /\ phase # "idle" => More
  /\ phase = "muting" => Fresh(single)

\* A device that is not there does not answer: there is nothing but noise.
OnlyNoise == phase = "muting" /\ single \notin devices => Len(wire) <= 4

\* All bytes are the same, but one perhaps.
OneByteOff(p, q) ==
  /\ Len(p) = Len(q)
  /\ \E n \in 1..Len(q) : \A m \in 1..Len(q) \ {n} : p[m] = q[m]

\* After one fault the answer of one device is whole, lost, or off by a byte.
OneFault ==
  phase = "probing" /\ faults <= 1 =>
    \A d \in Here : Here = {d} => wire = <<>> \/ OneByteOff(wire, DiscoveryResponse(d))

\* On a line without faults nothing was missed, and what is heard is silence,
\* the answer of the only device, or answers that drown each other.
Quiet ==
  faults = 0 =>
    /\ missed = {}
    /\ phase = "probing" =>
         \/ Here = {} /\ wire = <<>>
         \/ \E d \in Here : Here = {d} /\ wire = DiscoveryResponse(d)
         \/ \E d, e \in Here, n \in 0..5+2*UidBytes :
              /\ d # e /\ wire \notin Answers
              /\ wire = Splice(DiscoveryResponse(d), DiscoveryResponse(e), n)
    /\ phase = "muting" =>
         Here = {single} /\ wire = Reply(single, Mute(single))

\* The inductive invariant.
LineIInv ==
  /\ IInv
  /\ LineTypeOK
  /\ AskedFor
  /\ OnlyNoise
  /\ OneFault
  /\ OneFaultNoPhantom
  /\ Quiet

\* Every sweep ends, whatever the line answers.
SweepEnds == <>[](~More)

=============================================================================
