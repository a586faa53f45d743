------------------------------- MODULE ArtNet -------------------------------
(***************************************************************************)
(* What one Art-Net datagram asks for (artnet_poll, artnet_dispatch_packet *)
(* and bridgeDispatch in artnet.c and artnet_bridge.c).                    *)
(***************************************************************************)
EXTENDS Integers, Sequences

CONSTANT Datagrams  \* The datagrams that may arrive.

\* Byte 8 and 9; bytes 14 to 17 where the opcode has them; the bytes from 60.
Datagram ==
  [artnet : BOOLEAN, op : Nat, len : 0..640, universe : Nat, length : Nat,
   tail : Seq(Nat)]

ASSUME DatagramAssumption ==
  /\ Datagrams \subseteq Datagram
  /\ \A d \in Datagrams : Len(d.tail) = IF d.len > 60 THEN d.len - 60 ELSE 0

ArtPoll == 8192     \* 0x2000
ArtDmx == 20480     \* 0x5000
ArtSync == 21248    \* 0x5300
ArtNzs == 22528     \* 0x5800
ArtAddress == 24576 \* 0x6000
ArtRdm == 33536     \* 0x8300

\* artnet_poll hands on what is long enough and says Art-Net.
Accepted(d) == d.len >= 12 /\ d.artnet

\* Mutant: the length field is believed.
ClippedNot(length, payload) ==
  [n \in 1..length |-> IF n <= Len(payload) THEN payload[n] ELSE 255]

\* The length field is clipped to the bytes that are there.
Clipped(length, payload) ==
  SubSeq(payload, 1, IF length < Len(payload) THEN length ELSE Len(payload))

\* What is passed to routeFrame or routeFrameNzs: none or one packet.
Routed(d) ==
  IF d.op = ArtDmx /\ d.len >= 18
    THEN {[universe |-> d.universe, sc |-> 0, data |-> Clipped(d.length, d.tail)]}
  ELSE IF d.op = ArtNzs /\ d.len >= 61
    THEN {[universe |-> d.universe, sc |-> d.tail[1],
           data |-> Clipped(d.length, Tail(d.tail))]}
  ELSE {}

\* ArtSync commits staged frames, of which there are never any; ArtAddress and
\* ArtRdm are only logged.
Ignored(d) == Routed(d) = {} /\ d.op # ArtPoll

=============================================================================
