---------------------------- MODULE MCPacketRing ----------------------------
(***************************************************************************)
(* PacketRing with three slots whose indices wrap after two laps, and      *)
(* packets of two cells, so that a packet can be seen half copied.         *)
(***************************************************************************)
EXTENDS PacketRing

=============================================================================
