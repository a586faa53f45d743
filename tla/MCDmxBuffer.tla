---------------------------- MODULE MCDmxBuffer ----------------------------
(***************************************************************************)
(* DmxBuffer on a small instance: cells 0 (start code) and 1, two values,  *)
(* a ticket of three bits so that it wraps, and the transmit task as the   *)
(* reader: readers share nothing but tornSkips.                            *)
(***************************************************************************)
EXTENDS DmxBuffer, TLC

CONSTANTS dmxTx, httpd

=============================================================================
