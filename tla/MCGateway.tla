----------------------------- MODULE MCGateway -----------------------------
(***************************************************************************)
(* Gateway on a small instance: two outputs, two channels, bytes 0, 1 and  *)
(* 255, and datagrams that are whole, cut off, of a start code, a poll, or *)
(* nothing to do with Art-Net.                                             *)
(***************************************************************************)
EXTENDS Gateway, TLC

Data(universe, length, tail) ==
  [artnet |-> TRUE, op |-> ArtDmx, len |-> 60 + Len(tail), universe |-> universe,
   length |-> length, tail |-> tail]

MCDatagrams ==
  {Data(1, 2, <<255, 1>>), Data(1, 9, <<1>>),
   [Data(1, 1, <<1, 0, 255>>) EXCEPT !.op = ArtNzs],
   [Data(0, 0, <<>>) EXCEPT !.op = ArtPoll, !.len = 14],
   [Data(0, 0, <<>>) EXCEPT !.artnet = FALSE, !.len = 0]}

Plain == [en |-> TRUE, pins |-> TRUE, tx |-> TRUE, uni |-> 1, brk |-> 176,
          mab |-> 12, inv |-> FALSE]

\* Two outputs on universes of their own, one of them badly configured; or an
\* output without pins and an inverted one.
MCConfigs ==
  {[o \in Output |-> IF o = 0 THEN Plain
                     ELSE [Plain EXCEPT !.brk = 20, !.uni = -3]],
   [o \in Output |-> IF o = 0 THEN [Plain EXCEPT !.pins = FALSE, !.tx = FALSE]
                     ELSE [Plain EXCEPT !.inv = TRUE]]}

=============================================================================
