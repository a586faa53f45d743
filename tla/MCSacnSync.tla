----------------------------- MODULE MCSacnSync -----------------------------
(***************************************************************************)
(* SacnSync on two outputs, each with a universe and a socket of its own.  *)
(* In Shared both listen to universe 1 and only the first has a socket:    *)
(* there ImmediateOutputsRouted fails.                                     *)
(***************************************************************************)
EXTENDS SacnSync

Out(u, group, sync) ==
  [en |-> TRUE, universe |-> u, group |-> group, sync |-> sync]
Pair(a, b) == [o \in {0, 1} |-> IF o = 0 THEN a ELSE b]

BothSynced == Pair(Out(1, 1, 2), Out(2, 2, 2))
OneSynced == Pair(Out(1, 1, 0), Out(2, 2, 2))
Shared == Pair(Out(1, 1, 0), Out(1, 0, 2))

MCConfigs == {BothSynced, OneSynced}
SharedConfigs == {Shared}

=============================================================================
