---------------------------- MODULE MCBootGuard ----------------------------
(***************************************************************************)
(* BootGuard with two outputs and a crash counter that wraps after four    *)
(* boots.                                                                  *)
(***************************************************************************)
EXTENDS BootGuard

OnBoard(pinless, init, window) ==
  [pinless |-> pinless, init |-> init, window |-> window]

\* Every output works; the second fails in the window; both do; one is
\* absent.
MCHardware ==
  { OnBoard({}, {}, {}), OnBoard({}, {}, {1}), OnBoard({}, {}, {0, 1}),
    OnBoard({0}, {}, {1}) }

\* The first output panics when it is initialized.
BrokenHardware == {OnBoard({}, {0}, {})}

=============================================================================
