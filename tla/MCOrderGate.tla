---------------------------- MODULE MCOrderGate ----------------------------
(***************************************************************************)
(* An instance of OrderGate with the event loop alone.                     *)
(***************************************************************************)
EXTENDS OrderGate

CONSTANT loop

OneCaller == {loop}
=============================================================================
