------------------------ MODULE SequentialDispatchMC ------------------------
(* Small instances of SequentialDispatch for model checking. *)
EXTENDS SequentialDispatch

CONSTANTS a, b, c, rebuild
=============================================================================
