-------------------------------- MODULE MCTurns --------------------------------
(***************************************************************************)
(* One background task and two turns for TLC: Kill, completion, watchdog,  *)
(* trigger goroutines and both turns race for its two notifications.       *)
(***************************************************************************)
EXTENDS SessionTurns, TLC
=============================================================================
