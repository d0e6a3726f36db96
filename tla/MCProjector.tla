------------------------------ MODULE MCProjector ------------------------------
(***************************************************************************)
(* One task, two goroutines that append, two requests that project at      *)
(* once, and pages of two events.                                          *)
(***************************************************************************)
EXTENDS Projector
=============================================================================
