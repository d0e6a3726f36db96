------------------------------- MODULE MCInbound -------------------------------
(***************************************************************************)
(* Two workers, four messages of a chat session or three of a discuss one. *)
(* All the properties are invariants, and neither workers nor messages are *)
(* told apart.                                                             *)
(***************************************************************************)
EXTENDS Inbound, TLC

Alike == Permutations(Workers) \cup Permutations(Msgs)
=============================================================================
