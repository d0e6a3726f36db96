---------------------------- MODULE InboundWorkers ----------------------------
(***************************************************************************)
(* What the two ways of handling a channel message share: the workers of   *)
(* channel.Manager, and the type of the route's session, which decides     *)
(* between RouteStreams and DiscussSession.                                *)
(***************************************************************************)
EXTENDS Integers, Sequences, FiniteSets

CONSTANT Workers        \* goroutines of runInboundWorker

VARIABLE sessionType    \* Session.Type of the route's active session

SessionTypes == {"chat", "discuss"}
=============================================================================
