-------------------------------- MODULE Inbound --------------------------------
(***************************************************************************)
(* A chat route: its messages are handled by RouteStreams or, when its     *)
(* session is of type discuss, by DiscussSession.  The type does not change*)
(* while messages are handled, and /stop is for both.                      *)
(***************************************************************************)
EXTENDS RouteStreams, DiscussSession

vars == <<sessionType, routeVars, discussVars>>

TypeOK ==
    /\ sessionType \in SessionTypes
    /\ RouteTypeOK
    /\ DiscussTypeOK

Init ==
    /\ sessionType \in SessionTypes
    /\ RouteInit
    /\ DiscussInit

Chat == sessionType = "chat" /\ RouteNext /\ UNCHANGED <<sessionType, discussVars>>

Discuss == sessionType = "discuss" /\ DiscussNext /\ UNCHANGED <<sessionType, routeVars>>

\* A /stop that comes to a discuss session finds no stream.
StopDiscuss ==
    /\ sessionType = "discuss"
    /\ \E w \in Workers : handler[w].at = "free" /\ Stop(w)
    /\ UNCHANGED <<sessionType, discussVars>>

Next == Chat \/ Discuss \/ StopDiscuss

Spec == Init /\ [][Next]_vars
=============================================================================
