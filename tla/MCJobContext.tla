---------------------------- MODULE MCJobContext ----------------------------
(***************************************************************************)
(* Two requests of a route with two handlers, one after the other on a     *)
(* context, for TLC.                                                       *)
(***************************************************************************)
EXTENDS JobContext

ChainOnly == {"chain"}
ChainRoutes == [m \in ChainOnly |-> 2]
=============================================================================
