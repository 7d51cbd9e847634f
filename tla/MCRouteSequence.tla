--------------------------- MODULE MCRouteSequence ---------------------------
(* One route of chunks of three points, small enough to look inside. *)
EXTENDS RouteSequence
Ids == 1..6
=============================================================================
