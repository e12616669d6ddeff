------------------------- MODULE MCCollectorManager -------------------------
(***************************************************************************)
(* The collector manager with two parallel and two serial collectors, of   *)
(* which any may be missing, and a channel to the router that one Read()   *)
(* can fill.                                                               *)
(***************************************************************************)
EXTENDS CollectorManager

CONSTANTS p1, p2, s1, s2
=============================================================================
