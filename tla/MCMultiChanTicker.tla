------------------------- MODULE MCMultiChanTicker -------------------------
(***************************************************************************)
(* The ticker with three channels, registered at any time and in any       *)
(* order, read by receivers that may be slow or never read at all.         *)
(***************************************************************************)
EXTENDS MultiChanTicker

CONSTANTS c1, c2, c3
=============================================================================
