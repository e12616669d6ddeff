------------------------ MODULE MCCCMetricCollector ------------------------
(***************************************************************************)
(* The whole program with one parallel and one serial collector.           *)
(***************************************************************************)
EXTENDS CCMetricCollector

CONSTANTS p1, s1
=============================================================================
