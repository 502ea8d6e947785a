--------------------------- MODULE MCGateThreads ---------------------------
(***************************************************************************)
(* Four calls on a gate that is entered twice: two that race at the first  *)
(* entry, one that comes late, and one at the second.                      *)
(***************************************************************************)
EXTENDS GateThreads
=============================================================================
