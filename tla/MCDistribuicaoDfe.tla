------------------------- MODULE MCDistribuicaoDfe ---------------------------
(* DistribuicaoDfe on small instances. *)
EXTENDS DistribuicaoDfe
=============================================================================
