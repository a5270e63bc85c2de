--------------------------- MODULE MCFiscalClosing ---------------------------
(* FiscalClosing on small instances. *)
EXTENDS FiscalClosing, TLC

Simetria == Permutations(Procs) \cup Permutations(Entradas)
=============================================================================
