-------------------------- MODULE MCFiscalEntregas ---------------------------
(* FiscalEntregas on small instances. *)
EXTENDS FiscalEntregas, TLC

Simetria == Permutations(Entregas) \cup Permutations(Processos)
=============================================================================
