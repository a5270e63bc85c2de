-------------------------- MODULE MCGuiaDocumentos ---------------------------
(* GuiaDocumentos on small instances. *)
EXTENDS GuiaDocumentos, TLC

Simetria == Permutations(Guias) \cup Permutations(Recibos) \cup Permutations(Processos)
=============================================================================
