-------------------------- MODULE MCDocumentoFiscal --------------------------
(* DocumentoFiscal on a small instance. *)
EXTENDS DocumentoFiscal, TLC

Simetria == Permutations(Pedidos)
=============================================================================
