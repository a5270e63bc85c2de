------------------------------- MODULE MCCiap --------------------------------
(* Ciap on a small instance. *)
EXTENDS Ciap, TLC

Simetria == Permutations(Pedidos)
=============================================================================
