------------------------ MODULE MCSimplesFechamento --------------------------
(* SimplesFechamento on small instances. *)
EXTENDS SimplesFechamento, TLC

Simetria == Permutations(Pedidos)
=============================================================================
