-------------------------- MODULE MCCteEscrituracao --------------------------
(* CteEscrituracao alone: an original, its annulment and its substitution.  *)
EXTENDS Integers, Sequences, TLC

CONSTANTS Chaves, Pedidos, Nada, o, n, s

VARIABLES xml, linhaCte, tx, cruzadas

Normal == [papel |-> "TOMADOR", tpCte |-> "0", tpServ |-> "0", autorizada |-> TRUE,
           apura |-> TRUE, cstCredita |-> TRUE, cfop |-> "credita", ref |-> Nada]

Trio == (o :> Normal) @@ (n :> [Normal EXCEPT !.tpCte = "2", !.ref = o])
          @@ (s :> [Normal EXCEPT !.tpCte = "3", !.ref = o])

INSTANCE CteEscrituracao WITH Emissoes <- {Trio}
=============================================================================
