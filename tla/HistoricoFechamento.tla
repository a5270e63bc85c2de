------------------------- MODULE HistoricoFechamento -------------------------
(***************************************************************************)
(* What FiscalClosingService promises about one scope (cliente, obrigacao, *)
(* competencia), without transactions, locks or snapshots: an append-only  *)
(* history of versions.  A version is born as a draft at the end of the    *)
(* history, advances one state at a time, and, when it is closed, becomes  *)
(* in the same step the only current one.  FiscalClosing implements this.  *)
(***************************************************************************)
EXTENDS Naturals, Sequences

CONSTANT Entradas     \* the frozen inputs a version can be sealed with

VARIABLE historico    \* the versions of the scope, in order

Estados == {"RASCUNHO", "PENDENTE", "REVISADO", "FECHADO"}

(* One version: its state, whether it is the current one, its frozen      *)
(* inputs, and the version it rectifies (0 for none).                      *)
Versao == [estado   : Estados,
           corrente : BOOLEAN,
           entradas : Entradas,
           original : Nat]

Sucessor == [RASCUNHO |-> "PENDENTE", PENDENTE |-> "REVISADO"]

Rascunho(e, o) ==
  [estado |-> "RASCUNHO", corrente |-> FALSE, entradas |-> e, original |-> o]

Indices == 1 .. Len(historico)

Fechadas == {v \in Indices : historico[v].estado = "FECHADO"}

-----------------------------------------------------------------------------
HInit == historico = <<>>

(* A new version with inputs of the caller's. *)
AbreCom(e) == historico' = Append(historico, Rascunho(e, 0))

Abre == \E e \in Entradas : AbreCom(e)

(* A correction of a delivered version, which it names. *)
Retifica ==
  \E e \in Entradas, v \in Fechadas : historico' = Append(historico, Rascunho(e, v))

(* A revision that carries the inputs of a delivered version forward. *)
Revisa ==
  \E v \in Fechadas : historico' = Append(historico, Rascunho(historico[v].entradas, 0))

AvancaVersao(v) ==
  /\ historico[v].estado \in DOMAIN Sucessor
  /\ historico' = [historico EXCEPT ![v].estado = Sucessor[@]]

Avanca == \E v \in Indices : AvancaVersao(v)

FechaVersao(v) ==
  /\ historico[v].estado = "REVISADO"
  /\ historico' = [w \in Indices |->
       IF w = v THEN [historico[w] EXCEPT !.estado = "FECHADO", !.corrente = TRUE]
                ELSE [historico[w] EXCEPT !.corrente = FALSE]]

Fecha == \E v \in Indices : FechaVersao(v)

HNext == Abre \/ Retifica \/ Revisa \/ Avanca \/ Fecha

HSpec == HInit /\ [][HNext]_historico
=============================================================================
