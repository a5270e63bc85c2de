---------------------------- MODULE PagamentosGuia ----------------------------
(***************************************************************************)
(* FiscalGuiasService over the fiscal guias of one client: criarGuia by    *)
(* idempotency key, marcarPagamento, cancelarGuia and the append-only      *)
(* trail of registrarEventoPagamento, together with what GuiasService does *)
(* to the same rows: uploadGuia links the official PDF and confirmPayment  *)
(* reconciles its payment. The flag of marcarEmitidaNoOrgao, which nothing *)
(* reads, is left out. *)
(*                                                                         *)
(* The operations of FiscalGuiasService run no transaction: each reads the *)
(* guia (and the trail), checks, and writes in a later statement.          *)
(* confirmPayment is a READ COMMITTED transaction that holds the row of    *)
(* the upload from its first statement and the row of the guia from its    *)
(* last one. Guias and events are never deleted.                           *)
(***************************************************************************)
EXTENDS Integers, SequencesExt

CONSTANTS
  Guias,        \* ids of guias
  Pedidos,      \* requests
  Nada,         \* no guia
  ValorTotal,   \* what each guia is worth
  Valores,      \* amounts of an event
  ValorUpload,  \* the amount the uploaded PDF states
  MaxEventos    \* bound: events, all trails together

PagamentosAssumption ==
  /\ Nada \notin Guias
  /\ ValorTotal \in Nat \ {0}
  /\ Valores \subseteq Nat \ {0}
  /\ ValorUpload \in Nat \ {0}
  /\ MaxEventos \in Nat

VARIABLES
  guias,        \* rows of fiscal_apuracoes_guias
  trilha,       \* rows of fiscal_pagamentos_eventos, by guia, in order of creation
  upload,       \* the uploaded PDF: the guia it is linked to, and whether it is paid
  respondidas,  \* history: guias answered to requests that carry the key
  pc,           \* next statement of each request
  req           \* what each request asked for and read

dados == <<guias, trilha, upload>>
vars == <<dados, respondidas, pc, req>>

(* VENCIDO claims as little as PENDENTE, and stands with it. *)
Estados == {"AUSENTE", "PENDENTE", "PAGO"}

(* "chave": whether it was created with the idempotency key. *)
Guia == [status : Estados, chave : BOOLEAN, cancelada : BOOLEAN]

Ausente == [status |-> "AUSENTE", chave |-> FALSE, cancelada |-> FALSE]

Nova(comChave) == [Ausente EXCEPT !.status = "PENDENTE", !.chave = comChave]

Existentes == {g \in Guias : guias[g].status # "AUSENTE"}

ComChave == {g \in Guias : guias[g].chave}

(* A total and a partial payment have the same effect. "estorna": position *)
(* in the trail of the event a reversal refers to, 0 for a payment.        *)
Evento == [sinal : {1, -1}, valor : Nat, estorna : Nat, origem : {"MANUAL", "CONCILIACAO"}]

SemEvento == [sinal |-> 1, valor |-> 0, estorna |-> 0, origem |-> "MANUAL"]

Efeito(e, acc) == acc + e.sinal * e.valor

(* projetarSaldoObrigacao: the balance is never stored. *)
TotalPago(eventos) == FoldSeq(Efeito, 0, eventos)

Quitada(eventos) == ValorTotal - TotalPago(eventos) <= 0

TotalDeEventos == FoldFunction(LAMBDA s, n : n + Len(s), 0, trilha)

Pontos == {"ocioso", "inserir", "reler", "projetar", "marcar", "registrar",
           "lerFiscal", "lerTrilha", "gravarFiscal", "confirmar"}

Livre == [guia |-> Nada, status |-> "AUSENTE", evento |-> SemEvento, quita |-> FALSE]

Iniciar(p, ponto, r) ==
  /\ pc[p] = "ocioso"
  /\ pc' = [pc EXCEPT ![p] = ponto]
  /\ req' = [req EXCEPT ![p] = r]

Ir(p, ponto) == pc' = [pc EXCEPT ![p] = ponto] /\ req' = req

Encerrar(p) == pc' = [pc EXCEPT ![p] = "ocioso"] /\ req' = [req EXCEPT ![p] = Livre]

(* confirmPayment has updated the guia and not committed yet. *)
Travada(g) == \E p \in Pedidos : pc[p] = "confirmar" /\ req[p].guia = g

-----------------------------------------------------------------------------
(* criarGuia.                                                              *)

Responder(p, g) == respondidas' = respondidas \cup {g} /\ Encerrar(p)

(* The lookup by key: a guia that exists is the answer. *)
BuscarChave(p) ==
  /\ pc[p] = "ocioso"
  /\ \/ \E g \in ComChave : Responder(p, g)
     \/ ComChave = {} /\ Iniciar(p, "inserir", Livre) /\ UNCHANGED respondidas
  /\ UNCHANGED dados

(* INSERT; the answer may be lost, and the caller ask again. Another       *)
(* request with the key may have inserted meanwhile: unique violation.     *)
Inserir(p) ==
  /\ pc[p] = "inserir"
  /\ \/ /\ ComChave = {}
        /\ \E g \in Guias \ Existentes :
             /\ guias' = [guias EXCEPT ![g] = Nova(TRUE)]
             /\ \/ Responder(p, g)
                \/ Encerrar(p) /\ UNCHANGED respondidas
     \/ ComChave # {} /\ Ir(p, "reler") /\ UNCHANGED <<guias, respondidas>>
  /\ UNCHANGED <<trilha, upload>>

(* buscarPorIdempotencyKey again: the guia of the request that won. *)
Reler(p) ==
  /\ pc[p] = "reler"
  /\ \E g \in ComChave : Responder(p, g)
  /\ UNCHANGED dados

(* Without a key there is no deduplication. *)
CriarSemChave(p) ==
  /\ pc[p] = "ocioso"
  /\ \E g \in Guias \ Existentes : guias' = [guias EXCEPT ![g] = Nova(FALSE)]
  /\ UNCHANGED <<trilha, upload, respondidas, pc, req>>

-----------------------------------------------------------------------------
(* marcarPagamento and cancelarGuia.                                       *)

(* Only PAGO is checked. *)
PedirStatus(p) ==
  /\ \E g \in Existentes, s \in Estados \ {"AUSENTE"} :
       /\ s = "PAGO" => ~guias[g].cancelada
       /\ Iniciar(p, IF s = "PAGO" THEN "projetar" ELSE "marcar",
                  [Livre EXCEPT !.guia = g, !.status = s])
  /\ UNCHANGED <<dados, respondidas>>

(* Variant for mutation: any event will do. *)
RespaldadaPorEvento(g) == trilha[g] # <<>>

Respaldada(g) == trilha[g] # <<>> /\ Quitada(trilha[g])

(* projetarSaldoDaTrilha. *)
Projetar(p) ==
  /\ pc[p] = "projetar"
  /\ IF Respaldada(req[p].guia) THEN Ir(p, "marcar") ELSE Encerrar(p)
  /\ UNCHANGED <<dados, respondidas>>

(* The update looks at nothing but the id. *)
Marcar(p) ==
  /\ pc[p] = "marcar"
  /\ ~Travada(req[p].guia)
  /\ guias' = [guias EXCEPT ![req[p].guia].status = req[p].status]
  /\ Encerrar(p)
  /\ UNCHANGED <<trilha, upload, respondidas>>

(* One statement; repeating it is harmless. *)
Cancelar(p) ==
  /\ pc[p] = "ocioso"
  /\ \E g \in Existentes :
       ~Travada(g) /\ guias' = [guias EXCEPT ![g].cancelada = TRUE]
  /\ UNCHANGED <<trilha, upload, respondidas, pc, req>>

-----------------------------------------------------------------------------
(* registrarEventoPagamento.                                               *)

Pagamentos == [sinal : {1}, valor : Valores, estorna : {0}, origem : {"MANUAL"}]

(* assertEventoDaGuia asks only that the event is of the guia: it may be a *)
(* reversal, or be reversed already, and the amount is the caller's.       *)
Estornos(g) ==
  [sinal : {-1}, valor : Valores, estorna : DOMAIN trilha[g], origem : {"MANUAL"}]

PedirEvento(p) ==
  /\ \E g \in Existentes :
       /\ ~guias[g].cancelada
       /\ \E e \in Pagamentos \cup Estornos(g) :
            Iniciar(p, "registrar", [Livre EXCEPT !.guia = g, !.evento = e])
  /\ UNCHANGED <<dados, respondidas>>

Acrescentar(g, e) ==
  /\ TotalDeEventos < MaxEventos
  /\ trilha' = [trilha EXCEPT ![g] = Append(@, e)]

(* The status of the guia is not touched, by a reversal either. *)
Registrar(p) ==
  /\ pc[p] = "registrar"
  /\ Acrescentar(req[p].guia, req[p].evento)
  /\ Encerrar(p)
  /\ UNCHANGED <<guias, upload, respondidas>>

-----------------------------------------------------------------------------
(* The official PDF.                                                       *)

(* uploadGuia: the guia was found valid before; what it re-checks now is   *)
(* only that no other upload took it. *)
VincularUpload ==
  /\ upload.guia = Nada
  /\ \E g \in Existentes : upload' = [upload EXCEPT !.guia = g]
  /\ UNCHANGED <<guias, trilha, respondidas, pc, req>>

(* confirmPayment: UPDATE ... WHERE status <> 'PAGO' on the upload, which  *)
(* waits for another confirmation of it. *)
PagarUpload(p) ==
  /\ upload.guia # Nada
  /\ ~upload.paga
  /\ \A q \in Pedidos : pc[q] \notin {"lerFiscal", "lerTrilha", "gravarFiscal", "confirmar"}
  /\ Iniciar(p, "lerFiscal", Livre)
  /\ UNCHANGED <<dados, respondidas>>

(* A cancelled guia gets no event; the upload is paid all the same. *)
LerFiscal(p) ==
  /\ pc[p] = "lerFiscal"
  /\ IF guias[upload.guia].cancelada
     THEN Ir(p, "confirmar")
     ELSE /\ pc' = [pc EXCEPT ![p] = "lerTrilha"]
          /\ req' = [req EXCEPT ![p].guia = upload.guia]
  /\ UNCHANGED <<dados, respondidas>>

Conciliacao == [SemEvento EXCEPT !.valor = ValorUpload, !.origem = "CONCILIACAO"]

(* FISCAL_ALREADY_SETTLED, or the event and what it does to the balance.   *)
LerTrilha(p) ==
  /\ pc[p] = "lerTrilha"
  /\ LET eventos == trilha[req[p].guia]
     IN  IF Quitada(eventos)
         THEN Encerrar(p)
         ELSE /\ pc' = [pc EXCEPT ![p] = "gravarFiscal"]
              /\ req' = [req EXCEPT ![p].evento = Conciliacao,
                                    ![p].quita = Quitada(Append(eventos, Conciliacao))]
  /\ UNCHANGED <<dados, respondidas>>

(* Variant for mutation: the update does not look at "cancelada" again.    *)
GravarFiscalSemCondicao(p) ==
  /\ pc[p] = "gravarFiscal"
  /\ Ir(p, "confirmar")
  /\ UNCHANGED <<dados, respondidas>>

(* INSERT of the event and UPDATE ... WHERE cancelada = false of the guia: *)
(* PAYMENT_FISCAL_LINK_CHANGED rolls everything back. *)
GravarFiscal(p) ==
  /\ pc[p] = "gravarFiscal"
  /\ IF guias[req[p].guia].cancelada THEN Encerrar(p) ELSE Ir(p, "confirmar")
  /\ UNCHANGED <<dados, respondidas>>

Confirmar(p) ==
  /\ pc[p] = "confirmar"
  /\ upload' = [upload EXCEPT !.paga = TRUE]
  /\ LET g == req[p].guia
     IN  IF g = Nada
         THEN UNCHANGED <<guias, trilha>>
         ELSE /\ Acrescentar(g, req[p].evento)
              /\ guias' = [guias EXCEPT ![g].status = IF req[p].quita THEN "PAGO" ELSE @]
  /\ Encerrar(p)
  /\ UNCHANGED respondidas

(* A statement fails or the process dies. *)
Falhar(p) ==
  /\ pc[p] # "ocioso"
  /\ Encerrar(p)
  /\ UNCHANGED <<dados, respondidas>>

-----------------------------------------------------------------------------
Init ==
  /\ guias = [g \in Guias |-> Ausente]
  /\ trilha = [g \in Guias |-> <<>>]
  /\ upload = [guia |-> Nada, paga |-> FALSE]
  /\ respondidas = {}
  /\ pc = [p \in Pedidos |-> "ocioso"]
  /\ req = [p \in Pedidos |-> Livre]

Pedir(p) ==
  \/ BuscarChave(p) \/ CriarSemChave(p) \/ Cancelar(p)
  \/ PedirStatus(p) \/ PedirEvento(p) \/ PagarUpload(p)

Prosseguir(p) ==
  \/ Inserir(p) \/ Reler(p) \/ Projetar(p) \/ Marcar(p) \/ Registrar(p)
  \/ LerFiscal(p) \/ LerTrilha(p) \/ GravarFiscal(p) \/ Confirmar(p)

Next ==
  \/ \E p \in Pedidos : Pedir(p) \/ Prosseguir(p) \/ Falhar(p)
  \/ VincularUpload

Spec == Init /\ [][Next]_vars

-----------------------------------------------------------------------------
(* Properties.                                                             *)

(* Every variable stays in its set. *)
TypeOK ==
  /\ guias \in [Guias -> Guia]
  /\ trilha \in [Guias -> Seq(Evento)]
  /\ upload \in [guia : Guias \cup {Nada}, paga : BOOLEAN]
  /\ respondidas \subseteq Guias
  /\ pc \in [Pedidos -> Pontos]
  /\ req \in [Pedidos -> [guia : Guias \cup {Nada}, status : Estados,
                          evento : Evento, quita : BOOLEAN]]

(* criarGuia: a retry, or two requests at once with the same key, create   *)
(* one guia, and every answer names it. *)
UmaGuiaPorChave ==
  /\ \A g, h \in ComChave : g = h
  /\ respondidas \subseteq ComChave

(* The payments alone, without the reversals. *)
Entrada(e, acc) == acc + (IF e.sinal = 1 THEN e.valor ELSE 0)

TotalRecebido(eventos) == FoldSeq(Entrada, 0, eventos)

(* marcarPagamento: "PAGO" is only possible when there is a receipt or a   *)
(* declaration behind it. Whatever reversals and cancellations pass        *)
(* between the projection and the update, the payments of the trail of a   *)
(* guia that is PAGO amount to its total. (Its balance may be open again:  *)
(* a reversal does not touch the status.) *)
PagoRespaldado ==
  \A g \in Guias :
    guias[g].status = "PAGO" => TotalRecebido(trilha[g]) >= ValorTotal

(* confirmPayment records no payment of a guia that is cancelled, even by  *)
(* a cancellation that came after it read the guia. (registrarEvento-      *)
(* Pagamento, which does not check again, may.)                            *)
ConciliacaoRespeitaCancelamento ==
  [][\A g \in Guias :
       trilha'[g] # trilha[g] /\ Last(trilha'[g]).origem = "CONCILIACAO" =>
         ~guias[g].cancelada]_vars
=============================================================================
