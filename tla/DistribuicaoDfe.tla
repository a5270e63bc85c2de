--------------------------- MODULE DistribuicaoDfe ---------------------------
(***************************************************************************)
(* DistribuicaoDfeService.sincronizarCliente for one client and one type   *)
(* of document: the row of controle_nsu, which holds the cursor of what    *)
(* was received from SEFAZ and the claim of the running synchronisation,   *)
(* and the synchronisations (cron, admin endpoint) that compete for it.    *)
(*                                                                         *)
(* The cursor and the waiting time are read BEFORE the claim, every update *)
(* of the row but the last names it by id only, and a claim older than 15  *)
(* minutes may be taken over. A document is "treated" when it was stored,  *)
(* or set aside on purpose (an event, a note of third parties).            *)
(***************************************************************************)
EXTENDS Naturals, FiniteSets, FiniteSetsExt

CONSTANTS
  Sincs,      \* synchronisations that may run at the same time
  UltimoNsu,  \* bound: documents SEFAZ will issue, numbered 1 .. UltimoNsu
  TamLote,    \* documents SEFAZ sends at most in a batch
  MaxLotes,   \* MAX_LOTES_POR_SINCRONIZACAO
  Omissao,    \* what may be missing from a batch: "nada", "fim", "qualquer"
  MaxFalhas,  \* bound: errors, crashes and slow synchronisations
  Nada        \* no synchronisation

ASSUME DfeAssumption ==
  /\ UltimoNsu \in Nat
  /\ TamLote \in Nat \ {0}
  /\ MaxLotes \in Nat \ {0}
  /\ Omissao \in {"nada", "fim", "qualquer"}
  /\ MaxFalhas \in Nat
  /\ Nada \notin Sincs

VARIABLES
  emitidos,   \* documents SEFAZ has issued for the client
  tratados,   \* documents stored or set aside
  controle,   \* the row of controle_nsu
  pc,         \* next step of each synchronisation
  local,      \* what each synchronisation holds
  falhas      \* failures so far

vars == <<emitidos, tratados, controle, pc, local, falhas>>

Nsus == 1 .. UltimoNsu

(* "espera": proximaConsultaEm lies in the future. "dono" and "vencido":   *)
(* sincronizacaoId and whether it is older than the TTL. *)
Controle == [ultimo : 0 .. UltimoNsu, max : 0 .. UltimoNsu, espera : BOOLEAN,
             dono : Sincs \cup {Nada}, vencido : BOOLEAN]

(* The cursor and the highest number it knows; of the batch in progress,   *)
(* its last number, the documents left, the last one treated, and whether  *)
(* one failed; and the batches done. *)
Local == [cursor : 0 .. UltimoNsu, max : 0 .. UltimoNsu,
          ult : 0 .. UltimoNsu, docs : SUBSET Nsus, seguro : 0 .. UltimoNsu,
          falhou : BOOLEAN, lotes : 0 .. MaxLotes]

Vazio == [cursor |-> 0, max |-> 0, ult |-> 0, docs |-> {}, seguro |-> 0,
          falhou |-> FALSE, lotes |-> 0]

Pontos == {"ocioso", "reivindicar", "consultar", "processar",
           "adiar", "esgotar", "finalizar"}

Maior(a, b) == IF a >= b THEN a ELSE b

Menor(a, b) == IF a <= b THEN a ELSE b

Ir(p, ponto) == pc' = [pc EXCEPT ![p] = ponto] /\ local' = local

Encerrar(p) ==
  /\ pc' = [pc EXCEPT ![p] = "ocioso"]
  /\ local' = [local EXCEPT ![p] = Vazio]

Falha == falhas < MaxFalhas /\ falhas' = falhas + 1

-----------------------------------------------------------------------------
(* The control row is read; if its waiting time lies ahead the             *)
(* synchronisation is put off and changes nothing. *)
Ler(p) ==
  /\ pc[p] = "ocioso"
  /\ ~controle.espera
  /\ pc' = [pc EXCEPT ![p] = "reivindicar"]
  /\ local' = [local EXCEPT ![p].cursor = controle.ultimo, ![p].max = controle.max]
  /\ UNCHANGED <<emitidos, tratados, controle, falhas>>

(* Variant for mutation: the claim of a dead synchronisation is for ever. *)
DisponivelSemPrazo == controle.dono = Nada

Disponivel == controle.dono = Nada \/ controle.vencido

(* tentarIniciarSincronizacao: one conditional UPDATE. *)
Reivindicar(p) ==
  /\ pc[p] = "reivindicar"
  /\ IF Disponivel
     THEN /\ controle' = [controle EXCEPT !.dono = p, !.vencido = FALSE]
          /\ Ir(p, "consultar")
     ELSE Encerrar(p) /\ UNCHANGED controle
  /\ UNCHANGED <<emitidos, tratados, falhas>>

(* The docZip the parser finds in a batch; an empty one is skipped. *)
Extraidos(lote) ==
  {D \in SUBSET lote :
     /\ Omissao = "nada" => D = lote
     /\ Omissao = "fim" => D # {} /\ \A n \in D, m \in lote : m <= n => m \in D}

(* SEFAZ answers 138: the documents after the cursor. *)
ConsultarLote(p) ==
  /\ pc[p] = "consultar"
  /\ local[p].cursor < emitidos
  /\ LET c == local[p].cursor
         u == Menor(c + TamLote, emitidos)
     IN  \E D \in Extraidos((c + 1) .. u) :
           local' = [local EXCEPT ![p].max = Maior(@, emitidos), ![p].ult = u,
                                  ![p].docs = D, ![p].seguro = c, ![p].falhou = FALSE]
  /\ pc' = [pc EXCEPT ![p] = "processar"]
  /\ UNCHANGED <<emitidos, tratados, controle, falhas>>

(* SEFAZ answers 137: nothing after the cursor. *)
ConsultarVazio(p) ==
  /\ pc[p] = "consultar"
  /\ local[p].cursor >= emitidos
  /\ local' = [local EXCEPT ![p].max = Maior(@, emitidos)]
  /\ pc' = [pc EXCEPT ![p] = "esgotar"]
  /\ UNCHANGED <<emitidos, tratados, controle, falhas>>

(* 656, an inconsistent answer, a schema or network error, or a refusal of *)
(* SefazConsultaControlService; or the manifestation of pending summaries  *)
(* throws and nothing is put off. *)
ConsultarErro(p) ==
  /\ pc[p] = "consultar"
  /\ Falha
  /\ \E ponto \in {"adiar", "esgotar", "finalizar"} : Ir(p, ponto)
  /\ UNCHANGED <<emitidos, tratados, controle>>

-----------------------------------------------------------------------------
(* The documents of a batch, in the order of their numbers.                *)

Proximo(p) == Min(local[p].docs)

(* salvarDocumento, salvarResumoNfe, or set aside. *)
Tratar(p) ==
  /\ pc[p] = "processar"
  /\ local[p].docs # {}
  /\ tratados' = tratados \cup {Proximo(p)}
  /\ local' = [local EXCEPT ![p].docs = @ \ {Proximo(p)}, ![p].seguro = Proximo(p)]
  /\ UNCHANGED <<emitidos, controle, pc, falhas>>

(* It throws, possibly after the document was committed: break. *)
TratarErro(p) ==
  /\ pc[p] = "processar"
  /\ local[p].docs # {}
  /\ Falha
  /\ tratados' \in {tratados, tratados \cup {Proximo(p)}}
  /\ local' = [local EXCEPT ![p].docs = {}, ![p].falhou = TRUE]
  /\ UNCHANGED <<emitidos, controle, pc>>

LoteIncompleto(p) == local[p].falhou \/ local[p].seguro # local[p].ult

(* Variant for mutation: the cursor goes to the end of the batch. *)
CursorDoLote(p) == local[p].ult

(* Where the cursor goes: the last document treated without a failure. *)
CursorSalvo(p) == local[p].seguro

Atualizado(p) ==
  [controle EXCEPT
     !.ultimo = CursorSalvo(p),
     !.max    = local[p].max,
     !.espera = ~LoteIncompleto(p) /\ CursorSalvo(p) >= local[p].max]

GravarCursor(p) ==
  /\ pc[p] = "processar"
  /\ local[p].docs = {}
  /\ controle' = Atualizado(p)
  /\ local' = [local EXCEPT ![p].cursor = CursorSalvo(p), ![p].lotes = @ + 1]
  /\ pc' = [pc EXCEPT ![p] =
       IF LoteIncompleto(p) \/ CursorSalvo(p) >= local[p].max \/ local'[p].lotes = MaxLotes
       THEN "finalizar" ELSE "consultar"]
  /\ UNCHANGED <<emitidos, tratados, falhas>>

(* The next consultation is put off: after an error, or after 137 or 656,  *)
(* when the highest number is kept too. *)
Adiado(p) ==
  IF pc[p] = "adiar" THEN [controle EXCEPT !.espera = TRUE]
  ELSE [controle EXCEPT !.espera = TRUE, !.max = local[p].max]

Adiar(p) ==
  /\ pc[p] \in {"adiar", "esgotar"}
  /\ controle' = Adiado(p)
  /\ Ir(p, "finalizar")
  /\ UNCHANGED <<emitidos, tratados, falhas>>

(* The update of the row throws, or commits and its answer is lost.        *)
GravarErro(p) ==
  /\ \/ pc[p] = "processar" /\ local[p].docs = {} /\ controle' \in {controle, Atualizado(p)}
     \/ pc[p] \in {"adiar", "esgotar"} /\ controle' \in {controle, Adiado(p)}
  /\ Falha
  /\ Ir(p, "finalizar")
  /\ UNCHANGED <<emitidos, tratados>>

-----------------------------------------------------------------------------
(* Variant for mutation: the claim is released whoever holds it. *)
FinalizarQualquer(p) ==
  /\ pc[p] = "finalizar"
  /\ controle' = [controle EXCEPT !.dono = Nada, !.vencido = FALSE]
  /\ Encerrar(p)
  /\ UNCHANGED <<emitidos, tratados, falhas>>

(* finalizarSincronizacao: only the claim that is still this one's. *)
Finalizar(p) ==
  /\ pc[p] = "finalizar"
  /\ controle' = IF controle.dono = p
                 THEN [controle EXCEPT !.dono = Nada, !.vencido = FALSE]
                 ELSE controle
  /\ Encerrar(p)
  /\ UNCHANGED <<emitidos, tratados, falhas>>

(* The release fails and is only logged; or the process dies. *)
Cair(p) ==
  /\ pc[p] # "ocioso"
  /\ Falha
  /\ Encerrar(p)
  /\ UNCHANGED <<emitidos, tratados, controle>>

(* Fifteen minutes pass on a claim. If its synchronisation is still        *)
(* running, it is slow, which counts as a failure. *)
Vencer ==
  /\ controle.dono # Nada
  /\ ~controle.vencido
  /\ controle' = [controle EXCEPT !.vencido = TRUE]
  /\ IF pc[controle.dono] \in {"ocioso", "reivindicar"} THEN falhas' = falhas ELSE Falha
  /\ UNCHANGED <<emitidos, tratados, pc, local>>

(* The waiting time is over. *)
Passar ==
  /\ controle.espera
  /\ controle' = [controle EXCEPT !.espera = FALSE]
  /\ UNCHANGED <<emitidos, tratados, pc, local, falhas>>

Emitir ==
  /\ emitidos < UltimoNsu
  /\ emitidos' = emitidos + 1
  /\ UNCHANGED <<tratados, controle, pc, local, falhas>>

Init ==
  /\ emitidos = 0
  /\ tratados = {}
  /\ controle = [ultimo |-> 0, max |-> 0, espera |-> FALSE, dono |-> Nada, vencido |-> FALSE]
  /\ pc = [p \in Sincs |-> "ocioso"]
  /\ local = [p \in Sincs |-> Vazio]
  /\ falhas = 0

Trabalhar(p) ==
  \/ Reivindicar(p) \/ ConsultarLote(p) \/ ConsultarVazio(p)
  \/ Tratar(p) \/ GravarCursor(p) \/ Adiar(p) \/ Finalizar(p)

Falhar(p) ==
  \/ ConsultarErro(p) \/ TratarErro(p) \/ GravarErro(p) \/ Cair(p)

Next ==
  \/ \E p \in Sincs : Ler(p) \/ Trabalhar(p) \/ Falhar(p)
  \/ Vencer \/ Passar \/ Emitir

Spec == Init /\ [][Next]_vars

(* The cron is called every day, a running synchronisation goes on unless  *)
(* it fails, and time passes. Nothing forces SEFAZ to issue documents.     *)
Fairness ==
  /\ WF_vars(\E p \in Sincs : Ler(p))
  /\ \A p \in Sincs : WF_vars(Trabalhar(p))
  /\ WF_vars(Vencer)
  /\ WF_vars(Passar)

FairSpec == Spec /\ Fairness

-----------------------------------------------------------------------------
(* Properties.                                                             *)

(* Every variable stays in its set. *)
TypeOK ==
  /\ emitidos \in 0 .. UltimoNsu
  /\ tratados \subseteq Nsus
  /\ controle \in Controle
  /\ pc \in [Sincs -> Pontos]
  /\ local \in [Sincs -> Local]
  /\ falhas \in 0 .. MaxFalhas

(* The stored cursor never passes a document that was not treated: what it *)
(* has passed is never asked of SEFAZ again. It holds past failures in the *)
(* middle of a batch, crashes before the update, cursors read before the   *)
(* claim, and slow synchronisations that write over a faster one's cursor. *)
CursorSeguro == 1 .. controle.ultimo \subseteq tratados

(* A claim within its TTL is given up only by the synchronisation that     *)
(* made it: one that lost its own to a takeover never releases the other's.*)
ClaimPreservado ==
  [][\A p \in Sincs :
       /\ controle.dono = p /\ ~controle.vencido
       /\ pc[p] \notin {"ocioso", "reivindicar"}
       => controle'.dono = p \/ pc'[p] = "ocioso"]_vars

(* "Resume without losing notes": again and again every document that      *)
(* SEFAZ issued has been treated, past finitely many errors, crashes and   *)
(* takeovers; as the documents are finite, each one is in the end. *)
NotaChega == []<>(1 .. emitidos \subseteq tratados)
=============================================================================
