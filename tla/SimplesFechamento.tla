-------------------------- MODULE SimplesFechamento --------------------------
(***************************************************************************)
(* SimplesNacionalService.apurar and .fechar for one client and one month: *)
(* the versions of fiscal_simples_apuracoes, the DAS closing of the month  *)
(* as HistoricoFechamento promises it (no other code opens or closes it),  *)
(* and the DAS guias, which FiscalGuiasService creates by idempotency key. *)
(*                                                                         *)
(* apurar is one REPEATABLE READ transaction under an advisory lock, whose *)
(* snapshot is taken by the statement that waits for the lock. fechar      *)
(* holds no lock: it reads the draft, carries the closing through four     *)
(* transactions, stores its id, creates the guia, and promotes the draft   *)
(* in a last READ COMMITTED transaction of two updates. It may die at any  *)
(* point and be called again.                                              *)
(***************************************************************************)
EXTENDS Naturals, Sequences

CONSTANTS
  Pedidos,    \* requests that may run at the same time
  MaxVersao,  \* bound: versions of the apuracao
  MaxFech,    \* bound: versions of the closing
  Nada        \* no request

SimplesAssumption ==
  /\ MaxVersao \in Nat
  /\ MaxFech \in Nat
  /\ Nada \notin Pedidos

Versoes == 1 .. MaxVersao

VARIABLES
  historico,  \* the DAS closing; its inputs are named by the apuracao
  apuracoes,  \* committed rows of fiscal_simples_apuracoes, by version
  guias,      \* DAS guia of each apuracao: its closing, 0 when there is none
  lock,       \* holder of the advisory lock of apurar
  pc,         \* next statement of each request
  req,        \* what each request read and holds
  area,       \* rows as written by each open transaction
  tocadas     \* which rows those are; they stay locked until it ends

fiscal == <<historico, guias>>
vars == <<historico, apuracoes, guias, lock, pc, req, area, tocadas>>

H == INSTANCE HistoricoFechamento WITH Entradas <- Versoes

(* "devida": whether there is tax to pay, hence a guia. *)
Apuracao == [status : {"AUSENTE", "RASCUNHO", "FECHADO", "RETIFICADO"},
             corrente : BOOLEAN, devida : BOOLEAN,
             fech : 0 .. MaxFech, guia : BOOLEAN]

Ausente == [status |-> "AUSENTE", corrente |-> FALSE, devida |-> FALSE,
            fech |-> 0, guia |-> FALSE]

TabelaVazia == [v \in Versoes |-> Ausente]

(* "visto": the snapshot of apurar, or the rows an update of fechar saw. *)
Requisicao == [alvo : {0} \cup Versoes, fech : 0 .. MaxFech, guia : BOOLEAN,
               visto : [Versoes -> Apuracao]]

Livre == [alvo |-> 0, fech |-> 0, guia |-> FALSE, visto |-> TabelaVazia]

PontosApurar == {"lock", "gravar", "confirmarApurar"}

PontosFechar == {"abrir", "pendente", "revisado", "fecharVersao", "vincular",
                 "guia", "ler", "desmarcar", "promover", "confirmar"}

Pontos == {"ocioso"} \cup PontosApurar \cup PontosFechar

Existentes(t) == {v \in Versoes : t[v].status # "AUSENTE"}

Rascunhos(t) == {v \in Versoes : t[v].status = "RASCUNHO"}

Correntes(t) == {v \in Versoes : t[v].corrente}

Ir(p, ponto) == pc' = [pc EXCEPT ![p] = ponto]

(* A row written by an open transaction makes other writers wait. *)
Travada(p, v) == \E q \in Pedidos \ {p} : v \in tocadas[q]

Terminar(p) ==
  /\ Ir(p, "ocioso")
  /\ req' = [req EXCEPT ![p] = Livre]
  /\ area' = [area EXCEPT ![p] = TabelaVazia]
  /\ tocadas' = [tocadas EXCEPT ![p] = {}]
  /\ lock' = IF lock = p THEN Nada ELSE lock

(* Variant for mutation: a status the column does not admit. *)
RetificadaForaDoDominio(v) ==
  [apuracoes[v] EXCEPT !.status = "SUBSTITUIDO", !.corrente = FALSE]

(* The row of a version that another one replaces. *)
Retificada(v) == [apuracoes[v] EXCEPT !.status = "RETIFICADO", !.corrente = FALSE]

(* COMMIT *)
Publicar(p) ==
  apuracoes' = [v \in Versoes |-> IF v \in tocadas[p] THEN area[p][v] ELSE apuracoes[v]]

-----------------------------------------------------------------------------
(* apurar.                                                                 *)

(* The statement that asks for the lock takes the snapshot. *)
PedirLock(p) ==
  /\ pc[p] = "ocioso"
  /\ Ir(p, "lock")
  /\ req' = [req EXCEPT ![p].visto = apuracoes]
  /\ UNCHANGED <<fiscal, apuracoes, lock, area, tocadas>>

ObterLock(p) ==
  /\ pc[p] = "lock"
  /\ lock = Nada
  /\ lock' = p
  /\ Ir(p, "gravar")
  /\ UNCHANGED <<fiscal, apuracoes, req, area, tocadas>>

(* The version after the last one the snapshot shows. *)
Proxima(p) ==
  CHOOSE v \in 1 .. MaxVersao + 1 :
    /\ v = 1 \/ v - 1 \in Existentes(req[p].visto)
    /\ \A w \in Existentes(req[p].visto) : w < v

(* 40001: a draft of the snapshot has changed. 23505: the version exists.  *)
Conflito(p) ==
  \/ \E v \in Rascunhos(req[p].visto) : apuracoes[v] # req[p].visto[v]
  \/ Proxima(p) \in Existentes(apuracoes)

(* The drafts the new version supersedes. *)
Superadas(p) == Rascunhos(req[p].visto)

(* The UPDATE of the drafts, which waits for their locks, and the INSERT.  *)
Gravar(p) ==
  /\ pc[p] = "gravar"
  /\ ~Conflito(p)
  /\ Proxima(p) \in Versoes
  /\ \A v \in Superadas(p) : ~Travada(p, v)
  /\ tocadas' = [tocadas EXCEPT ![p] = Superadas(p) \cup {Proxima(p)}]
  /\ \E devida \in BOOLEAN :
       area' = [area EXCEPT ![p] =
         [v \in Versoes |->
            IF v = Proxima(p)
            THEN [Ausente EXCEPT !.status = "RASCUNHO", !.devida = devida]
            ELSE IF v \in Superadas(p) THEN Retificada(v) ELSE Ausente]]
  /\ Ir(p, "confirmarApurar")
  /\ UNCHANGED <<fiscal, apuracoes, lock, req>>

GravarConflito(p) ==
  /\ pc[p] = "gravar"
  /\ Conflito(p)
  /\ Terminar(p)
  /\ UNCHANGED <<fiscal, apuracoes>>

ConfirmarApurar(p) ==
  /\ pc[p] = "confirmarApurar"
  /\ Publicar(p)
  /\ Terminar(p)
  /\ UNCHANGED fiscal

-----------------------------------------------------------------------------
(* fechar.                                                                 *)

(* The latest version, or one named by the caller. It returns at once when *)
(* that is FECHADO, and refuses one that is RETIFICADO. *)
LerApuracao(p) ==
  /\ pc[p] = "ocioso"
  /\ \E v \in Rascunhos(apuracoes) :
       LET a == apuracoes[v]
       IN  /\ req' = [req EXCEPT ![p] =
                [Livre EXCEPT !.alvo = v, !.fech = a.fech, !.guia = a.guia]]
           /\ Ir(p, IF a.fech = 0 THEN "abrir" ELSE "guia")
  /\ UNCHANGED <<fiscal, apuracoes, lock, area, tocadas>>

Abrir(p) ==
  /\ pc[p] = "abrir"
  /\ Len(historico) < MaxFech
  /\ H!AbreCom(req[p].alvo)
  /\ req' = [req EXCEPT ![p].fech = Len(historico) + 1]
  /\ Ir(p, "pendente")
  /\ UNCHANGED <<guias, apuracoes, lock, area, tocadas>>

Transicionar(p) ==
  /\ \/ pc[p] = "pendente" /\ Ir(p, "revisado")
     \/ pc[p] = "revisado" /\ Ir(p, "fecharVersao")
  /\ H!AvancaVersao(req[p].fech)
  /\ UNCHANGED <<guias, apuracoes, lock, req, area, tocadas>>

FecharVersao(p) ==
  /\ pc[p] = "fecharVersao"
  /\ H!FechaVersao(req[p].fech)
  /\ Ir(p, "vincular")
  /\ UNCHANGED <<guias, apuracoes, lock, req, area, tocadas>>

(* The id of the closing is stored in a statement of its own. *)
Vincular(p) ==
  /\ pc[p] = "vincular"
  /\ ~Travada(p, req[p].alvo)
  /\ apuracoes' = [apuracoes EXCEPT ![req[p].alvo].fech = req[p].fech]
  /\ Ir(p, "guia")
  /\ UNCHANGED <<fiscal, lock, req, area, tocadas>>

(* criarGuia: the guia of the key if there is one, or a new one. *)
CriarGuia(p) ==
  /\ pc[p] = "guia"
  /\ LET a == req[p].alvo
     IN  IF ~req[p].guia /\ apuracoes[a].devida
         THEN /\ guias' = [guias EXCEPT ![a] = IF @ = 0 THEN req[p].fech ELSE @]
              /\ req' = [req EXCEPT ![p].guia = TRUE]
         ELSE UNCHANGED <<guias, req>>
  /\ Ir(p, "ler")
  /\ UNCHANGED <<historico, apuracoes, lock, area, tocadas>>

(* The first update starts: it looks for the current version. *)
Ler(p) ==
  /\ pc[p] = "ler"
  /\ req' = [req EXCEPT ![p].visto = apuracoes]
  /\ Ir(p, "desmarcar")
  /\ UNCHANGED <<fiscal, apuracoes, lock, area, tocadas>>

(* Of those it saw, which may have made it wait, the ones still current.   *)
Desmarcar(p) ==
  /\ pc[p] = "desmarcar"
  /\ LET V == Correntes(req[p].visto)
     IN  /\ \A v \in V : ~Travada(p, v)
         /\ tocadas' = [tocadas EXCEPT ![p] = V \cap Correntes(apuracoes)]
  /\ area' = [area EXCEPT ![p] =
       [v \in Versoes |-> IF v \in tocadas'[p] THEN Retificada(v) ELSE Ausente]]
  /\ Ir(p, "promover")
  /\ UNCHANGED <<fiscal, apuracoes, lock, req>>

(* uidx_simples_apuracao_corrente: another version is current. *)
Colide(p) == Correntes(apuracoes) \ (tocadas[p] \cup {req[p].alvo}) # {}

(* The index makes it wait for an open transaction that sets or clears a   *)
(* current version, too. *)
EsperaIndice(p) ==
  \E q \in Pedidos \ {p} :
    \E v \in tocadas[q] : apuracoes[v].corrente \/ area[q][v].corrente

(* Variant for mutation: the id of the closing is not stored again. *)
PromovidaSemFechamento(p) ==
  [apuracoes[req[p].alvo] EXCEPT !.status = "FECHADO", !.corrente = TRUE,
                                 !.fech = 0, !.guia = req[p].guia]

Promovida(p) ==
  [apuracoes[req[p].alvo] EXCEPT !.status = "FECHADO", !.corrente = TRUE,
                                 !.fech = req[p].fech, !.guia = req[p].guia]

(* The second update names the row by id: its status is not looked at.     *)
Promover(p) ==
  /\ pc[p] = "promover"
  /\ ~Travada(p, req[p].alvo)
  /\ ~EsperaIndice(p)
  /\ ~Colide(p)
  /\ area' = [area EXCEPT ![p][req[p].alvo] = Promovida(p)]
  /\ tocadas' = [tocadas EXCEPT ![p] = @ \cup {req[p].alvo}]
  /\ Ir(p, "confirmar")
  /\ UNCHANGED <<fiscal, apuracoes, lock, req>>

PromoverConflito(p) ==
  /\ pc[p] = "promover"
  /\ ~Travada(p, req[p].alvo)
  /\ ~EsperaIndice(p)
  /\ Colide(p)
  /\ Terminar(p)
  /\ UNCHANGED <<fiscal, apuracoes>>

Confirmar(p) ==
  /\ pc[p] = "confirmar"
  /\ Publicar(p)
  /\ Terminar(p)
  /\ UNCHANGED fiscal

-----------------------------------------------------------------------------
(* The process dies, or a statement or a check fails: the transaction in   *)
(* course, if any, is rolled back; what was committed stays. *)
Cair(p) ==
  /\ pc[p] # "ocioso"
  /\ Terminar(p)
  /\ UNCHANGED <<fiscal, apuracoes>>

Init ==
  /\ H!HInit
  /\ apuracoes = TabelaVazia
  /\ guias = [v \in Versoes |-> 0]
  /\ lock = Nada
  /\ pc = [p \in Pedidos |-> "ocioso"]
  /\ req = [p \in Pedidos |-> Livre]
  /\ area = [p \in Pedidos |-> TabelaVazia]
  /\ tocadas = [p \in Pedidos |-> {}]

Prosseguir(p) ==
  \/ ObterLock(p) \/ Gravar(p) \/ GravarConflito(p) \/ ConfirmarApurar(p)
  \/ Abrir(p) \/ Transicionar(p) \/ FecharVersao(p) \/ Vincular(p) \/ CriarGuia(p)
  \/ Ler(p) \/ Desmarcar(p) \/ Promover(p) \/ PromoverConflito(p) \/ Confirmar(p)

Next ==
  \E p \in Pedidos : PedirLock(p) \/ LerApuracao(p) \/ Prosseguir(p) \/ Cair(p)

Spec == Init /\ [][Next]_vars

-----------------------------------------------------------------------------
(* Properties.                                                             *)

(* Every variable stays in its set. *)
TypeOK ==
  /\ historico \in Seq(H!Versao)
  /\ apuracoes \in [Versoes -> Apuracao]
  /\ guias \in [Versoes -> 0 .. MaxFech]
  /\ lock \in Pedidos \cup {Nada}
  /\ pc \in [Pedidos -> Pontos]
  /\ req \in [Pedidos -> Requisicao]
  /\ area \in [Pedidos -> [Versoes -> Apuracao]]
  /\ tocadas \in [Pedidos -> SUBSET Versoes]

(* Exactly the closed version of the month is current, and there is at     *)
(* most one, though fechar takes no lock and two of them may promote two   *)
(* versions at once. *)
UmaFechada ==
  /\ Correntes(apuracoes) = {v \in Versoes : apuracoes[v].status = "FECHADO"}
  /\ \A v, w \in Correntes(apuracoes) : v = w

(* There is at most one draft to close, though the second of two apurar    *)
(* reads a snapshot older than the draft of the first. *)
UmRascunho == \A v, w \in Rascunhos(apuracoes) : v = w

(* A closed version names a delivered closing sealed with its own values,  *)
(* and, when there is tax to pay, a guia that names one too, whatever      *)
(* crashes, repetitions and concurrent calls of fechar went before. *)
FechadaSelada ==
  LET Selo(f, v) == f \in H!Fechadas /\ historico[f].entradas = v
  IN  \A v \in Correntes(apuracoes) :
        /\ Selo(apuracoes[v].fech, v)
        /\ apuracoes[v].guia <=> apuracoes[v].devida
        /\ apuracoes[v].guia => Selo(guias[v], v)

(* "Only a draft can be closed": the version a commit closes was a draft   *)
(* until then (or is the closed one, closed again).                        *)
FechaRascunho ==
  [][\A v \in Versoes :
       apuracoes'[v].status = "FECHADO" => apuracoes[v].status \in {"RASCUNHO", "FECHADO"}]_vars
=============================================================================
