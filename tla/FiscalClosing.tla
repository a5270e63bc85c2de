---------------------------- MODULE FiscalClosing ----------------------------
(***************************************************************************)
(* FiscalClosingService: the versioned closing of one scope (cliente,      *)
(* obrigacao, competencia), as the concurrent database transactions that   *)
(* carry it out.  Every lock, query and unique index of the service is per *)
(* scope, so scopes do not interact.                                       *)
(*                                                                         *)
(* A transaction runs one statement per step.  Under REPEATABLE READ ("RR")*)
(* its snapshot is taken by its FIRST statement, also when that statement  *)
(* is the one that waits for the advisory lock; an UPDATE of a row another *)
(* transaction changed since the snapshot fails.  Under READ COMMITTED     *)
(* ("RC") every statement sees what is committed when it runs.             *)
(* A row never returns to an earlier content (the state only advances and  *)
(* "corrente" is set once), so "changed" is "has another content".         *)
(***************************************************************************)
EXTENDS Naturals, FiniteSets

CONSTANTS
  Procs,         \* requests, each running one transaction at a time
  MaxVersao,     \* bound: versions the scope can hold
  Entradas,      \* frozen inputs (documents, decisions, rules, balances)
  Isolamentos,   \* isolation levels the writers of the scope use
  Nada           \* no process, no inputs

ASSUME FechamentoAssumption ==
  /\ MaxVersao \in Nat
  /\ Isolamentos \subseteq {"RR", "RC"}
  /\ Nada \notin Procs
  /\ Nada \notin Entradas

VARIABLES
  linhas,    \* committed rows of fiscal_fechamentos, by version
  lock,      \* holder of the scope's advisory lock
  pc,        \* next statement of each transaction
  op,        \* what each transaction does
  snap,      \* snapshot of each RR transaction
  area,      \* rows as written by each uncommitted transaction
  tocadas    \* which rows those are; they stay locked until it ends

vars == <<linhas, lock, pc, op, snap, area, tocadas>>

Versoes == 1 .. MaxVersao

Abertos == {"RASCUNHO", "PENDENTE", "REVISADO"}

Linha == [estado   : Abertos \cup {"FECHADO", "AUSENTE"},
          corrente : BOOLEAN,
          entradas : Entradas \cup {Nada},
          original : {0} \cup Versoes]

Ausente == [estado |-> "AUSENTE", corrente |-> FALSE, entradas |-> Nada, original |-> 0]

TabelaVazia == [v \in Versoes |-> Ausente]

Tipos == {"ABRIR", "TRANSICIONAR", "FECHAR", "RETIFICAR", "ESCREVER", "NENHUMA"}

Operacao == [tipo     : Tipos,
             alvo     : {0} \cup Versoes,
             destino  : Abertos \cup {"NENHUM"},
             entradas : Entradas \cup {Nada},
             isol     : {"RR", "RC"}]

Pedido(t, v, d, e, i) ==
  [tipo |-> t, alvo |-> v, destino |-> d, entradas |-> e, isol |-> i]

Ociosa == Pedido("NENHUMA", 0, "NENHUM", Nada, "RR")

Pontos == {"ocioso", "lock", "inserir", "sinalizar", "atualizar",
           "desmarcar", "promover", "confirmar"}

-----------------------------------------------------------------------------
(* Queries.                                                                *)

Existentes(t) == {v \in Versoes : t[v].estado # "AUSENTE"}

Correntes(t) == {v \in Versoes : t[v].corrente}

CorrenteFechada(t) == {v \in Correntes(t) : t[v].estado = "FECHADO"}

RevisaoAberta(t, c) == {v \in Versoes : t[v].estado \in Abertos /\ v > c}

ProximaVersao(t) ==
  IF Existentes(t) = {} THEN 1
  ELSE (CHOOSE v \in Existentes(t) : \A w \in Existentes(t) : w <= v) + 1

TransicaoPermitida(origem, destino) ==
  <<origem, destino>> \in {<<"RASCUNHO", "PENDENTE">>,
                           <<"PENDENTE", "REVISADO">>,
                           <<"REVISADO", "FECHADO">>}

(* What the statements of p's transaction read. *)
Visao(p) == IF op[p].isol = "RR" THEN snap[p] ELSE linhas

-----------------------------------------------------------------------------
(* The rules of the database.                                              *)

(* Variant for mutation: an update overwrites what it did not see. *)
SemConflito(p, v) == FALSE

(* First updater wins: p may not update a row changed since its snapshot. *)
Conflito(p, v) == Visao(p)[v] # linhas[v]

(* A row written by another open transaction: the statement waits. *)
Travada(p, v) == \E q \in Procs \ {p} : v \in tocadas[q]

(* Unique index on the version, and the bound on the versions modelled. *)
VersaoColide(p) ==
  ~ \E n \in Versoes : n = ProximaVersao(Visao(p)) /\ linhas[n].estado = "AUSENTE"

(* Variant for mutation: no partial unique index on "corrente". *)
SemIndice(p) == FALSE

(* Partial unique index on "corrente". *)
CorrenteColide(p) == Correntes(linhas) \ tocadas[p] # {}

Gravar(p, v, linha) ==
  /\ area' = [area EXCEPT ![p][v] = linha]
  /\ tocadas' = [tocadas EXCEPT ![p] = @ \cup {v}]

Terminar(p) ==
  /\ pc' = [pc EXCEPT ![p] = "ocioso"]
  /\ op' = [op EXCEPT ![p] = Ociosa]
  /\ snap' = [snap EXCEPT ![p] = TabelaVazia]
  /\ area' = [area EXCEPT ![p] = TabelaVazia]
  /\ tocadas' = [tocadas EXCEPT ![p] = {}]

(* Variant for mutation: a session-level lock, kept when the transaction ends. *)
LiberarSemLock(p) == Terminar(p) /\ lock' = lock

(* A transaction ends: its rows and its advisory lock are released. *)
Liberar(p) == Terminar(p) /\ lock' = IF lock = p THEN Nada ELSE lock

-----------------------------------------------------------------------------
(* First statements.                                                       *)

Iniciar(p, o, ponto) ==
  /\ pc[p] = "ocioso"
  /\ op' = [op EXCEPT ![p] = o]
  /\ snap' = [snap EXCEPT ![p] = IF o.isol = "RR" THEN linhas ELSE TabelaVazia]
  /\ pc' = [pc EXCEPT ![p] = ponto]
  /\ UNCHANGED <<linhas, lock, area, tocadas>>

(* abrir and editar: the first statement is the lock itself. *)
IniciarAbrir(p) ==
  \E e \in Entradas :
    Iniciar(p, Pedido("ABRIR", 0, "NENHUM", e, "RR"), "lock")

(* transicionar: reads the row and checks the transition, takes no lock. *)
IniciarTransicionar(p) ==
  \E v \in Existentes(linhas), destino \in Abertos :
    /\ TransicaoPermitida(linhas[v].estado, destino)
    /\ Iniciar(p, Pedido("TRANSICIONAR", v, destino, Nada, "RR"), "atualizar")

(* fechar: reads the row and checks the transition, then asks for the lock. *)
IniciarFechar(p) ==
  \E v \in Existentes(linhas) :
    /\ TransicaoPermitida(linhas[v].estado, "FECHADO")
    /\ Iniciar(p, Pedido("FECHAR", v, "NENHUM", Nada, "RR"), "lock")

(* Variant for mutation: any version may be rectified. *)
IniciarRetificarQualquer(p) ==
  \E v \in Existentes(linhas), e \in Entradas :
    Iniciar(p, Pedido("RETIFICAR", v, "NENHUM", e, "RR"), "lock")

(* retificar: the original must be a delivered version. *)
IniciarRetificar(p) ==
  \E v \in Existentes(linhas), e \in Entradas :
    /\ linhas[v].estado = "FECHADO"
    /\ Iniciar(p, Pedido("RETIFICAR", v, "NENHUM", e, "RR"), "lock")

(* A writer of the scope (XML import, CIAP write-off, rule edit): the      *)
(* first statement is the lock of withEscopoLock.                          *)
IniciarEscrita(p) ==
  \E i \in Isolamentos :
    Iniciar(p, Pedido("ESCREVER", 0, "NENHUM", Nada, i), "lock")

-----------------------------------------------------------------------------
(* Statements inside the transaction.                                      *)

DepoisDoLock == [ABRIR |-> "inserir", RETIFICAR |-> "inserir",
                 FECHAR |-> "desmarcar", ESCREVER |-> "sinalizar"]

(* Variant for mutation: a writer takes another lock key than fechar. *)
ObterOutroLock(p) ==
  /\ pc[p] = "lock"
  /\ lock = Nada \/ op[p].tipo = "ESCREVER"
  /\ lock' = IF op[p].tipo = "ESCREVER" THEN lock ELSE p
  /\ pc' = [pc EXCEPT ![p] = DepoisDoLock[op[p].tipo]]
  /\ UNCHANGED <<linhas, op, snap, area, tocadas>>

ObterLock(p) ==
  /\ pc[p] = "lock"
  /\ lock = Nada
  /\ lock' = p
  /\ pc' = [pc EXCEPT ![p] = DepoisDoLock[op[p].tipo]]
  /\ UNCHANGED <<linhas, op, snap, area, tocadas>>

InserirNovaVersao(p, entradas, original) ==
  /\ ~VersaoColide(p)
  /\ Gravar(p, ProximaVersao(Visao(p)),
            [estado |-> "RASCUNHO", corrente |-> FALSE,
             entradas |-> entradas, original |-> original])

Avancar(p, ponto) ==
  /\ pc' = [pc EXCEPT ![p] = ponto]
  /\ UNCHANGED <<linhas, lock, op, snap>>

Inserir(p) ==
  /\ pc[p] = "inserir"
  /\ InserirNovaVersao(p, op[p].entradas, op[p].alvo)
  /\ Avancar(p, "confirmar")

(* sinalizarRevisaoPosFechamento, then the writer's own changes (not in    *)
(* this table). No delivery: nothing to signal. *)
SinalizarSemEntrega(p) ==
  /\ pc[p] = "sinalizar"
  /\ CorrenteFechada(Visao(p)) = {}
  /\ Avancar(p, "confirmar")
  /\ UNCHANGED <<area, tocadas>>

(* A revision newer than the delivery is open: reused. *)
SinalizarReutiliza(p) ==
  /\ pc[p] = "sinalizar"
  /\ \E c \in CorrenteFechada(Visao(p)) : RevisaoAberta(Visao(p), c) # {}
  /\ Avancar(p, "confirmar")
  /\ UNCHANGED <<area, tocadas>>

(* Variant for mutation: every write on a delivered scope opens a revision. *)
SinalizarAbreSempre(p) ==
  /\ pc[p] = "sinalizar"
  /\ \E c \in CorrenteFechada(Visao(p)) :
       InserirNovaVersao(p, Visao(p)[c].entradas, 0)
  /\ Avancar(p, "confirmar")

(* Otherwise a revision is opened with the delivery's inputs. *)
SinalizarAbre(p) ==
  /\ pc[p] = "sinalizar"
  /\ \E c \in CorrenteFechada(Visao(p)) :
       /\ RevisaoAberta(Visao(p), c) = {}
       /\ InserirNovaVersao(p, Visao(p)[c].entradas, 0)
  /\ Avancar(p, "confirmar")

Atualizar(p) ==
  /\ pc[p] = "atualizar"
  /\ LET v == op[p].alvo
     IN  /\ ~Travada(p, v)
         /\ ~Conflito(p, v)
         /\ Gravar(p, v, [snap[p][v] EXCEPT !.estado = op[p].destino])
  /\ Avancar(p, "confirmar")

(* Variant for mutation: clears "corrente" to null. *)
DesmarcarParaNulo(p) ==
  /\ pc[p] = "desmarcar"
  /\ area' = [area EXCEPT ![p] =
                [v \in Versoes |-> IF v \in Correntes(snap[p])
                                   THEN [snap[p][v] EXCEPT !.corrente = Nada]
                                   ELSE @[v]]]
  /\ tocadas' = [tocadas EXCEPT ![p] = Correntes(snap[p])]
  /\ Avancar(p, "promover")

(* fechar, first UPDATE: clears the scope's current version. *)
Desmarcar(p) ==
  /\ pc[p] = "desmarcar"
  /\ \A v \in Correntes(snap[p]) : ~Travada(p, v) /\ ~Conflito(p, v)
  /\ area' = [area EXCEPT ![p] =
                [v \in Versoes |-> IF v \in Correntes(snap[p])
                                   THEN [snap[p][v] EXCEPT !.corrente = FALSE]
                                   ELSE @[v]]]
  /\ tocadas' = [tocadas EXCEPT ![p] = Correntes(snap[p])]
  /\ Avancar(p, "promover")

(* Variant for mutation: the version is closed but not made current. *)
PromoverSemCorrente(p) ==
  /\ pc[p] = "promover"
  /\ ~Travada(p, op[p].alvo)
  /\ ~Conflito(p, op[p].alvo)
  /\ Gravar(p, op[p].alvo, [snap[p][op[p].alvo] EXCEPT !.estado = "FECHADO"])
  /\ Avancar(p, "confirmar")

(* fechar, second UPDATE: closes the version and makes it the current one. *)
Promover(p) ==
  /\ pc[p] = "promover"
  /\ LET v == op[p].alvo
     IN  /\ ~Travada(p, v)
         /\ ~Conflito(p, v)
         /\ ~CorrenteColide(p)
         /\ Gravar(p, v, [snap[p][v] EXCEPT !.estado = "FECHADO", !.corrente = TRUE])
  /\ Avancar(p, "confirmar")

Confirmar(p) ==
  /\ pc[p] = "confirmar"
  /\ linhas' = [v \in Versoes |-> IF v \in tocadas[p] THEN area[p][v] ELSE linhas[v]]
  /\ Liberar(p)

(* A statement of p fails: unique index or update conflict. *)
Erro(p) ==
  \/ pc[p] = "inserir" /\ VersaoColide(p)
  \/ /\ pc[p] = "sinalizar"
     /\ \E c \in CorrenteFechada(Visao(p)) : RevisaoAberta(Visao(p), c) = {}
     /\ VersaoColide(p)
  \/ /\ pc[p] = "atualizar"
     /\ ~Travada(p, op[p].alvo)
     /\ Conflito(p, op[p].alvo)
  \/ /\ pc[p] = "desmarcar"
     /\ \E v \in Correntes(snap[p]) : ~Travada(p, v) /\ Conflito(p, v)
  \/ /\ pc[p] = "promover"
     /\ ~Travada(p, op[p].alvo)
     /\ Conflito(p, op[p].alvo) \/ CorrenteColide(p)

Falhar(p) ==
  /\ Erro(p)
  /\ linhas' = linhas
  /\ Liberar(p)

(* The rest of the caller's transaction fails, the connection or the       *)
(* process is lost: rollback at any point. *)
Cair(p) ==
  /\ pc[p] # "ocioso"
  /\ linhas' = linhas
  /\ Liberar(p)

-----------------------------------------------------------------------------
Init ==
  /\ linhas = TabelaVazia
  /\ lock = Nada
  /\ pc = [p \in Procs |-> "ocioso"]
  /\ op = [p \in Procs |-> Ociosa]
  /\ snap = [p \in Procs |-> TabelaVazia]
  /\ area = [p \in Procs |-> TabelaVazia]
  /\ tocadas = [p \in Procs |-> {}]

Comecar(p) ==
  \/ IniciarAbrir(p)
  \/ IniciarTransicionar(p)
  \/ IniciarFechar(p)
  \/ IniciarRetificar(p)
  \/ IniciarEscrita(p)

Prosseguir(p) ==
  \/ ObterLock(p)
  \/ Inserir(p)
  \/ SinalizarSemEntrega(p)
  \/ SinalizarReutiliza(p)
  \/ SinalizarAbre(p)
  \/ Atualizar(p)
  \/ Desmarcar(p)
  \/ Promover(p)
  \/ Confirmar(p)
  \/ Falhar(p)

Next == \E p \in Procs : Comecar(p) \/ Prosseguir(p) \/ Cair(p)

Spec == Init /\ [][Next]_vars

(* The server runs a started transaction on: PostgreSQL queues waiters of  *)
(* an advisory lock and of a row in order, so a transaction that can go on *)
(* again and again does (strong fairness). Nothing forces a request to     *)
(* start, nor a crash to happen.                                           *)
Fairness == \A p \in Procs : SF_vars(Prosseguir(p))

FairSpec == Spec /\ Fairness

-----------------------------------------------------------------------------
(* Properties.                                                             *)

(* Every variable stays in its set. *)
TypeOK ==
  /\ linhas \in [Versoes -> Linha]
  /\ lock \in Procs \cup {Nada}
  /\ pc \in [Procs -> Pontos]
  /\ op \in [Procs -> Operacao]
  /\ snap \in [Procs -> [Versoes -> Linha]]
  /\ area \in [Procs -> [Versoes -> Linha]]
  /\ tocadas \in [Procs -> SUBSET Versoes]

(* Once a version of the scope was delivered there is exactly one current  *)
(* version and it is a delivered one; before that there is none. fechar    *)
(* clears and sets "corrente" in two statements of a transaction whose     *)
(* snapshot may be older than the lock it waits for.                       *)
CorrenteUnica ==
  /\ \A v, w \in Versoes : linhas[v].corrente /\ linhas[w].corrente => v = w
  /\ \A v \in Versoes : linhas[v].corrente => linhas[v].estado = "FECHADO"
  /\ (\E v \in Versoes : linhas[v].estado = "FECHADO") => Correntes(linhas) # {}

(* A rectification names a delivered, older version of the same scope      *)
(* (retificar reads the original before it holds the lock).                *)
RetificacaoApontaEntrega ==
  \A v \in Versoes :
    linhas[v].original # 0 =>
      /\ linhas[v].original < v
      /\ linhas[linhas[v].original].estado = "FECHADO"

(* R1.4: a committed version keeps its inputs and its origin, its state    *)
(* only moves one permitted step at a time, and a delivered version never  *)
(* leaves FECHADO, whatever a slow transicionar or fechar read before.     *)
EntregaImutavel ==
  [][\A v \in Existentes(linhas) :
       /\ linhas'[v].entradas = linhas[v].entradas
       /\ linhas'[v].original = linhas[v].original
       /\ linhas'[v].estado = linhas[v].estado
            \/ <<linhas[v].estado, linhas'[v].estado>> \in
                 {<<"RASCUNHO", "PENDENTE">>, <<"PENDENTE", "REVISADO">>,
                  <<"REVISADO", "FECHADO">>}]_vars

RevisaoEmAberto ==
  \A c \in CorrenteFechada(linhas) : RevisaoAberta(linhas, c) # {}

(* R1.3: when a writer of the scope commits and the scope has a delivered  *)
(* current version, the commit leaves a revision newer than it open.       *)
EscritaSinalizaRevisao ==
  [][\A p \in Procs :
       op[p].tipo = "ESCREVER" /\ Confirmar(p) => RevisaoEmAberto']_vars

(* The same for the writers that run under READ COMMITTED (rule edits,     *)
(* comLockFechamentoItem): they read after they were granted the lock.     *)
EscritaRCSinalizaRevisao ==
  [][\A p \in Procs :
       op[p].tipo = "ESCREVER" /\ op[p].isol = "RC" /\ Confirmar(p) =>
         RevisaoEmAberto']_vars

(* sinalizarRevisaoPosFechamento is idempotent: those writers converge on  *)
(* one revision. A writer adds a version only when none newer than the     *)
(* current one is open, and it carries the current version's inputs.       *)
RevisaoConverge ==
  [][\A p \in Procs :
       /\ op[p].tipo = "ESCREVER" /\ op[p].isol = "RC"
       /\ tocadas[p] # {}
       /\ Confirmar(p)
       => \E c \in CorrenteFechada(linhas) :
            /\ RevisaoAberta(linhas, c) = {}
            /\ \A v \in tocadas[p] : area[p][v].entradas = linhas[c].entradas]_vars

(* Every transaction that starts ends: the advisory lock and the row locks *)
(* of fechar and the lockless transicionar never wait on each other, and a *)
(* rollback leaves no lock behind.                                         *)
TransacaoTermina == \A p \in Procs : pc[p] # "ocioso" ~> pc[p] = "ocioso"

-----------------------------------------------------------------------------
(* Refinement: the committed versions, in order, are the abstract history. *)

HistoricoConfirmado ==
  [v \in 1 .. Cardinality(Existentes(linhas)) |-> linhas[v]]

H == INSTANCE HistoricoFechamento WITH historico <- HistoricoConfirmado

(* FiscalClosing implements HistoricoFechamento: each commit is one        *)
(* abstract step (append, advance or close) on the state it commits to.    *)
ImplementaHistorico == H!HSpec
=============================================================================
