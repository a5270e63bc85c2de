------------------------------- MODULE FolhasRh -------------------------------
(***************************************************************************)
(* The payroll files of one client and one month: RhUploadController       *)
(* (processFolhaFile, processAdiantamento13File, processFeriasFile) and    *)
(* RhService (processarFolhaPagamento, processarAdiantamento13,            *)
(* processarFerias, deleteFolha), over the cleanup queue as FilaLimpeza    *)
(* promises it. There is one employee, whose vacation is of one period.    *)
(*                                                                         *)
(* An upload looks for a duplicate, stores the file under a key never used *)
(* before, and then writes the row, its items, the employee and the audit  *)
(* in ONE statement; the file is discarded when that is taken for failed.  *)
(* Only FOLHA_MENSAL has a unique index.                                   *)
(***************************************************************************)
CONSTANTS
  Chaves,     \* object keys; a row is named by its key
  Processos,  \* requests
  Nada        \* no key

FolhasAssumption == Nada \notin Chaves

VARIABLES
  objetos, fila,  \* see FilaLimpeza
  cliente,        \* whether the row of the client exists
  folhas,         \* rows of folhas_pagamento, by key
  admissao,       \* whether the admission date of the employee is known
  usadas,         \* keys generated so far
  pc,             \* next step of each request
  req,            \* what each request works on
  perdidas,       \* history: keys committed without the request knowing it
  orfas           \* history: keys whose request failed or died owning them

filaVars == <<objetos, fila>>
dados == <<cliente, folhas, admissao>>
vars == <<filaVars, dados, usadas, pc, req, perdidas, orfas>>

F == INSTANCE FilaLimpeza

Tipos == {"FOLHA_MENSAL", "ADIANTAMENTO_13", "FERIAS"}

(* "admissao": whether the file states the admission date of the employee. *)
(* "vistas", history: the rows there were when the duplicate was looked    *)
(* for. *)
SemFolha == [tipo |-> "AUSENTE", admissao |-> FALSE, vistas |-> {}]

Gravadas == {k \in Chaves : folhas[k].tipo # "AUSENTE"}

DoTipo(t) == {k \in Gravadas : folhas[k].tipo = t}

Pontos == {"ocioso", "verificar", "enviar", "inserir", "descartar"}

Ocioso == [chave |-> Nada, folha |-> SemFolha]

Ir(p, ponto) == pc' = [pc EXCEPT ![p] = ponto] /\ req' = req

Encerrar(p) ==
  /\ pc' = [pc EXCEPT ![p] = "ocioso"]
  /\ req' = [req EXCEPT ![p] = Ocioso]

-----------------------------------------------------------------------------
(* RhUploadController.                                                     *)

(* processFile: the text of the PDF says which of the three it is; the     *)
(* client is found by its CNPJ. *)
Receber(p) ==
  /\ pc[p] = "ocioso"
  /\ cliente
  /\ \E t \in Tipos, k \in Chaves \ usadas, informada \in BOOLEAN :
       /\ usadas' = usadas \cup {k}
       /\ req' = [req EXCEPT ![p] =
            [chave |-> k, folha |-> [SemFolha EXCEPT !.tipo = t, !.admissao = informada]]]
  /\ pc' = [pc EXCEPT ![p] = "verificar"]
  /\ UNCHANGED <<filaVars, dados, perdidas, orfas>>

Verificar(p, t, Existe) ==
  /\ pc[p] = "verificar"
  /\ req[p].folha.tipo = t
  /\ IF Existe
     THEN Encerrar(p)
     ELSE /\ pc' = [pc EXCEPT ![p] = "enviar"]
          /\ req' = [req EXCEPT ![p].folha.vistas = Gravadas]
  /\ UNCHANGED <<filaVars, dados, usadas, perdidas, orfas>>

(* checkDuplicateFolha *)
DuplicadaFolha == DoTipo("FOLHA_MENSAL") # {}

(* Variant for mutation: the type of the function it was copied from.      *)
DuplicadoAdiantamentoPelaFolha == DuplicadaFolha

(* checkDuplicateAdiantamento13 *)
DuplicadoAdiantamento13 == DoTipo("ADIANTAMENTO_13") # {}

(* checkDuplicateFerias: by employee and period. *)
DuplicadasFerias == DoTipo("FERIAS") # {}

VerificarFolha(p) == Verificar(p, "FOLHA_MENSAL", DuplicadaFolha)

VerificarAdiantamento13(p) == Verificar(p, "ADIANTAMENTO_13", DuplicadoAdiantamento13)

VerificarFerias(p) == Verificar(p, "FERIAS", DuplicadasFerias)

Enviar(p) ==
  /\ pc[p] = "enviar"
  /\ F!Depositar(req[p].chave)
  /\ Ir(p, "inserir")
  /\ UNCHANGED <<dados, usadas, perdidas, orfas>>

(* The upload fails: the object may be there, and nobody discards it.      *)
EnviarErro(p) ==
  /\ pc[p] = "enviar"
  /\ F!Depositar(req[p].chave) \/ UNCHANGED filaVars
  /\ orfas' = orfas \cup {req[p].chave}
  /\ Encerrar(p)
  /\ UNCHANGED <<dados, usadas, perdidas>>

(* Not ok: storage.delete, whose error is swallowed. *)
Descartar(p) ==
  /\ pc[p] = "descartar"
  /\ \/ F!Descartar(req[p].chave) /\ UNCHANGED orfas
     \/ orfas' = orfas \cup {req[p].chave} /\ UNCHANGED filaVars
  /\ Encerrar(p)
  /\ UNCHANGED <<dados, usadas, perdidas>>

-----------------------------------------------------------------------------
(* RhService.                                                              *)

(* The one statement of an upload. The date the file states is kept, or    *)
(* the one there was (COALESCE). Its answer may be lost: the catch answers *)
(* DATABASE_FAILED and the controller discards the file. *)
Gravar(p, t) ==
  /\ pc[p] = "inserir"
  /\ req[p].folha.tipo = t
  /\ cliente
  /\ folhas' = [folhas EXCEPT ![req[p].chave] = req[p].folha]
  /\ admissao' = (admissao \/ req[p].folha.admissao)
  /\ \/ Encerrar(p) /\ UNCHANGED perdidas
     \/ Ir(p, "descartar") /\ perdidas' = perdidas \cup {req[p].chave}
  /\ UNCHANGED <<filaVars, cliente, usadas, orfas>>

(* uidx_folhas_cliente_competencia *)
ProcessarFolha(p) == DoTipo("FOLHA_MENSAL") = {} /\ Gravar(p, "FOLHA_MENSAL")

(* No index says that a client has one advance a month, *)
ProcessarAdiantamento13(p) == Gravar(p, "ADIANTAMENTO_13")

(* or one vacation of a period. *)
ProcessarFerias(p) == Gravar(p, "FERIAS")

(* The codes of the employees are inconsistent, the payroll is duplicated, *)
(* the client is gone, or the statement fails. *)
ProcessarErro(p) ==
  /\ pc[p] = "inserir"
  /\ Ir(p, "descartar")
  /\ UNCHANGED <<filaVars, dados, usadas, perdidas, orfas>>

(* deleteFolha: one statement deletes the row and schedules its key; the   *)
(* employee stays. *)
ExcluirFolha(p) ==
  /\ pc[p] = "ocioso"
  /\ \E k \in Gravadas :
       /\ folhas' = [folhas EXCEPT ![k] = SemFolha]
       /\ F!Agendar({k})
  /\ UNCHANGED <<cliente, admissao, usadas, pc, req, perdidas, orfas>>

(* ClientesService.deleteClient: the payrolls go by cascade and their keys *)
(* are not scheduled. *)
ExcluirCliente(p) ==
  /\ pc[p] = "ocioso"
  /\ cliente
  /\ cliente' = FALSE
  /\ folhas' = [k \in Chaves |-> SemFolha]
  /\ admissao' = FALSE
  /\ UNCHANGED <<filaVars, usadas, pc, req, perdidas, orfas>>

-----------------------------------------------------------------------------
(* The process of a request dies between two steps. *)
Cair(p) ==
  /\ pc[p] # "ocioso"
  /\ orfas' = orfas \cup {req[p].chave}
  /\ Encerrar(p)
  /\ UNCHANGED <<filaVars, dados, usadas, perdidas>>

LimparFila ==
  /\ \E k \in Chaves : F!Limpar(k)
  /\ UNCHANGED <<dados, usadas, pc, req, perdidas, orfas>>

Init ==
  /\ F!FInit
  /\ cliente = TRUE
  /\ folhas = [k \in Chaves |-> SemFolha]
  /\ admissao = FALSE
  /\ usadas = {}
  /\ pc = [p \in Processos |-> "ocioso"]
  /\ req = [p \in Processos |-> Ocioso]
  /\ perdidas = {}
  /\ orfas = {}

Verificacoes(p) == VerificarFolha(p) \/ VerificarAdiantamento13(p) \/ VerificarFerias(p)

Processar(p) ==
  \/ ProcessarFolha(p) \/ ProcessarAdiantamento13(p) \/ ProcessarFerias(p)
  \/ ProcessarErro(p)

Next ==
  \/ \E p \in Processos :
       \/ Receber(p) \/ Verificacoes(p) \/ Enviar(p) \/ EnviarErro(p)
       \/ Processar(p) \/ Descartar(p) \/ ExcluirFolha(p) \/ ExcluirCliente(p) \/ Cair(p)
  \/ LimparFila

Spec == Init /\ [][Next]_vars

-----------------------------------------------------------------------------
(* Properties.                                                             *)

(* Every variable stays in its set. *)
TypeOK ==
  LET Folha == [tipo : Tipos \cup {"AUSENTE"}, admissao : BOOLEAN, vistas : SUBSET Chaves]
  IN  /\ objetos \subseteq Chaves
      /\ fila \in [Chaves -> F!Etapas]
      /\ cliente \in BOOLEAN
      /\ folhas \in [Chaves -> Folha]
      /\ admissao \in BOOLEAN
      /\ usadas \subseteq Chaves
      /\ pc \in [Processos -> Pontos]
      /\ req \in [Processos -> [chave : Chaves \cup {Nada}, folha : Folha]]
      /\ perdidas \subseteq Chaves
      /\ orfas \subseteq Chaves

(* There is one monthly payroll of a month, though two uploads may both    *)
(* find no duplicate. An advance or a vacation is repeated by a race only: *)
(* not by an upload that started when the other one was there.             *)
FolhaUnica ==
  /\ \A a, b \in DoTipo("FOLHA_MENSAL") : a = b
  /\ \A a, b \in Gravadas : folhas[a].tipo = folhas[b].tipo => a \notin folhas[b].vistas

(* A file that a payroll names is stored and not queued for removal,       *)
(* unless the commit that named it was taken for a failure; while the      *)
(* client exists, a stored file that none names is queued, belongs to a    *)
(* request in course, or was left by a failure nobody compensates. *)
ArquivosCoerentes ==
  /\ Gravadas \ perdidas \subseteq objetos
  /\ \A k \in Gravadas : fila[k] = "fora"
  /\ cliente =>
       \A k \in objetos \ Gravadas :
         \/ fila[k] # "fora"
         \/ k \in orfas
         \/ \E p \in Processos : req[p].chave = k

(* An admission date that some payroll states is not lost to a later one   *)
(* that leaves it out, in whatever order they were uploaded.               *)
CadastroAcumula == (\E k \in Gravadas : folhas[k].admissao) => admissao
=============================================================================
