--------------------------- MODULE FiscalEntregas ----------------------------
(***************************************************************************)
(* FiscalEntregasService: a delivery is a row that seals the key of its    *)
(* file; the file is stored after the row is committed, a failed upload    *)
(* marks the row and schedules the removal of the partial object, and the  *)
(* upload may be retried under the SAME key.  The removal is done by       *)
(* StorageCleanup, with which this module shares the bucket and the jobs.  *)
(*                                                                         *)
(* The file of delivery e is stored under the key e.  A process runs one   *)
(* request or one call of processJobs at a time.  Every statement commits  *)
(* by itself: the service opens no transaction.                            *)
(***************************************************************************)
EXTENDS Naturals, FiniteSets

CONSTANTS
  Entregas,       \* deliveries (rows and, with the same names, keys)
  Processos,      \* requests and calls of processJobs
  Lote, Concorrencia,
  MaxFalhas,      \* bound: errors, crashes and slow workers of a behaviour
  Nada            \* no delivery

EntregasAssumption == Nada \notin Entregas

VARIABLES
  objetos, jobs, posse, falhas,   \* see StorageCleanup
  entregas,   \* fiscal_entregas
  pc,         \* next statement of each request
  alvo,       \* delivery each request is about
  lida,       \* tentativas_storage as each retry read it
  perdas      \* history: keys whose compensation was lost to an error

L == INSTANCE StorageCleanup WITH Chaves <- Entregas, Trabalhadores <- Processos

filaVars == <<objetos, jobs, posse>>
vars == <<objetos, jobs, posse, falhas, entregas, pc, alvo, lida, perdas>>

(* Every status other than FALHA_STORAGE is "INTEGRA" here. *)
Status == {"AUSENTE", "INTEGRA", "FALHA_STORAGE"}

Ausente == [status |-> "AUSENTE", tentativas |-> 0, original |-> Nada]

Existe(e) == entregas[e].status # "AUSENTE"

Pontos == {"ocioso", "enviar", "contar", "reenviar", "recuperar",
           "marcar", "enfileirar", "limpar", "inserir"}

Ir(p, ponto, e) ==
  /\ pc' = [pc EXCEPT ![p] = ponto]
  /\ alvo' = [alvo EXCEPT ![p] = e]

Encerrar(p) == Ir(p, "ocioso", Nada) /\ lida' = [lida EXCEPT ![p] = 0]

Seguir(p, ponto) == Ir(p, ponto, alvo[p]) /\ lida' = lida

Inserir(e, original) ==
  /\ ~Existe(e)
  /\ entregas' = [entregas EXCEPT ![e] = [Ausente EXCEPT !.status = "INTEGRA",
                                                         !.original = original]]

Disponivel(p) == pc[p] = "ocioso" /\ L!Livre(p)

-----------------------------------------------------------------------------
(* registrarEntrega and registrarEntregaComUpload: the row is committed.   *)
Registrar(p) ==
  /\ Disponivel(p)
  /\ \E e \in Entregas :
       /\ Inserir(e, Nada)
       /\ lida' = lida
       /\ Ir(p, "ocioso", Nada) \/ Ir(p, "enviar", e)
  /\ UNCHANGED <<filaVars, falhas, perdas>>

(* retentarUpload: only a delivery in FALHA_STORAGE. *)
Retentar(p) ==
  /\ Disponivel(p)
  /\ \E e \in Entregas :
       /\ entregas[e].status = "FALHA_STORAGE"
       /\ Ir(p, "reenviar", e)
       /\ lida' = [lida EXCEPT ![p] = entregas[e].tentativas]
  /\ UNCHANGED <<filaVars, falhas, entregas, perdas>>

Enviar(p) ==
  /\ pc[p] \in {"enviar", "reenviar"}
  /\ objetos' = objetos \cup {alvo[p]}
  /\ Seguir(p, IF pc[p] = "enviar" THEN "contar" ELSE "recuperar")
  /\ UNCHANGED <<jobs, posse, falhas, entregas, perdas>>

(* The upload fails, or the object is stored and only the answer is lost. *)
EnviarErro(p) ==
  /\ pc[p] \in {"enviar", "reenviar"}
  /\ L!Falha
  /\ objetos' \in {objetos, objetos \cup {alvo[p]}}
  /\ Seguir(p, "marcar")
  /\ UNCHANGED <<jobs, posse, entregas, perdas>>

(* registrarTentativaUpload: an increment in the UPDATE itself. *)
Contar(p) ==
  /\ pc[p] = "contar"
  /\ entregas' = [entregas EXCEPT ![alvo[p]].tentativas = @ + 1]
  /\ Encerrar(p)
  /\ UNCHANGED <<filaVars, falhas, perdas>>

(* The retry worked: back to a success status, with the count it read. *)
Recuperar(p) ==
  /\ pc[p] = "recuperar"
  /\ entregas' = [entregas EXCEPT ![alvo[p]].status = "INTEGRA",
                                  ![alvo[p]].tentativas = lida[p] + 1]
  /\ Encerrar(p)
  /\ UNCHANGED <<filaVars, falhas, perdas>>

-----------------------------------------------------------------------------
(* marcarFalhaStorageEcompensar.                                           *)

(* Variant for mutation: a status outside chk_fiscal_entrega_status. *)
MarcarForaDoDominio(p) ==
  /\ pc[p] = "marcar"
  /\ entregas' = [entregas EXCEPT ![alvo[p]].status = "FALHA",
                                  ![alvo[p]].tentativas = @ + 1]
  /\ Seguir(p, "enfileirar")
  /\ UNCHANGED <<filaVars, falhas, perdas>>

(* Variant for mutation: the failure is marked and nothing is scheduled. *)
MarcarSemCompensar(p) ==
  /\ pc[p] = "marcar"
  /\ entregas' = [entregas EXCEPT ![alvo[p]].status = "FALHA_STORAGE",
                                  ![alvo[p]].tentativas = @ + 1]
  /\ Encerrar(p)
  /\ UNCHANGED <<filaVars, falhas, perdas>>

Marcar(p) ==
  /\ pc[p] = "marcar"
  /\ entregas' = [entregas EXCEPT ![alvo[p]].status = "FALHA_STORAGE",
                                  ![alvo[p]].tentativas = @ + 1]
  /\ Seguir(p, "enfileirar")
  /\ UNCHANGED <<filaVars, falhas, perdas>>

(* A key that already has a job gets no other, whatever its status. *)
Enfileirar(p) ==
  /\ pc[p] = "enfileirar"
  /\ L!Agendar({alvo[p]})
  /\ IF alvo[p] \in L!Agendados THEN Encerrar(p) ELSE Seguir(p, "limpar")
  /\ UNCHANGED <<entregas, perdas>>

EnfileirarErro(p) ==
  /\ pc[p] = "enfileirar"
  /\ L!Falha
  /\ perdas' = perdas \cup {alvo[p]}
  /\ Encerrar(p)
  /\ UNCHANGED <<filaVars, entregas>>

(* processJobs for the job just scheduled, in the same request. *)
Limpar(p) ==
  /\ pc[p] = "limpar"
  /\ L!Reivindicar(p, {alvo[p]})
  /\ Encerrar(p)
  /\ UNCHANGED <<entregas, perdas>>

-----------------------------------------------------------------------------
(* retificarEntrega: the original is read, then the row is inserted.       *)

LerOriginal(p) ==
  /\ Disponivel(p)
  /\ \E e \in Entregas :
       /\ Existe(e)
       /\ entregas[e].original = Nada
       /\ \A f \in Entregas : entregas[f].original # e
       /\ Ir(p, "inserir", e)
  /\ UNCHANGED <<filaVars, falhas, entregas, lida, perdas>>

(* When every row of the bound is in use the request gives up. *)
InserirRetificadora(p) ==
  /\ pc[p] = "inserir"
  /\ \/ \E e \in Entregas : Inserir(e, alvo[p])
     \/ (\A e \in Entregas : Existe(e)) /\ entregas' = entregas
  /\ Encerrar(p)
  /\ UNCHANGED <<filaVars, falhas, perdas>>

(* A statement of the request throws, or its process dies. *)
Cair(p) ==
  /\ pc[p] # "ocioso"
  /\ L!Falha
  /\ perdas' = IF pc[p] = "inserir" THEN perdas ELSE perdas \cup {alvo[p]}
  /\ Encerrar(p)
  /\ UNCHANGED <<filaVars, entregas>>

(* The calls of processJobs. *)
ExecutarLimpeza ==
  /\ \/ \E p \in Processos : pc[p] = "ocioso" /\ L!ExecutarCron(p)
     \/ \E p \in Processos : L!Trabalhar(p) \/ L!Falhar(p)
     \/ \E e \in Entregas : L!Vencer(e)
  /\ UNCHANGED <<entregas, pc, alvo, lida, perdas>>

-----------------------------------------------------------------------------
Init ==
  /\ L!Init
  /\ entregas = [e \in Entregas |-> Ausente]
  /\ pc = [p \in Processos |-> "ocioso"]
  /\ alvo = [p \in Processos |-> Nada]
  /\ lida = [p \in Processos |-> 0]
  /\ perdas = {}

Next ==
  \/ \E p \in Processos :
       \/ Registrar(p) \/ Retentar(p) \/ LerOriginal(p)
       \/ Enviar(p) \/ EnviarErro(p) \/ Contar(p) \/ Recuperar(p)
       \/ Marcar(p) \/ Enfileirar(p) \/ EnfileirarErro(p) \/ Limpar(p)
       \/ InserirRetificadora(p) \/ Cair(p)
  \/ ExecutarLimpeza

Spec == Init /\ [][Next]_vars

-----------------------------------------------------------------------------
(* Properties.                                                             *)

EmCurso(e) == \E p \in Processos : alvo[p] = e /\ pc[p] # "inserir"

(* Every variable stays in its set; the queue keeps its own type. *)
TypeOK ==
  /\ L!TypeOK
  /\ entregas \in [Entregas -> [status : Status, tentativas : Nat,
                                original : Entregas \cup {Nada}]]
  /\ pc \in [Processos -> Pontos]
  /\ alvo \in [Processos -> Entregas \cup {Nada}]
  /\ lida \in [Processos -> Nat]
  /\ perdas \subseteq Entregas

(* A delivery whose upload worked and whose key was never scheduled for    *)
(* removal has its file: only the compensation of a failure can remove it. *)
SemCompensacaoArmazenada ==
  \A e \in Entregas :
    /\ entregas[e].status = "INTEGRA" /\ entregas[e].tentativas > 0
    /\ e \notin L!Agendados
    => e \in objetos

(* The delivery is in FALHA_STORAGE, its requests are over, and nobody is  *)
(* going to remove the object it left. *)
SemCompensacao(e) ==
  /\ entregas[e].status = "FALHA_STORAGE"
  /\ e \in objetos
  /\ ~EmCurso(e)
  /\ jobs[e].status \in {"SEM_JOB", "CONCLUIDO"}
  /\ e \notin perdas

(* R2.3: a delivery left in FALHA_STORAGE by its first upload has a job    *)
(* that is still to remove the partial object, unless an error or a crash  *)
(* of the compensation itself lost it: no execution of the job may         *)
(* conclude it while the object is there, or comes back. *)
PrimeiraFalhaCompensada ==
  \A e \in Entregas : entregas[e].tentativas = 1 => ~SemCompensacao(e)

(* fiscal-entregas.service.ts:487-488: a retry that fails compensates      *)
(* again, since the object may have been partly written once more. *)
FalhaCompensada == \A e \in Entregas : ~SemCompensacao(e)

(* R2.2: what a rectification names is a base delivery, never itself a     *)
(* rectification, though it was read in an earlier statement.              *)
RetificacaoDeBase ==
  \A e \in Entregas :
    entregas[e].original # Nada =>
      /\ entregas[e].original # e
      /\ Existe(entregas[e].original)
      /\ entregas[entregas[e].original].original = Nada

(* fiscal-entregas.service.ts:293-294: an original that was rectified is   *)
(* not rectified again; the original is read before the row is inserted.   *)
RetificacaoUnica ==
  \A e, f \in Entregas :
    entregas[e].original # Nada /\ entregas[e].original = entregas[f].original
    => e = f

(* retentarUpload: "a snapshot that is already whole is not retried".      *)
(* A delivery with a recorded upload, no longer in FALHA_STORAGE and with  *)
(* no request in course, has its file in the bucket.                       *)
IntegraArmazenada ==
  \A e \in Entregas :
    /\ entregas[e].status = "INTEGRA" /\ entregas[e].tentativas > 0
    /\ ~EmCurso(e)
    => e \in objetos
=============================================================================
