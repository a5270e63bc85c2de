--------------------------- MODULE StorageCleanup ----------------------------
(***************************************************************************)
(* StorageCleanupService: jobs of storage_cleanup_jobs, claimed in batches *)
(* by concurrent calls of processJobs (the cron, the two admin endpoints,  *)
(* the request that scheduled the job), each removing the object from R2   *)
(* and recording the outcome if it still owns the attempt.                 *)
(*                                                                         *)
(* A worker is one call of processJobs. It may be slower than the 15-      *)
(* minute lease, fail at any statement, or die with its process.           *)
(***************************************************************************)
EXTENDS Naturals, FiniteSets

CONSTANTS
  Chaves,         \* object keys
  Trabalhadores,  \* calls of processJobs that may run at the same time
  Lote,           \* CLEANUP_BATCH_SIZE: jobs a call claims at most
  Concorrencia,   \* CLEANUP_CONCURRENCY: jobs of a call in progress at once
  MaxFalhas       \* bound: errors, crashes and slow workers of a behaviour

LimpezaAssumption ==
  /\ IsFiniteSet(Chaves)
  /\ Lote \in Nat \ {0}
  /\ Concorrencia \in Nat \ {0}
  /\ MaxFalhas \in Nat

VARIABLES
  objetos,   \* the bucket: keys with a stored object
  jobs,      \* storage_cleanup_jobs, by object_key (which is unique)
  posse,     \* what each worker holds of each key
  falhas     \* failures so far

vars == <<objetos, jobs, posse, falhas>>

Status == {"SEM_JOB", "PENDENTE", "PROCESSANDO", "FALHOU", "CONCLUIDO"}

SemJob == [status |-> "SEM_JOB", tentativas |-> 0, criado |-> 0, vencido |-> FALSE]

Fases == {"nada", "espera", "apagar", "concluir", "falhar"}

SemPosse == [fase |-> "nada", tentativas |-> 0]

Livre(w) == \A k \in Chaves : posse[w][k].fase = "nada"

EmCurso(w) == {k \in Chaves : posse[w][k].fase \in {"apagar", "concluir", "falhar"}}

EmEspera(w) == {k \in Chaves : posse[w][k].fase = "espera"}

Agendados == {k \in Chaves : jobs[k].status # "SEM_JOB"}

Passo(w, k, fase) == posse' = [posse EXCEPT ![w][k].fase = fase]

Soltar(w, k) == posse' = [posse EXCEPT ![w][k] = SemPosse]

Falha == falhas < MaxFalhas /\ falhas' = falhas + 1

-----------------------------------------------------------------------------
(* The services that use the queue.                                        *)

Depositar(k) ==
  /\ jobs[k] = SemJob
  /\ objetos' = objetos \cup {k}
  /\ UNCHANGED <<jobs, posse, falhas>>

(* Rows of one INSERT share criado_em; ON CONFLICT (object_key) DO NOTHING. *)
Agendar(K) ==
  /\ jobs' = [k \in Chaves |->
                IF k \in K \ Agendados
                THEN [SemJob EXCEPT !.status = "PENDENTE",
                                    !.criado = 1 + Cardinality(Agendados)]
                ELSE jobs[k]]
  /\ UNCHANGED <<objetos, posse, falhas>>

-----------------------------------------------------------------------------
(* processJobs.                                                            *)

(* Variant for mutation: an abandoned claim is never taken over. *)
ElegivelSemPrazo(k) == jobs[k].status \in {"PENDENTE", "FALHOU"}

Elegivel(k) ==
  \/ jobs[k].status \in {"PENDENTE", "FALHOU"}
  \/ jobs[k].status = "PROCESSANDO" /\ jobs[k].vencido

(* ORDER BY criado_em LIMIT, among the rows asked for. *)
Candidatos(K) ==
  LET E == {k \in K : Elegivel(k)}
  IN  {S \in SUBSET E :
         /\ Cardinality(S) = IF Cardinality(E) < Lote THEN Cardinality(E) ELSE Lote
         /\ \A k \in S, o \in E \ S : jobs[k].criado <= jobs[o].criado}

(* Variant for mutation: a claim gives an attempt back. *)
MarcarDescontando(job) ==
  [job EXCEPT !.status = "PROCESSANDO", !.tentativas = @ - 1, !.vencido = FALSE]

Marcar(job) ==
  [job EXCEPT !.status = "PROCESSANDO", !.tentativas = @ + 1, !.vencido = FALSE]

(* The claim, one statement: FOR UPDATE SKIP LOCKED and the UPDATE. *)
Reivindicar(w, K) ==
  /\ Livre(w)
  /\ \E S \in Candidatos(K) :
       /\ jobs' = [k \in Chaves |-> IF k \in S THEN Marcar(jobs[k]) ELSE jobs[k]]
       /\ posse' = [posse EXCEPT ![w] =
            [k \in Chaves |-> IF k \in S
                              THEN [fase |-> "espera", tentativas |-> jobs'[k].tentativas]
                              ELSE SemPosse]]
  /\ UNCHANGED <<objetos, falhas>>

(* Variant for mutation: the outcome is recorded before the removal. *)
IniciarPeloFim(w) ==
  /\ EmCurso(w) = {}
  /\ \E k \in EmEspera(w) : Passo(w, k, "concluir")
  /\ UNCHANGED <<objetos, jobs, falhas>>

(* The next slice of the batch starts when the previous one is over. *)
IniciarFatia(w) ==
  /\ EmCurso(w) = {} /\ EmEspera(w) # {}
  /\ \E S \in SUBSET EmEspera(w) :
       /\ Cardinality(S) = IF Cardinality(EmEspera(w)) < Concorrencia
                           THEN Cardinality(EmEspera(w)) ELSE Concorrencia
       /\ posse' = [posse EXCEPT ![w] =
            [k \in Chaves |-> IF k \in S THEN [posse[w][k] EXCEPT !.fase = "apagar"]
                              ELSE posse[w][k]]]
  /\ UNCHANGED <<objetos, jobs, falhas>>

Apagar(w, k) ==
  /\ posse[w][k].fase = "apagar"
  /\ objetos' = objetos \ {k}
  /\ Passo(w, k, "concluir")
  /\ UNCHANGED <<jobs, falhas>>

(* DeleteObject fails, or only its answer is lost. *)
ApagarErro(w, k) ==
  /\ posse[w][k].fase = "apagar"
  /\ Falha
  /\ objetos' \in {objetos, objetos \ {k}}
  /\ Passo(w, k, "falhar")
  /\ UNCHANGED jobs

(* Variant for mutation: the outcome is recorded by id and status only. *)
DonoPeloStatus(w, k) == jobs[k].status = "PROCESSANDO"

(* The WHERE of both outcome updates: the attempt is still this worker's. *)
Dono(w, k) ==
  /\ jobs[k].status = "PROCESSANDO"
  /\ jobs[k].tentativas = posse[w][k].tentativas

Registrar(w, k, status) ==
  jobs' = IF Dono(w, k) THEN [jobs EXCEPT ![k].status = status, ![k].vencido = FALSE]
                        ELSE jobs

Concluir(w, k) ==
  /\ posse[w][k].fase = "concluir"
  /\ Registrar(w, k, "CONCLUIDO")
  /\ Soltar(w, k)
  /\ UNCHANGED <<objetos, falhas>>

(* The update fails, or commits and its answer is lost: the catch follows. *)
ConcluirErro(w, k) ==
  /\ posse[w][k].fase = "concluir"
  /\ Falha
  /\ jobs' = jobs \/ Registrar(w, k, "CONCLUIDO")
  /\ Passo(w, k, "falhar")
  /\ UNCHANGED objetos

RegistrarFalha(w, k) ==
  /\ posse[w][k].fase = "falhar"
  /\ Registrar(w, k, "FALHOU")
  /\ Soltar(w, k)
  /\ UNCHANGED <<objetos, falhas>>

(* The update in the catch throws too: Promise.all rejects, no further     *)
(* slice starts, the jobs already in progress go on. *)
RegistrarFalhaErro(w, k) ==
  /\ posse[w][k].fase = "falhar"
  /\ Falha
  /\ jobs' = jobs \/ Registrar(w, k, "FALHOU")
  /\ posse' = [posse EXCEPT ![w] =
       [o \in Chaves |-> IF o = k \/ o \in EmEspera(w) THEN SemPosse ELSE posse[w][o]]]
  /\ UNCHANGED objetos

(* The process of the worker dies. *)
Cair(w) ==
  /\ ~Livre(w)
  /\ Falha
  /\ posse' = [posse EXCEPT ![w] = [k \in Chaves |-> SemPosse]]
  /\ UNCHANGED <<objetos, jobs>>

Abandonado(k) ==
  \A w \in Trabalhadores :
    posse[w][k].fase = "nada" \/ posse[w][k].tentativas # jobs[k].tentativas

(* Fifteen minutes pass on a claim. If its worker is still alive, it is    *)
(* slow, which counts as a failure. *)
Vencer(k) ==
  /\ jobs[k].status = "PROCESSANDO"
  /\ ~jobs[k].vencido
  /\ jobs' = [jobs EXCEPT ![k].vencido = TRUE]
  /\ IF Abandonado(k) THEN falhas' = falhas ELSE Falha
  /\ UNCHANGED <<objetos, posse>>

-----------------------------------------------------------------------------
Init ==
  /\ objetos = {}
  /\ jobs = [k \in Chaves |-> SemJob]
  /\ posse = [w \in Trabalhadores |-> [k \in Chaves |-> SemPosse]]
  /\ falhas = 0

(* The cron and the admin endpoints ask for every job. *)
ExecutarCron(w) == Reivindicar(w, Chaves)

(* A deletion asks for the job it has just scheduled. *)
ExecutarPedido(w) == \E k \in Agendados : Reivindicar(w, {k})

Trabalhar(w) ==
  \/ IniciarFatia(w)
  \/ \E k \in Chaves : Apagar(w, k) \/ Concluir(w, k) \/ RegistrarFalha(w, k)

Falhar(w) ==
  \/ \E k \in Chaves : ApagarErro(w, k) \/ ConcluirErro(w, k) \/ RegistrarFalhaErro(w, k)
  \/ Cair(w)

Limpeza ==
  \/ \E w \in Trabalhadores :
       ExecutarCron(w) \/ ExecutarPedido(w) \/ Trabalhar(w) \/ Falhar(w)
  \/ \E k \in Chaves : Vencer(k)

Next ==
  \/ \E k \in Chaves : Depositar(k)
  \/ \E K \in (SUBSET Chaves) \ {{}} : K \subseteq objetos /\ Agendar(K)
  \/ Limpeza

Spec == Init /\ [][Next]_vars

(* The cron is called every day, a running call goes on unless it fails,   *)
(* and time passes. Services are not obliged to schedule anything.         *)
Fairness ==
  /\ WF_vars(\E w \in Trabalhadores : ExecutarCron(w))
  /\ \A w \in Trabalhadores : WF_vars(Trabalhar(w))
  /\ \A k \in Chaves : WF_vars(Vencer(k))

FairSpec == Spec /\ Fairness

-----------------------------------------------------------------------------
(* Properties.                                                             *)

(* Every variable stays in its set. *)
TypeOK ==
  /\ objetos \subseteq Chaves
  /\ jobs \in [Chaves -> [status : Status, tentativas : Nat, criado : Nat, vencido : BOOLEAN]]
  /\ posse \in [Trabalhadores -> [Chaves -> [fase : Fases, tentativas : Nat]]]
  /\ falhas \in 0 .. MaxFalhas

(* "Concurrent executions do not process the same row": two workers may    *)
(* hold one job only in different attempts, and at most the one of the     *)
(* current attempt can still record an outcome.                            *)
PosseUnica ==
  \A v, w \in Trabalhadores, k \in Chaves :
    /\ posse[w][k].fase # "nada" => posse[w][k].tentativas <= jobs[k].tentativas
    /\ v # w /\ posse[v][k].fase # "nada" /\ posse[w][k].fase # "nada"
         => posse[v][k].tentativas # posse[w][k].tentativas

(* A worker that lost its lease records nothing: while the current attempt *)
(* is held by a live worker its job stays PROCESSANDO, or is CONCLUIDO     *)
(* because that worker's own update committed without an answer.           *)
PosseVigente ==
  \A w \in Trabalhadores, k \in Chaves :
    posse[w][k].fase # "nada" /\ posse[w][k].tentativas = jobs[k].tentativas
      => \/ jobs[k].status = "PROCESSANDO"
         \/ jobs[k].status = "CONCLUIDO" /\ posse[w][k].fase = "falhar"

(* Every scheduled job ends CONCLUIDO, past failures, crashes, lost        *)
(* answers and slow workers, as long as these are finitely many: again and *)
(* again no job is left to do (a key is scheduled once). *)
AgendadoConclui == []<>(\A k \in Agendados : jobs[k].status = "CONCLUIDO")

-----------------------------------------------------------------------------
(* Refinement: the status of a job is its place in the abstract queue.     *)

FilaDe(job) ==
  IF job.status = "SEM_JOB" THEN "fora"
  ELSE IF job.status = "CONCLUIDO" THEN "concluido" ELSE "agendado"

F == INSTANCE FilaLimpeza WITH fila <- [k \in Chaves |-> FilaDe(jobs[k])]

(* StorageCleanup implements FilaLimpeza: what the services rely on. *)
ImplementaFila == F!FSpec
=============================================================================
