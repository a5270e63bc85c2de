----------------------- MODULE StorageCleanup_proofs -------------------------
(***************************************************************************)
(* Proofs about StorageCleanup, for any number of calls of processJobs,    *)
(* keys and failures and any size of batch and slice: who holds a job, and *)
(* that the jobs implement the queue the services rely on (FilaLimpeza).   *)
(*                                                                         *)
(* PosseUnica is inductive once it is known that nobody holds a key        *)
(* without a job; the refinement needs besides that the object of a key is *)
(* gone when a worker is about to conclude.                                *)
(***************************************************************************)
EXTENDS StorageCleanup, FiniteSetTheorems, TLAPS

Job == [status : Status, tentativas : Nat, criado : Nat, vencido : BOOLEAN]
Posse == [fase : Fases, tentativas : Nat]

Ativa(w, k) == posse[w][k].fase # "nada"

(* Nobody holds a key that was never scheduled, and nothing of a key that  *)
(* is to be concluded is left in the bucket. *)
PosseDeJob ==
  \A w \in Trabalhadores, k \in Chaves :
    /\ Ativa(w, k) => jobs[k].status # "SEM_JOB"
    /\ posse[w][k].fase = "concluir" => k \notin objetos

IInv == TypeOK /\ PosseDeJob /\ PosseUnica /\ PosseVigente

-----------------------------------------------------------------------------
(* What the parts of a step do to one key and one worker.                  *)

LEMMA Campos ==
  ASSUME TypeOK, NEW w \in Trabalhadores, NEW k \in Chaves
  PROVE  /\ jobs[k] \in Job /\ posse[w][k] \in Posse
         /\ jobs[k].status \in Status /\ jobs[k].tentativas \in Nat
         /\ posse[w][k].fase \in Fases /\ posse[w][k].tentativas \in Nat
  BY DEF TypeOK, Job, Posse

LEMMA EfeitoFalha ==
  ASSUME LimpezaAssumption, TypeOK, falhas' = falhas \/ Falha
  PROVE  falhas' \in 0 .. MaxFalhas
BY DEF LimpezaAssumption, TypeOK, Falha

LEMMA EfeitoPasso ==
  ASSUME TypeOK, NEW w \in Trabalhadores, NEW k \in Chaves, NEW f \in Fases, Passo(w, k, f)
  PROVE  /\ posse' \in [Trabalhadores -> [Chaves -> Posse]]
         /\ \A v \in Trabalhadores, o \in Chaves :
              /\ posse'[v][o].tentativas = posse[v][o].tentativas
              /\ posse'[v][o].fase = IF v = w /\ o = k THEN f ELSE posse[v][o].fase
              /\ v # w => posse'[v][o] = posse[v][o]
<1>1. posse \in [Trabalhadores -> [Chaves -> Posse]]
  BY DEF TypeOK, Posse
<1>2. posse' \in [Trabalhadores -> [Chaves -> Posse]]
  BY <1>1 DEF Passo, Posse
<1>3. /\ \A v \in Trabalhadores : v # w => posse'[v] = posse[v]
      /\ \A o \in Chaves : o # k => posse'[w][o] = posse[w][o]
  BY <1>1 DEF Passo
<1>4. posse'[w][k].fase = f /\ posse'[w][k].tentativas = posse[w][k].tentativas
  BY <1>1 DEF Passo, Posse
<1>5. QED
  BY <1>2, <1>3, <1>4

LEMMA EfeitoSoltar ==
  ASSUME TypeOK, NEW w \in Trabalhadores, NEW K \in SUBSET Chaves,
         posse' = [posse EXCEPT ![w] =
                     [o \in Chaves |-> IF o \in K THEN SemPosse ELSE posse[w][o]]]
  PROVE  /\ posse' \in [Trabalhadores -> [Chaves -> Posse]]
         /\ \A v \in Trabalhadores, o \in Chaves :
              posse'[v][o] = IF v = w /\ o \in K THEN SemPosse ELSE posse[v][o]
<1>1. posse \in [Trabalhadores -> [Chaves -> Posse]] /\ SemPosse \in Posse
  BY DEF TypeOK, Posse, SemPosse, Fases
<1>2. QED
  BY <1>1

LEMMA EfeitoRegistrar ==
  ASSUME TypeOK, NEW w \in Trabalhadores, NEW k \in Chaves,
         NEW s \in {"CONCLUIDO", "FALHOU"}, Registrar(w, k, s)
  PROVE  /\ jobs' \in [Chaves -> Job]
         /\ \A o \in Chaves :
              /\ jobs'[o].tentativas = jobs[o].tentativas
              /\ jobs'[o].status = IF o = k /\ Dono(w, k) THEN s ELSE jobs[o].status
<1>1. jobs \in [Chaves -> Job]
  BY DEF TypeOK, Job
<1>2. CASE Dono(w, k)
  <2>1. jobs' = [jobs EXCEPT ![k] = [@ EXCEPT !.status = s, !.vencido = FALSE]]
    BY <1>1, <1>2 DEF Registrar, Job
  <2>2. [jobs[k] EXCEPT !.status = s, !.vencido = FALSE] \in Job
    BY <1>1 DEF Job, Status
  <2>3. jobs' \in [Chaves -> Job]
    BY <1>1, <2>1, <2>2
  <2>4. jobs'[k].status = s /\ jobs'[k].tentativas = jobs[k].tentativas
    BY <1>1, <2>1 DEF Job
  <2>5. \A o \in Chaves \ {k} : jobs'[o] = jobs[o]
    BY <1>1, <2>1
  <2>6. QED
    BY <1>2, <2>3, <2>4, <2>5
<1>3. CASE ~Dono(w, k)
  BY <1>1, <1>3 DEF Registrar
<1>4. QED
  BY <1>2, <1>3

-----------------------------------------------------------------------------
(* A step that keeps every attempt, frees or keeps what is held, and ends  *)
(* no job another worker holds keeps the invariant. *)
LEMMA PassoDoTrabalhador ==
  ASSUME IInv, NEW w \in Trabalhadores,
         objetos' \subseteq objetos,
         jobs' \in [Chaves -> Job],
         posse' \in [Trabalhadores -> [Chaves -> Posse]],
         falhas' \in 0 .. MaxFalhas,
         \A o \in Chaves : jobs'[o].tentativas = jobs[o].tentativas,
         \A o \in Chaves :
            \/ jobs'[o].status = jobs[o].status
            \/ /\ Dono(w, o) /\ Ativa(w, o)
               /\ jobs'[o].status \in {"CONCLUIDO", "FALHOU"}
               /\ \/ ~Ativa(w, o)'
                  \/ jobs'[o].status = "CONCLUIDO" /\ posse'[w][o].fase = "falhar",
         \A v \in Trabalhadores, o \in Chaves :
            /\ v # w => posse'[v][o] = posse[v][o]
            /\ Ativa(v, o)' => /\ Ativa(v, o)
                               /\ posse'[v][o].tentativas = posse[v][o].tentativas
                               /\ posse[v][o].fase = "falhar"
                                      => posse'[v][o].fase = "falhar",
         \A o \in Chaves : posse'[w][o].fase = "concluir" =>
                             posse[w][o].fase = "concluir" \/ o \notin objetos'
  PROVE  IInv'
<1>1. TypeOK'
  BY DEF IInv, TypeOK, Job, Posse
<1>2. PosseUnica'
  BY DEF IInv, PosseUnica, Ativa
<1>3. PosseDeJob'
  <2>1. SUFFICES ASSUME NEW v \in Trabalhadores, NEW o \in Chaves
                 PROVE  /\ Ativa(v, o)' => jobs'[o].status # "SEM_JOB"
                        /\ posse'[v][o].fase = "concluir" => o \notin objetos'
    BY DEF PosseDeJob
  <2>2. Ativa(v, o)' => jobs'[o].status # "SEM_JOB"
    BY DEF IInv, PosseDeJob
  <2>3. posse'[v][o].fase = "concluir" => o \notin objetos'
    BY DEF IInv, PosseDeJob
  <2>4. QED
    BY <2>2, <2>3
<1>4. PosseVigente'
  <2>2. SUFFICES ASSUME NEW v \in Trabalhadores, NEW o \in Chaves,
                        Ativa(v, o)', posse'[v][o].tentativas = jobs'[o].tentativas
                 PROVE  \/ jobs'[o].status = "PROCESSANDO"
                        \/ jobs'[o].status = "CONCLUIDO" /\ posse'[v][o].fase = "falhar"
    BY DEF PosseVigente, Ativa
  <2>3. /\ Ativa(v, o) /\ posse[v][o].tentativas = jobs[o].tentativas
        /\ posse'[v][o].tentativas = posse[v][o].tentativas
        /\ posse[v][o].fase = "falhar"
               => posse'[v][o].fase = "falhar"
    BY <2>2
  <2>4. CASE jobs'[o].status = jobs[o].status
    BY <2>3, <2>4 DEF IInv, PosseVigente, Ativa
  <2>5. CASE jobs'[o].status # jobs[o].status
    <3>1. Dono(w, o) /\ Ativa(w, o)
      BY <2>5
    <3>2. v = w
      BY <2>3, <3>1 DEF IInv, PosseUnica, Dono, Ativa
    <3>3. QED
      BY <2>2, <2>5, <3>2
  <2>6. QED
    BY <2>4, <2>5
<1>5. QED
  BY <1>1, <1>2, <1>3, <1>4 DEF IInv

-----------------------------------------------------------------------------
LEMMA InicioIInv ==
  ASSUME LimpezaAssumption, Init
  PROVE  IInv
BY DEF LimpezaAssumption, Init, IInv, TypeOK, PosseDeJob, PosseUnica, PosseVigente,
   Ativa, SemJob, SemPosse, Status, Fases

LEMMA DepositarIInv ==
  ASSUME IInv, NEW k \in Chaves, Depositar(k)
  PROVE  IInv'
<1>1. /\ jobs[k].status = "SEM_JOB" /\ UNCHANGED <<jobs, posse, falhas>>
      /\ objetos' = objetos \cup {k}
  BY DEF Depositar, SemJob
<1>2. \A w \in Trabalhadores : posse[w][k].fase # "concluir"
  BY <1>1 DEF IInv, PosseDeJob, Ativa
<1>3. QED
  BY <1>1, <1>2 DEF IInv, TypeOK, PosseDeJob, PosseUnica, PosseVigente, Ativa

LEMMA AgendarIInv ==
  ASSUME LimpezaAssumption, IInv, NEW K \in SUBSET Chaves, Agendar(K)
  PROVE  IInv'
<1> DEFINE novo == [SemJob EXCEPT !.status = "PENDENTE",
                                 !.criado = 1 + Cardinality(Agendados)]
<1>1. /\ jobs' = [k \in Chaves |-> IF k \in K \ Agendados THEN novo ELSE jobs[k]]
      /\ UNCHANGED <<objetos, posse, falhas>>
  BY DEF Agendar
<1>2. Cardinality(Agendados) \in Nat
  <2>1. Agendados \subseteq Chaves /\ IsFiniteSet(Chaves)
    BY DEF Agendados, LimpezaAssumption
  <2>2. QED
    BY <2>1, FS_Subset, FS_CardinalityType
<1>3. novo \in Job
  <2>1. PICK n \in Nat : n = 1 + Cardinality(Agendados)
    BY <1>2
  <2>2. [SemJob EXCEPT !.status = "PENDENTE", !.criado = n] \in Job
    BY DEF Job, SemJob, Status
  <2>3. QED
    BY <2>1, <2>2
<1>4. TypeOK'
  <2>1. jobs \in [Chaves -> Job]
    BY DEF IInv, TypeOK, Job
  <2>2. jobs' \in [Chaves -> Job]
    BY <1>1, <1>3, <2>1
  <2>3. QED
    BY <1>1, <2>2 DEF IInv, TypeOK, Job
<1>5. \A w \in Trabalhadores, k \in Chaves : Ativa(w, k) => jobs'[k] = jobs[k]
  BY <1>1 DEF IInv, PosseDeJob, Agendados
<1>6. QED
  <2>1. PosseUnica'
    <3>1. SUFFICES ASSUME NEW v \in Trabalhadores, NEW w \in Trabalhadores, NEW k \in Chaves
                   PROVE  /\ Ativa(w, k) => posse[w][k].tentativas <= jobs'[k].tentativas
                          /\ v # w /\ Ativa(v, k) /\ Ativa(w, k)
                               => posse[v][k].tentativas # posse[w][k].tentativas
      BY <1>1 DEF PosseUnica, Ativa
    <3>2. QED
      BY <1>5 DEF IInv, PosseUnica, Ativa
  <2>2. PosseVigente'
    <3>1. SUFFICES ASSUME NEW w \in Trabalhadores, NEW k \in Chaves, Ativa(w, k),
                          posse[w][k].tentativas = jobs'[k].tentativas
                   PROVE  \/ jobs'[k].status = "PROCESSANDO"
                          \/ jobs'[k].status = "CONCLUIDO" /\ posse[w][k].fase = "falhar"
      BY <1>1 DEF PosseVigente, Ativa
    <3>2. QED
      BY <1>5, <3>1 DEF IInv, PosseVigente, Ativa
  <2>3. PosseDeJob'
    <3>1. SUFFICES ASSUME NEW w \in Trabalhadores, NEW k \in Chaves
                   PROVE  /\ Ativa(w, k) => jobs'[k].status # "SEM_JOB"
                          /\ posse[w][k].fase = "concluir" => k \notin objetos
      BY <1>1 DEF PosseDeJob, Ativa
    <3>2. QED
      BY <1>5 DEF IInv, PosseDeJob, Ativa
  <2>4. QED
    BY <1>4, <2>1, <2>2, <2>3 DEF IInv

(* A claim takes jobs nobody can still record an outcome of: the attempt   *)
(* it starts is later than every attempt somebody holds. *)
LEMMA ReivindicarIInv ==
  ASSUME IInv, NEW w \in Trabalhadores, NEW K \in SUBSET Chaves, Reivindicar(w, K)
  PROVE  IInv'
<1>1. PICK S \in Candidatos(K) :
        /\ jobs' = [k \in Chaves |-> IF k \in S THEN Marcar(jobs[k]) ELSE jobs[k]]
        /\ posse' = [posse EXCEPT ![w] =
             [k \in Chaves |-> IF k \in S
                               THEN [fase |-> "espera", tentativas |-> jobs'[k].tentativas]
                               ELSE SemPosse]]
  BY DEF Reivindicar
<1>2. /\ S \subseteq Chaves /\ \A k \in S : Elegivel(k)
      /\ Livre(w) /\ UNCHANGED <<objetos, falhas>>
  BY <1>1 DEF Candidatos, Reivindicar
<1>3. jobs \in [Chaves -> Job] /\ posse \in [Trabalhadores -> [Chaves -> Posse]]
  BY DEF IInv, TypeOK, Job, Posse
<1>4. ASSUME NEW k \in Chaves
      PROVE  /\ jobs'[k] \in Job
             /\ k \in S => /\ jobs'[k].status = "PROCESSANDO"
                           /\ jobs'[k].tentativas = jobs[k].tentativas + 1
                           /\ jobs[k].status # "SEM_JOB"
             /\ k \notin S => jobs'[k] = jobs[k]
  <2>1. jobs[k] \in Job
    BY <1>3
  <2>2. CASE k \in S
    <3>1. jobs'[k] = Marcar(jobs[k])
      BY <1>1, <2>2
    <3>2. jobs[k].status # "SEM_JOB"
      BY <1>2, <2>2 DEF Elegivel
    <3>3. jobs'[k] = [status |-> "PROCESSANDO", tentativas |-> jobs[k].tentativas + 1,
                      criado |-> jobs[k].criado, vencido |-> FALSE]
      BY <2>1, <3>1 DEF Marcar, Job
    <3>4. QED
      BY <2>1, <2>2, <3>2, <3>3 DEF Job, Status
  <2>3. CASE k \notin S
    BY <1>1, <2>1, <2>3
  <2>4. QED
    BY <2>2, <2>3
<1>5. ASSUME NEW v \in Trabalhadores, NEW k \in Chaves
      PROVE  /\ v # w => posse'[v][k] = posse[v][k]
             /\ k \in S => /\ posse'[w][k].fase = "espera"
                           /\ posse'[w][k].tentativas = jobs'[k].tentativas
             /\ k \notin S => ~Ativa(w, k)' /\ posse'[w][k].fase = "nada"
             /\ posse'[v][k] \in Posse
  BY <1>1, <1>3, <1>4 DEF Posse, Job, SemPosse, Fases, Ativa
<1>6. jobs' \in [Chaves -> Job]
  BY <1>1, <1>4
<1>7. posse' \in [Trabalhadores -> [Chaves -> Posse]]
  <2>1. \A v \in Trabalhadores : posse'[v] = [k \in Chaves |-> posse'[v][k]]
    BY <1>1, <1>3
  <2>2. posse' = [v \in Trabalhadores |-> posse'[v]]
    BY <1>1, <1>3
  <2>3. QED
    BY <1>5, <2>1, <2>2
<1>8. TypeOK'
  BY <1>2, <1>6, <1>7 DEF IInv, TypeOK, Job, Posse
<1>9. \A v \in Trabalhadores, k \in Chaves :
        /\ jobs[k].tentativas \in Nat /\ posse[v][k].tentativas \in Nat
        /\ Ativa(v, k) => posse[v][k].tentativas <= jobs[k].tentativas
  BY <1>3 DEF IInv, PosseUnica, Ativa, Job, Posse
<1>10. PosseUnica'
  <2>1. SUFFICES ASSUME NEW v \in Trabalhadores, NEW u \in Trabalhadores, NEW k \in Chaves
                 PROVE  /\ Ativa(u, k)' => posse'[u][k].tentativas <= jobs'[k].tentativas
                        /\ v # u /\ Ativa(v, k)' /\ Ativa(u, k)'
                             => posse'[v][k].tentativas # posse'[u][k].tentativas
    BY DEF PosseUnica, Ativa
  <2>2. CASE k \in S
    BY <1>4, <1>5, <1>9, <2>2 DEF IInv, PosseUnica, Ativa
  <2>3. CASE k \notin S
    BY <1>4, <1>5, <1>9, <2>3 DEF IInv, PosseUnica, Ativa
  <2>4. QED
    BY <2>2, <2>3
<1>11. PosseVigente'
  <2>1. SUFFICES ASSUME NEW v \in Trabalhadores, NEW k \in Chaves, Ativa(v, k)',
                        posse'[v][k].tentativas = jobs'[k].tentativas
                 PROVE  \/ jobs'[k].status = "PROCESSANDO"
                        \/ jobs'[k].status = "CONCLUIDO" /\ posse'[v][k].fase = "falhar"
    BY DEF PosseVigente, Ativa
  <2>2. CASE k \in S
    BY <1>4, <1>5, <1>9, <2>1, <2>2 DEF Ativa
  <2>3. CASE k \notin S
    BY <1>4, <1>5, <2>1, <2>3 DEF IInv, PosseVigente, Ativa
  <2>4. QED
    BY <2>2, <2>3
<1>12. PosseDeJob'
  <2>1. SUFFICES ASSUME NEW v \in Trabalhadores, NEW k \in Chaves
                 PROVE  /\ Ativa(v, k)' => jobs'[k].status # "SEM_JOB"
                        /\ posse'[v][k].fase = "concluir" => k \notin objetos'
    BY DEF PosseDeJob
  <2>2. CASE k \in S
    BY <1>2, <1>4, <1>5, <2>2 DEF IInv, PosseDeJob, Ativa
  <2>3. CASE k \notin S
    BY <1>2, <1>4, <1>5, <2>3 DEF IInv, PosseDeJob, Ativa
  <2>4. QED
    BY <2>2, <2>3
<1>13. QED
  BY <1>8, <1>10, <1>11, <1>12 DEF IInv

(* The next slice: jobs that waited are in progress. *)
LEMMA IniciarFatiaIInv ==
  ASSUME IInv, NEW w \in Trabalhadores, IniciarFatia(w)
  PROVE  IInv'
<1>1. PICK S \in SUBSET EmEspera(w) :
        posse' = [posse EXCEPT ![w] =
          [k \in Chaves |-> IF k \in S THEN [posse[w][k] EXCEPT !.fase = "apagar"]
                            ELSE posse[w][k]]]
  BY DEF IniciarFatia
<1>2. UNCHANGED <<objetos, jobs, falhas>>
  BY DEF IniciarFatia
<1>3. /\ posse \in [Trabalhadores -> [Chaves -> Posse]] /\ jobs \in [Chaves -> Job]
      /\ falhas \in 0 .. MaxFalhas
  BY DEF IInv, TypeOK, Posse, Job
<1>4. \A v \in Trabalhadores, k \in Chaves :
        /\ v # w => posse'[v][k] = posse[v][k]
        /\ k \notin S => posse'[w][k] = posse[w][k]
        /\ k \in S => /\ posse[w][k].fase = "espera"
                      /\ posse'[w][k] = [posse[w][k] EXCEPT !.fase = "apagar"]
  BY <1>1, <1>3 DEF EmEspera
<1>5. ASSUME NEW k \in Chaves, k \in S
      PROVE  /\ posse'[w][k].fase = "apagar"
             /\ posse'[w][k].tentativas = posse[w][k].tentativas
             /\ posse'[w][k] \in Posse
  <2>1. posse[w][k] \in Posse /\ posse'[w][k] = [posse[w][k] EXCEPT !.fase = "apagar"]
    BY <1>3, <1>4, <1>5
  <2>2. QED
    BY <2>1 DEF Posse, Fases
<1>6. posse' \in [Trabalhadores -> [Chaves -> Posse]]
  <2>1. \A v \in Trabalhadores : posse'[v] = [k \in Chaves |-> posse'[v][k]]
    BY <1>1, <1>3
  <2>2. posse' = [v \in Trabalhadores |-> posse'[v]]
    BY <1>1, <1>3
  <2>3. ASSUME NEW v \in Trabalhadores, NEW k \in Chaves PROVE posse'[v][k] \in Posse
    <3>1. posse[v][k] \in Posse
      BY <1>3
    <3>2. v # w \/ k \notin S => posse'[v][k] = posse[v][k]
      BY <1>4
    <3>3. QED
      BY <1>5, <3>1, <3>2
  <2>4. QED
    BY <2>1, <2>2, <2>3
<1>7. ASSUME NEW v \in Trabalhadores, NEW o \in Chaves
      PROVE  /\ Ativa(v, o)' => /\ Ativa(v, o)
                                /\ posse'[v][o].tentativas = posse[v][o].tentativas
                                /\ posse[v][o].fase = "falhar"
                                       => posse'[v][o].fase = "falhar"
             /\ posse'[w][o].fase = "concluir" => posse[w][o].fase = "concluir"
  <2>1. CASE v = w /\ o \in S
    BY <1>4, <1>5, <2>1 DEF Ativa
  <2>2. CASE v # w \/ o \notin S
    <3>1. posse'[v][o] = posse[v][o]
      BY <1>4, <2>2
    <3>2. posse'[w][o].fase = "concluir" => posse[w][o].fase = "concluir"
      BY <1>4, <1>5
    <3>3. QED
      BY <3>1, <3>2 DEF Ativa
  <2>3. QED
    BY <2>1, <2>2
<1>8. jobs' = jobs /\ objetos' \subseteq objetos /\ falhas' \in 0 .. MaxFalhas
  BY <1>2, <1>3
<1>9. \A v \in Trabalhadores, o \in Chaves : v # w => posse'[v][o] = posse[v][o]
  BY <1>4
<1>10. QED
  BY <1>3, <1>6, <1>7, <1>8, <1>9, PassoDoTrabalhador

(* The object goes, or the call fails with or without it. *)
LEMMA ApagarIInv ==
  ASSUME LimpezaAssumption, IInv, NEW w \in Trabalhadores, NEW k \in Chaves,
         Apagar(w, k) \/ ApagarErro(w, k)
  PROVE  IInv'
<1>1. PICK f \in {"concluir", "falhar"} :
        /\ Passo(w, k, f)
        /\ f = "concluir" => objetos' = objetos \ {k}
  BY DEF Apagar, ApagarErro
<1>2. /\ posse[w][k].fase = "apagar" /\ jobs' = jobs /\ objetos' \subseteq objetos
      /\ falhas' \in 0 .. MaxFalhas
  BY EfeitoFalha DEF Apagar, ApagarErro, IInv
<1>3. f \in Fases /\ f # "nada"
  BY DEF Fases
<1>4. TypeOK /\ jobs \in [Chaves -> Job]
  BY DEF IInv, TypeOK, Job
<1>5. /\ posse' \in [Trabalhadores -> [Chaves -> Posse]]
      /\ \A v \in Trabalhadores, o \in Chaves :
           /\ posse'[v][o].tentativas = posse[v][o].tentativas
           /\ posse'[v][o].fase = IF v = w /\ o = k THEN f ELSE posse[v][o].fase
           /\ v # w => posse'[v][o] = posse[v][o]
  BY <1>1, <1>3, <1>4, EfeitoPasso
<1>6. ASSUME NEW v \in Trabalhadores, NEW o \in Chaves
      PROVE  /\ Ativa(v, o)' => /\ Ativa(v, o)
                                /\ posse'[v][o].tentativas = posse[v][o].tentativas
                                /\ posse[v][o].fase = "falhar"
                                       => posse'[v][o].fase = "falhar"
             /\ posse'[w][o].fase = "concluir" =>
                  posse[w][o].fase = "concluir" \/ o \notin objetos'
  BY <1>1, <1>2, <1>5 DEF Ativa
<1>7. QED
  BY <1>2, <1>4, <1>5, <1>6, PassoDoTrabalhador

(* The worker lets go of the key, after the outcome if it is the owner. *)
LEMMA SoltarIInv ==
  ASSUME IInv, NEW w \in Trabalhadores, NEW k \in Chaves,
         Concluir(w, k) \/ RegistrarFalha(w, k)
  PROVE  IInv'
<1>1. PICK s \in {"CONCLUIDO", "FALHOU"} : Registrar(w, k, s)
  BY DEF Concluir, RegistrarFalha
<1>2. /\ Soltar(w, k) /\ UNCHANGED <<objetos, falhas>>
      /\ Ativa(w, k)
  BY DEF Concluir, RegistrarFalha, Ativa
<1>3. TypeOK
  BY DEF IInv
<1>4. /\ posse' \in [Trabalhadores -> [Chaves -> Posse]]
      /\ \A v \in Trabalhadores, o \in Chaves :
           posse'[v][o] = IF v = w /\ o = k THEN SemPosse ELSE posse[v][o]
  <2>1. posse \in [Trabalhadores -> [Chaves -> Posse]] /\ SemPosse \in Posse
    BY <1>3 DEF TypeOK, Posse, SemPosse, Fases
  <2>2. QED
    BY <1>2, <2>1 DEF Soltar
<1>5. /\ jobs' \in [Chaves -> Job]
      /\ \A o \in Chaves :
           /\ jobs'[o].tentativas = jobs[o].tentativas
           /\ jobs'[o].status = IF o = k /\ Dono(w, k) THEN s ELSE jobs[o].status
  BY <1>1, <1>3, EfeitoRegistrar
<1>6. ~Ativa(w, k)' /\ posse'[w][k].fase = "nada"
  BY <1>4 DEF Ativa, SemPosse
<1>7. falhas' \in 0 .. MaxFalhas
  BY <1>2, <1>3 DEF TypeOK
<1>8. QED
  BY <1>2, <1>4, <1>5, <1>6, <1>7, PassoDoTrabalhador DEF Ativa

(* The update fails, or only its answer is lost. *)
LEMMA ConcluirErroIInv ==
  ASSUME LimpezaAssumption, IInv, NEW w \in Trabalhadores, NEW k \in Chaves,
         ConcluirErro(w, k)
  PROVE  IInv'
<1>1. /\ posse[w][k].fase = "concluir" /\ Passo(w, k, "falhar") /\ objetos' = objetos
      /\ jobs' = jobs \/ Registrar(w, k, "CONCLUIDO")
      /\ falhas' \in 0 .. MaxFalhas
  BY EfeitoFalha DEF ConcluirErro, IInv
<1>2. TypeOK
  BY DEF IInv
<1>3. /\ posse' \in [Trabalhadores -> [Chaves -> Posse]]
      /\ \A v \in Trabalhadores, o \in Chaves :
           /\ posse'[v][o].tentativas = posse[v][o].tentativas
           /\ posse'[v][o].fase =
                IF v = w /\ o = k THEN "falhar" ELSE posse[v][o].fase
           /\ v # w => posse'[v][o] = posse[v][o]
  BY <1>1, <1>2, EfeitoPasso DEF Fases
<1>4. /\ jobs' \in [Chaves -> Job]
      /\ \A o \in Chaves :
           /\ jobs'[o].tentativas = jobs[o].tentativas
           /\ \/ jobs'[o].status = jobs[o].status
              \/ o = k /\ Dono(w, k) /\ jobs'[o].status = "CONCLUIDO"
  <2>1. CASE jobs' = jobs
    BY <1>2, <2>1 DEF TypeOK, Job
  <2>2. CASE Registrar(w, k, "CONCLUIDO")
    BY <1>2, <2>2, EfeitoRegistrar
  <2>3. QED
    BY <1>1, <2>1, <2>2
<1>5. Ativa(w, k) /\ posse'[w][k].fase = "falhar"
  BY <1>1, <1>3 DEF Ativa
<1>6. QED
  BY <1>1, <1>3, <1>4, <1>5, PassoDoTrabalhador DEF Ativa

(* The catch fails too: the rest of the batch is not started. *)
LEMMA RegistrarFalhaErroIInv ==
  ASSUME LimpezaAssumption, IInv, NEW w \in Trabalhadores, NEW k \in Chaves,
         RegistrarFalhaErro(w, k)
  PROVE  IInv'
<1> DEFINE K == {o \in Chaves : o = k \/ o \in EmEspera(w)}
<1>1. /\ posse[w][k].fase = "falhar" /\ objetos' = objetos
      /\ jobs' = jobs \/ Registrar(w, k, "FALHOU")
      /\ posse' = [posse EXCEPT ![w] =
           [o \in Chaves |-> IF o \in K THEN SemPosse ELSE posse[w][o]]]
      /\ falhas' \in 0 .. MaxFalhas
  BY EfeitoFalha DEF RegistrarFalhaErro, IInv
<1>2. TypeOK
  BY DEF IInv
<1>3. /\ posse' \in [Trabalhadores -> [Chaves -> Posse]]
      /\ \A v \in Trabalhadores, o \in Chaves :
           posse'[v][o] = IF v = w /\ o \in K THEN SemPosse ELSE posse[v][o]
  BY <1>1, <1>2, EfeitoSoltar
<1>4. /\ jobs' \in [Chaves -> Job]
      /\ \A o \in Chaves :
           /\ jobs'[o].tentativas = jobs[o].tentativas
           /\ \/ jobs'[o].status = jobs[o].status
              \/ o = k /\ Dono(w, k) /\ jobs'[o].status = "FALHOU"
  <2>1. CASE jobs' = jobs
    BY <1>2, <2>1 DEF TypeOK, Job
  <2>2. CASE Registrar(w, k, "FALHOU")
    BY <1>2, <2>2, EfeitoRegistrar
  <2>3. QED
    BY <1>1, <2>1, <2>2
<1>5. Ativa(w, k) /\ ~Ativa(w, k)'
  BY <1>1, <1>3 DEF Ativa, SemPosse
<1>6. \A o \in K : posse'[w][o].fase = "nada"
  BY <1>3 DEF SemPosse
<1>7. QED
  BY <1>1, <1>3, <1>4, <1>5, <1>6, PassoDoTrabalhador DEF Ativa

LEMMA CairIInv ==
  ASSUME LimpezaAssumption, IInv, NEW w \in Trabalhadores, Cair(w)
  PROVE  IInv'
<1>1. /\ posse' = [posse EXCEPT ![w] =
           [o \in Chaves |-> IF o \in Chaves THEN SemPosse ELSE posse[w][o]]]
      /\ UNCHANGED <<objetos, jobs>> /\ falhas' \in 0 .. MaxFalhas
  BY EfeitoFalha DEF Cair, IInv
<1>2. TypeOK /\ jobs \in [Chaves -> Job]
  BY DEF IInv, TypeOK, Job
<1>3. /\ posse' \in [Trabalhadores -> [Chaves -> Posse]]
      /\ \A v \in Trabalhadores, o \in Chaves :
           posse'[v][o] = IF v = w /\ o \in Chaves THEN SemPosse ELSE posse[v][o]
  BY <1>1, <1>2, EfeitoSoltar
<1>4. \A o \in Chaves : posse'[w][o].fase = "nada"
  BY <1>3 DEF SemPosse
<1>5. QED
  BY <1>1, <1>2, <1>3, <1>4, PassoDoTrabalhador DEF Ativa

LEMMA VencerIInv ==
  ASSUME LimpezaAssumption, IInv, NEW k \in Chaves, Vencer(k)
  PROVE  IInv'
<1>1. /\ jobs' = [jobs EXCEPT ![k].vencido = TRUE] /\ UNCHANGED <<objetos, posse>>
      /\ falhas' \in 0 .. MaxFalhas
  BY EfeitoFalha DEF Vencer, IInv
<1>2. jobs \in [Chaves -> Job]
  BY DEF IInv, TypeOK, Job
<1>3. /\ jobs' \in [Chaves -> Job]
      /\ \A o \in Chaves : /\ jobs'[o].status = jobs[o].status
                            /\ jobs'[o].tentativas = jobs[o].tentativas
  BY <1>1, <1>2 DEF Job
<1>4. TypeOK'
  BY <1>1, <1>3 DEF IInv, TypeOK, Job
<1>5. QED
  BY <1>1, <1>3, <1>4 DEF IInv, PosseDeJob, PosseUnica, PosseVigente, Ativa

-----------------------------------------------------------------------------
LEMMA PassoIInv ==
  ASSUME LimpezaAssumption, IInv, [Next]_vars
  PROVE  IInv'
<1>1. ASSUME NEW k \in Chaves, Depositar(k) PROVE IInv'
  BY <1>1, DepositarIInv
<1>2. ASSUME NEW K \in (SUBSET Chaves) \ {{}}, Agendar(K) PROVE IInv'
  BY <1>2, AgendarIInv
<1>3. ASSUME NEW w \in Trabalhadores, ExecutarCron(w) \/ ExecutarPedido(w) PROVE IInv'
  BY <1>3, ReivindicarIInv DEF ExecutarCron, ExecutarPedido, Agendados
<1>4. ASSUME NEW w \in Trabalhadores, Trabalhar(w) PROVE IInv'
  BY <1>4, IniciarFatiaIInv, ApagarIInv, SoltarIInv DEF Trabalhar
<1>5. ASSUME NEW w \in Trabalhadores, Falhar(w) PROVE IInv'
  BY <1>5, ApagarIInv, ConcluirErroIInv, RegistrarFalhaErroIInv, CairIInv DEF Falhar
<1>6. ASSUME NEW k \in Chaves, Vencer(k) PROVE IInv'
  BY <1>6, VencerIInv
<1>7. CASE UNCHANGED vars
  BY <1>7 DEF vars, IInv, TypeOK, PosseDeJob, PosseUnica, PosseVigente, Ativa
<1>8. QED
  BY <1>1, <1>2, <1>3, <1>4, <1>5, <1>6, <1>7 DEF Next, Limpeza

THEOREM InvarianteDaLimpeza ==
  ASSUME LimpezaAssumption
  PROVE  Spec => []IInv
<1>1. Init => IInv
  BY InicioIInv
<1>2. IInv /\ [Next]_vars => IInv'
  BY PassoIInv
<1>3. QED
  BY <1>1, <1>2, PTL DEF Spec

(* processJobs: two workers never hold one attempt of a job, and a worker  *)
(* that lost its lease records no outcome. *)
THEOREM PosseDaLimpeza ==
  ASSUME LimpezaAssumption
  PROVE  Spec => [](TypeOK /\ PosseUnica /\ PosseVigente)
<1>1. IInv => TypeOK /\ PosseUnica /\ PosseVigente
  BY DEF IInv
<1>2. QED
  BY <1>1, InvarianteDaLimpeza, PTL

-----------------------------------------------------------------------------
(* The refinement: what each step of processJobs is for the queue.         *)

Fila == [k \in Chaves |-> FilaDe(jobs[k])]

Parada == objetos' = objetos /\ Fila' = Fila

LEMMA FilaParada ==
  ASSUME \A k \in Chaves : FilaDe(jobs[k])' = FilaDe(jobs[k])
  PROVE  Fila' = Fila
BY DEF Fila

LEMMA FilaTipada ==
  ASSUME NEW k \in Chaves
  PROVE  /\ Fila[k] = FilaDe(jobs[k])
         /\ Fila[k] = "fora" <=> jobs[k].status = "SEM_JOB"
         /\ Fila[k] = "concluido" <=> jobs[k].status = "CONCLUIDO"
         /\ Fila[k] \in {"fora", "agendado", "concluido"}
BY DEF Fila, FilaDe

LEMMA DepositarNaFila ==
  ASSUME NEW k \in Chaves, Depositar(k)
  PROVE  F!Depositar(k)
<1>1. Fila[k] = "fora"
  BY FilaTipada DEF Depositar, SemJob
<1>2. Fila' = Fila
  BY DEF Depositar, Fila
<1>3. QED
  BY <1>1, <1>2 DEF Depositar, F!Depositar, Fila

LEMMA AgendarNaFila ==
  ASSUME NEW K \in SUBSET Chaves, Agendar(K)
  PROVE  F!Agendar(K)
<1>1. ASSUME NEW k \in Chaves
      PROVE  Fila'[k] = IF k \in K /\ Fila[k] = "fora" THEN "agendado" ELSE Fila[k]
  <2>1. Fila'[k] = FilaDe(jobs'[k])
    BY DEF Fila, FilaDe
  <2>2. CASE k \in K \ Agendados
    <3>1. jobs'[k] = [SemJob EXCEPT !.status = "PENDENTE",
                                   !.criado = 1 + Cardinality(Agendados)]
      BY <2>2 DEF Agendar
    <3>2. jobs'[k].status = "PENDENTE"
      BY <3>1 DEF SemJob
    <3>3. QED
      BY <2>1, <2>2, <3>2, FilaTipada DEF FilaDe, Agendados
  <2>3. CASE k \notin K \ Agendados
    <3>1. jobs'[k] = jobs[k]
      BY <2>3 DEF Agendar
    <3>2. k \in K => Fila[k] # "fora"
      BY <2>3, FilaTipada DEF Agendados
    <3>3. QED
      BY <2>1, <3>1, <3>2, FilaTipada
  <2>4. QED
    BY <2>2, <2>3
<1>2. Fila' = [k \in Chaves |-> Fila'[k]]
  BY DEF Fila
<1>3. Fila' = [k \in Chaves |->
                 IF k \in K /\ Fila[k] = "fora" THEN "agendado" ELSE Fila[k]]
  BY <1>1, <1>2
<1>4. QED
  BY <1>3 DEF F!Agendar, Agendar, Fila

(* A claim changes no place in the queue. *)
LEMMA ReivindicarNaFila ==
  ASSUME IInv, NEW w \in Trabalhadores, NEW K \in SUBSET Chaves, Reivindicar(w, K)
  PROVE  Parada
<1>1. PICK S \in Candidatos(K) :
        jobs' = [k \in Chaves |-> IF k \in S THEN Marcar(jobs[k]) ELSE jobs[k]]
  BY DEF Reivindicar
<1>2. \A k \in S : Elegivel(k)
  BY DEF Candidatos
<1>3. ASSUME NEW k \in Chaves PROVE FilaDe(jobs[k])' = FilaDe(jobs[k])
  <2>1. CASE k \in S
    <3>1. jobs[k] \in Job /\ jobs'[k] = Marcar(jobs[k])
      BY <1>1, <2>1 DEF IInv, TypeOK, Job
    <3>2. jobs'[k].status = "PROCESSANDO"
      BY <3>1 DEF Marcar, Job
    <3>3. jobs[k].status \in {"PENDENTE", "FALHOU", "PROCESSANDO"}
      BY <1>2, <2>1 DEF Elegivel
    <3>4. QED
      BY <3>2, <3>3 DEF FilaDe
  <2>2. CASE k \notin S
    BY <1>1, <2>2 DEF FilaDe
  <2>3. QED
    BY <2>1, <2>2
<1>4. QED
  BY <1>3, FilaParada DEF Parada, Reivindicar

LEMMA ApagarNaFila ==
  ASSUME IInv, NEW w \in Trabalhadores, NEW k \in Chaves, Apagar(w, k) \/ ApagarErro(w, k)
  PROVE  Parada \/ F!Remover(k)
<1>1. jobs' = jobs /\ posse[w][k].fase = "apagar" /\ objetos' \in {objetos, objetos \ {k}}
  BY DEF Apagar, ApagarErro
<1>2. Fila' = Fila
  BY <1>1 DEF Fila
<1>3. Fila[k] # "fora"
  BY <1>1, FilaTipada DEF IInv, PosseDeJob, Ativa
<1>4. QED
  BY <1>1, <1>2, <1>3 DEF Parada, F!Remover, Fila

(* An outcome concludes a key whose object is gone, or leaves its place. *)
LEMMA RegistrarNaFila ==
  ASSUME IInv, NEW w \in Trabalhadores, NEW k \in Chaves, objetos' = objetos,
         NEW s \in {"CONCLUIDO", "FALHOU"}, jobs' = jobs \/ Registrar(w, k, s),
         s = "CONCLUIDO" => posse[w][k].fase = "concluir"
  PROVE  Parada \/ F!Concluir(k)
<1>1. CASE jobs' = jobs
  BY <1>1 DEF Parada, Fila
<1>2. CASE Registrar(w, k, s)
  <2>1. \A o \in Chaves :
          jobs'[o].status = IF o = k /\ Dono(w, k) THEN s ELSE jobs[o].status
    BY <1>2, EfeitoRegistrar DEF IInv
  <2>2. CASE Dono(w, k) /\ s = "CONCLUIDO"
    <3>1. \A o \in Chaves : Fila'[o] = IF o = k THEN "concluido" ELSE Fila[o]
      BY <2>1, <2>2 DEF Fila, FilaDe
    <3>2. Fila' = [o \in Chaves |-> Fila'[o]] /\ Fila = [o \in Chaves |-> Fila[o]]
      BY DEF Fila
    <3>3. Fila' = [Fila EXCEPT ![k] = "concluido"]
      BY <3>1, <3>2
    <3>4. Fila[k] = "agendado" /\ k \notin objetos
      BY <2>2 DEF Fila, FilaDe, Dono, IInv, PosseDeJob
    <3>5. QED
      BY <3>3, <3>4 DEF F!Concluir, Fila
  <2>3. CASE ~(Dono(w, k) /\ s = "CONCLUIDO")
    <3>1. \A o \in Chaves : FilaDe(jobs[o])' = FilaDe(jobs[o])
      BY <2>1, <2>3 DEF FilaDe, Dono
    <3>2. QED
      BY <3>1, FilaParada DEF Parada
  <2>4. QED
    BY <2>2, <2>3
<1>3. QED
  BY <1>1, <1>2

LEMMA PassoNaFila ==
  ASSUME IInv, [Next]_vars
  PROVE  [F!FNext]_(F!filaVars)
<1>0. ASSUME Parada PROVE [F!FNext]_(F!filaVars)
  BY <1>0 DEF Parada, Fila, F!filaVars
<1>1. ASSUME NEW k \in Chaves, Depositar(k) PROVE F!FNext
  BY <1>1, DepositarNaFila DEF F!FNext
<1>2. ASSUME NEW K \in SUBSET Chaves, Agendar(K) PROVE F!FNext
  BY <1>2, AgendarNaFila DEF F!FNext
<1>3. ASSUME NEW w \in Trabalhadores, ExecutarCron(w) \/ ExecutarPedido(w) PROVE Parada
  BY <1>3, ReivindicarNaFila DEF ExecutarCron, ExecutarPedido, Agendados
<1>4. ASSUME NEW w \in Trabalhadores, IniciarFatia(w) \/ Cair(w) PROVE Parada
  BY <1>4 DEF IniciarFatia, Cair, Parada, Fila
<1>5. ASSUME NEW w \in Trabalhadores, NEW k \in Chaves, Apagar(w, k) \/ ApagarErro(w, k)
      PROVE  Parada \/ F!FNext
  BY <1>5, ApagarNaFila DEF F!FNext, F!Limpar
<1>6. ASSUME NEW w \in Trabalhadores, NEW k \in Chaves,
             Concluir(w, k) \/ ConcluirErro(w, k)
      PROVE  Parada \/ F!FNext
  <2>1. /\ objetos' = objetos /\ posse[w][k].fase = "concluir"
        /\ jobs' = jobs \/ Registrar(w, k, "CONCLUIDO")
    BY <1>6 DEF Concluir, ConcluirErro
  <2>2. QED
    BY <2>1, RegistrarNaFila DEF F!FNext, F!Limpar
<1>7. ASSUME NEW w \in Trabalhadores, NEW k \in Chaves,
             RegistrarFalha(w, k) \/ RegistrarFalhaErro(w, k)
      PROVE  Parada \/ F!FNext
  <2>1. objetos' = objetos /\ (jobs' = jobs \/ Registrar(w, k, "FALHOU"))
    BY <1>7 DEF RegistrarFalha, RegistrarFalhaErro
  <2>2. QED
    BY <2>1, RegistrarNaFila DEF F!FNext, F!Limpar
<1>8. ASSUME NEW k \in Chaves, Vencer(k) PROVE Parada
  <2>1. jobs \in [Chaves -> Job] /\ jobs' = [jobs EXCEPT ![k].vencido = TRUE]
    BY <1>8 DEF Vencer, IInv, TypeOK, Job
  <2>2. \A o \in Chaves : jobs'[o].status = jobs[o].status
    BY <2>1 DEF Job
  <2>3. \A o \in Chaves : FilaDe(jobs[o])' = FilaDe(jobs[o])
    BY <2>2 DEF FilaDe
  <2>4. QED
    BY <1>8, <2>3, FilaParada DEF Vencer, Parada
<1>9. CASE UNCHANGED vars
  BY <1>9, <1>0 DEF vars, Parada, Fila
<1>10. QED
  BY <1>0, <1>1, <1>2, <1>3, <1>4, <1>5, <1>6, <1>7, <1>8, <1>9
     DEF Next, Limpeza, Trabalhar, Falhar

(* StorageCleanupService: whatever its workers do to each other, the jobs  *)
(* are the queue that FiscalEntregas and GuiaDocumentos rely on. *)
THEOREM LimpezaImplementaFila ==
  ASSUME LimpezaAssumption
  PROVE  Spec => ImplementaFila
<1>1. Init => F!FInit
  BY DEF Init, F!FInit, FilaDe, SemJob
<1>2. IInv /\ [Next]_vars => [F!FNext]_(F!filaVars)
  BY PassoNaFila
<1>3. QED
  BY <1>1, <1>2, InvarianteDaLimpeza, PTL DEF Spec, ImplementaFila, F!FSpec
=============================================================================
