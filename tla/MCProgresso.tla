----------------------------- MODULE MCProgresso -----------------------------
(***************************************************************************)
(* The parts of the API of which something must eventually happen, each    *)
(* alone: the queue of objects to remove, the distribution of DF-e, and    *)
(* the transactions on a scope of the closing. "parte" is the one a        *)
(* behaviour is about; the state of the others stays initial.              *)
(***************************************************************************)
EXTENDS DistribuicaoDfe

CONSTANTS
  Chaves, Trabalhadores, Lote, Concorrencia, MaxFalhasLimpeza,
  Procs, MaxVersao, Entradas, Isolamentos

VARIABLES
  parte, objetos, jobs, posse, falhasLimpeza,
  linhas, lock, pcFechamento, op, snap, area, tocadas

L == INSTANCE StorageCleanup
       WITH MaxFalhas <- MaxFalhasLimpeza, falhas <- falhasLimpeza

FC == INSTANCE FiscalClosing WITH pc <- pcFechamento

(* The assumptions of StorageCleanup and of FiscalClosing. *)
ASSUME ProgressoAssumption ==
  /\ L!LimpezaAssumption
  /\ MaxVersao \in Nat
  /\ Isolamentos \subseteq {"RR", "RC"}
  /\ Nada \notin Procs
  /\ Nada \notin Entradas

daLimpeza == <<objetos, jobs, posse, falhasLimpeza>>

doFechamento == <<linhas, lock, pcFechamento, op, snap, area, tocadas>>

todas == <<parte, vars, daLimpeza, doFechamento>>

NaLimpeza(A) == parte = "limpeza" /\ A /\ UNCHANGED <<parte, vars, doFechamento>>

NoDfe(A) == parte = "dfe" /\ A /\ UNCHANGED <<parte, daLimpeza, doFechamento>>

NoFechamento(A) == parte = "fechamento" /\ A /\ UNCHANGED <<parte, vars, daLimpeza>>

ProgressoInit == parte \in {"limpeza", "dfe", "fechamento"} /\ Init /\ L!Init /\ FC!Init

ProgressoNext ==
  \/ \E k \in Chaves : NaLimpeza(L!Depositar(k))
  \/ \E K \in (SUBSET Chaves) \ {{}} : K \subseteq objetos /\ NaLimpeza(L!Agendar(K))
  \/ NaLimpeza(L!Limpeza)
  \/ \E p \in Sincs : NoDfe(Ler(p)) \/ NoDfe(Trabalhar(p)) \/ NoDfe(Falhar(p))
  \/ NoDfe(Vencer) \/ NoDfe(Passar) \/ NoDfe(Emitir)
  \/ \E p \in Procs :
       NoFechamento(FC!Comecar(p)) \/ NoFechamento(FC!Prosseguir(p)) \/ NoFechamento(FC!Cair(p))

(* The fairness of each module, for the part that runs. *)
ProgressoFairness ==
  /\ WF_todas(\E w \in Trabalhadores : NaLimpeza(L!ExecutarCron(w)))
  /\ \A w \in Trabalhadores : WF_todas(NaLimpeza(L!Trabalhar(w)))
  /\ \A k \in Chaves : WF_todas(NaLimpeza(L!Vencer(k)))
  /\ WF_todas(\E p \in Sincs : NoDfe(Ler(p)))
  /\ \A p \in Sincs : WF_todas(NoDfe(Trabalhar(p)))
  /\ WF_todas(NoDfe(Vencer))
  /\ WF_todas(NoDfe(Passar))
  /\ \A p \in Procs : SF_todas(NoFechamento(FC!Prosseguir(p)))

ProgressoSpec == ProgressoInit /\ [][ProgressoNext]_todas /\ ProgressoFairness

-----------------------------------------------------------------------------
(* The properties of StorageCleanup and FiscalClosing; those of            *)
(* DistribuicaoDfe keep their names.                                       *)

(* Every variable stays in its set. *)
ProgressoTypeOK ==
  CASE parte = "limpeza" -> L!TypeOK
    [] parte = "dfe" -> TypeOK
    [] parte = "fechamento" -> FC!TypeOK

(* See StorageCleanup: one worker per attempt of a job, and a worker       *)
(* without its lease records nothing. *)
PosseRespeitada == parte = "limpeza" => L!PosseUnica /\ L!PosseVigente

(* See StorageCleanup: the queue the services rely on is implemented. *)
ImplementaFila == L!ImplementaFila

(* See StorageCleanup: every job that is scheduled ends CONCLUIDO. *)
AgendadoConclui == L!AgendadoConclui

(* See FiscalClosing: the committed versions are the abstract history. *)
ImplementaHistorico == FC!ImplementaHistorico

(* See FiscalClosing: a transaction that started ends. *)
TransacaoTermina == FC!TransacaoTermina
=============================================================================
