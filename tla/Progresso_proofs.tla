--------------------------- MODULE Progresso_proofs ---------------------------
(***************************************************************************)
(* The three parts of MCProgresso share no variable, and a behaviour is    *)
(* about one of them: the others stutter. So a behaviour of MCProgresso is *)
(* one of each module, and what is proved about the modules holds in it.   *)
(***************************************************************************)
EXTENDS MCProgresso, DistribuicaoDfe_proofs

LP == INSTANCE StorageCleanup_proofs
        WITH MaxFalhas <- MaxFalhasLimpeza, falhas <- falhasLimpeza

FP == INSTANCE FiscalClosing_proofs WITH pc <- pcFechamento

-----------------------------------------------------------------------------
(* The actions of the queue, as its own module and its proofs name them. *)
LEMMA AcoesDaLimpeza ==
  /\ L!Limpeza <=> LP!Limpeza
  /\ \A k \in Chaves : L!Depositar(k) <=> LP!Depositar(k)
  /\ \A K \in SUBSET Chaves : L!Agendar(K) <=> LP!Agendar(K)
  /\ L!Init <=> LP!Init
BY DEF
     L!Cardinality, LP!Cardinality, L!IsFiniteSet, LP!IsFiniteSet, L!Status,
     LP!Status, L!SemJob, LP!SemJob, L!SemPosse, LP!SemPosse, L!Livre, LP!Livre,
     L!EmCurso, LP!EmCurso, L!EmEspera, LP!EmEspera, L!Agendados, LP!Agendados,
     L!Passo, LP!Passo, L!Soltar, LP!Soltar, L!Falha, LP!Falha, L!Depositar,
     LP!Depositar, L!Agendar, LP!Agendar, L!Elegivel, LP!Elegivel, L!Candidatos,
     LP!Candidatos, L!Marcar, LP!Marcar, L!Reivindicar, LP!Reivindicar,
     L!IniciarFatia, LP!IniciarFatia, L!Apagar, LP!Apagar, L!ApagarErro,
     LP!ApagarErro, L!Dono, LP!Dono, L!Registrar, LP!Registrar, L!Concluir,
     LP!Concluir, L!ConcluirErro, LP!ConcluirErro, L!RegistrarFalha,
     LP!RegistrarFalha, L!RegistrarFalhaErro, LP!RegistrarFalhaErro, L!Cair, LP!Cair,
     L!Abandonado, LP!Abandonado, L!Vencer, LP!Vencer, L!ExecutarCron,
     LP!ExecutarCron, L!ExecutarPedido, LP!ExecutarPedido, L!Trabalhar, LP!Trabalhar,
     L!Falhar, LP!Falhar, L!Limpeza, LP!Limpeza, L!Init, LP!Init

LEMMA AcoesDoFechamento ==
  /\ \A p \in Procs : FC!Comecar(p) \/ FC!Prosseguir(p) \/ FC!Cair(p)
                        <=> FP!Comecar(p) \/ FP!Prosseguir(p) \/ FP!Cair(p)
  /\ FC!Init <=> FP!Init
BY DEF
     FC!Versoes, FP!Versoes, FC!Abertos, FP!Abertos, FC!Ausente, FP!Ausente,
     FC!TabelaVazia, FP!TabelaVazia, FC!Pedido, FP!Pedido, FC!Ociosa, FP!Ociosa,
     FC!Existentes, FP!Existentes, FC!Correntes, FP!Correntes, FC!CorrenteFechada,
     FP!CorrenteFechada, FC!RevisaoAberta, FP!RevisaoAberta, FC!ProximaVersao,
     FP!ProximaVersao, FC!TransicaoPermitida, FP!TransicaoPermitida, FC!Visao,
     FP!Visao, FC!Conflito, FP!Conflito, FC!Travada, FP!Travada, FC!VersaoColide,
     FP!VersaoColide, FC!CorrenteColide, FP!CorrenteColide, FC!Gravar, FP!Gravar,
     FC!Terminar, FP!Terminar, FC!Liberar, FP!Liberar, FC!Iniciar, FP!Iniciar,
     FC!IniciarAbrir, FP!IniciarAbrir, FC!IniciarTransicionar, FP!IniciarTransicionar,
     FC!IniciarFechar, FP!IniciarFechar, FC!IniciarRetificar, FP!IniciarRetificar,
     FC!IniciarEscrita, FP!IniciarEscrita, FC!DepoisDoLock, FP!DepoisDoLock,
     FC!ObterLock, FP!ObterLock, FC!InserirNovaVersao, FP!InserirNovaVersao,
     FC!Avancar, FP!Avancar, FC!Inserir, FP!Inserir, FC!SinalizarSemEntrega,
     FP!SinalizarSemEntrega, FC!SinalizarReutiliza, FP!SinalizarReutiliza,
     FC!SinalizarAbre, FP!SinalizarAbre, FC!Atualizar, FP!Atualizar, FC!Desmarcar,
     FP!Desmarcar, FC!Promover, FP!Promover, FC!Confirmar, FP!Confirmar, FC!Erro,
     FP!Erro, FC!Falhar, FP!Falhar, FC!Cair, FP!Cair, FC!Comecar, FP!Comecar,
     FC!Prosseguir, FP!Prosseguir, FC!Init, FP!Init

(* Each step is one of the queue or leaves the queue alone. *)
LEMMA PassoDaLimpeza == [ProgressoNext]_todas => [LP!Next]_(LP!vars)
<1>1. ASSUME ProgressoNext PROVE LP!Next \/ UNCHANGED daLimpeza
  BY <1>1, AcoesDaLimpeza
     DEF ProgressoNext, NaLimpeza, NoDfe, NoFechamento, LP!Next
<1>2. UNCHANGED todas => UNCHANGED daLimpeza
  BY DEF todas
<1> QED
  BY <1>1, <1>2 DEF daLimpeza, LP!vars

LEMMA PassoDoDfe == [ProgressoNext]_todas => [Next]_vars
<1>1. ASSUME ProgressoNext PROVE Next \/ UNCHANGED vars
  BY <1>1 DEF ProgressoNext, NaLimpeza, NoDfe, NoFechamento, Next
<1>2. UNCHANGED todas => UNCHANGED vars
  BY DEF todas
<1> QED
  BY <1>1, <1>2

LEMMA PassoDoFechamento == [ProgressoNext]_todas => [FP!Next]_(FP!vars)
<1>1. ASSUME ProgressoNext PROVE FP!Next \/ UNCHANGED doFechamento
  BY <1>1, AcoesDoFechamento
     DEF ProgressoNext, NaLimpeza, NoDfe, NoFechamento, FP!Next
<1>2. UNCHANGED todas => UNCHANGED doFechamento
  BY DEF todas
<1> QED
  BY <1>1, <1>2 DEF doFechamento, FP!vars

(* A behaviour of the three parts is a behaviour of each module. *)
LEMMA TresPartes == ProgressoSpec => LP!Spec /\ Spec /\ FP!Spec
<1>1. ProgressoInit => LP!Init /\ Init /\ FP!Init
  BY AcoesDaLimpeza, AcoesDoFechamento DEF ProgressoInit
<1> QED
  BY <1>1, PassoDaLimpeza, PassoDoDfe, PassoDoFechamento, PTL
     DEF ProgressoSpec, LP!Spec, Spec, FP!Spec

-----------------------------------------------------------------------------
LEMMA Limites == LP!LimpezaAssumption
BY ProgressoAssumption
   DEF L!LimpezaAssumption, LP!LimpezaAssumption, L!IsFiniteSet, LP!IsFiniteSet

(* processJobs: one worker per attempt of a job, and a worker without its  *)
(* lease records nothing, in whatever company it runs. *)
THEOREM PosseNoProgresso == ProgressoSpec => []PosseRespeitada
<1>1. LP!Spec => [](LP!TypeOK /\ LP!PosseUnica /\ LP!PosseVigente)
  BY Limites, LP!PosseDaLimpeza
<1>2. LP!PosseUnica /\ LP!PosseVigente => PosseRespeitada
  BY DEF PosseRespeitada, L!PosseUnica, L!PosseVigente, LP!PosseUnica, LP!PosseVigente
<1> QED
  BY <1>1, <1>2, TresPartes, PTL

(* Every variable of the part that runs stays in its set. *)
THEOREM TiposDoProgresso == ProgressoSpec => []ProgressoTypeOK
<1>1. LP!Spec => [](LP!TypeOK /\ LP!PosseUnica /\ LP!PosseVigente)
  BY Limites, LP!PosseDaLimpeza
<1>2. FP!Spec => []FP!TypeOK
  BY ProgressoAssumption, FP!TipoCorreto
<1> DEFINE ParteOK == parte \in {"limpeza", "dfe", "fechamento"}
<1>3. ProgressoSpec => []ParteOK
  <2>1. ProgressoInit => ParteOK
    BY DEF ProgressoInit
  <2>2. ParteOK /\ [ProgressoNext]_todas => ParteOK'
    BY DEF ProgressoNext, NaLimpeza, NoDfe, NoFechamento, todas
  <2> HIDE DEF ParteOK
  <2> QED
    BY <2>1, <2>2, PTL DEF ProgressoSpec
<1>4. LP!TypeOK <=> L!TypeOK
  BY DEF L!TypeOK, LP!TypeOK, L!Status, LP!Status, L!Fases, LP!Fases
<1>5. FP!TypeOK <=> FC!TypeOK
  BY DEF FC!TypeOK, FP!TypeOK, FC!Linha, FP!Linha, FC!Versoes, FP!Versoes,
         FC!Abertos, FP!Abertos, FC!Operacao, FP!Operacao, FC!Tipos, FP!Tipos,
         FC!Pontos, FP!Pontos
<1>6. ParteOK /\ LP!TypeOK /\ TypeOK /\ FP!TypeOK => ProgressoTypeOK
  <2> SUFFICES ASSUME ParteOK, L!TypeOK, TypeOK, FC!TypeOK PROVE ProgressoTypeOK
    BY <1>4, <1>5
  <2>1. CASE parte = "limpeza"
    BY <2>1 DEF ProgressoTypeOK
  <2>2. CASE parte = "dfe"
    BY <2>2 DEF ProgressoTypeOK
  <2>3. CASE parte = "fechamento"
    BY <2>3 DEF ProgressoTypeOK
  <2> QED
    BY <2>1, <2>2, <2>3
<1> QED
  BY <1>1, <1>2, <1>3, <1>6, TresPartes, TipoCorretoDfe, PTL

(* The jobs of processJobs implement the queue the services rely on. *)
THEOREM FilaNoProgresso == ProgressoSpec => ImplementaFila
<1>1. LP!Spec => LP!ImplementaFila
  BY Limites, LP!LimpezaImplementaFila
<1>2. LP!F!FInit <=> L!F!FInit
  BY DEF L!F!FInit, LP!F!FInit, L!FilaDe, LP!FilaDe
<1>3. [LP!F!FNext]_(LP!F!filaVars) <=> [L!F!FNext]_(L!F!filaVars)
  BY DEF
     L!F!FNext, LP!F!FNext, L!F!Depositar, LP!F!Depositar, L!F!Descartar,
     LP!F!Descartar, L!F!Limpar, LP!F!Limpar, L!F!Remover, LP!F!Remover, L!F!Concluir,
     LP!F!Concluir, L!F!Agendar, LP!F!Agendar, L!F!filaVars, LP!F!filaVars,
     L!FilaDe, LP!FilaDe
<1> QED
  BY <1>1, <1>2, <1>3, TresPartes, PTL
     DEF ImplementaFila, L!ImplementaFila, LP!ImplementaFila, L!F!FSpec, LP!F!FSpec

(* The committed versions of a scope are the abstract history, each commit *)
(* one of its steps. *)
THEOREM HistoricoNoProgresso == ProgressoSpec => ImplementaHistorico
<1>1. FP!Spec => FP!ImplementaHistorico
  BY ProgressoAssumption, FP!FechamentoImplementaHistorico
<1>2. FP!H!HInit <=> FC!H!HInit
  BY DEF
     FC!HistoricoConfirmado, FP!HistoricoConfirmado, FC!Existentes, FP!Existentes,
     FC!Versoes, FP!Versoes, FC!Cardinality, FP!Cardinality, FC!IsFiniteSet,
     FP!IsFiniteSet, FC!H!HInit, FP!H!HInit
<1>3. [FP!H!HNext]_(FP!HistoricoConfirmado) <=> [FC!H!HNext]_(FC!HistoricoConfirmado)
  BY DEF
     FC!HistoricoConfirmado, FP!HistoricoConfirmado, FC!Existentes, FP!Existentes,
     FC!Versoes, FP!Versoes, FC!Cardinality, FP!Cardinality, FC!IsFiniteSet,
     FP!IsFiniteSet, FC!H!HNext, FP!H!HNext, FC!H!AbreCom, FP!H!AbreCom, FC!H!Abre,
     FP!H!Abre, FC!H!Retifica, FP!H!Retifica, FC!H!Revisa, FP!H!Revisa,
     FC!H!AvancaVersao, FP!H!AvancaVersao, FC!H!Avanca, FP!H!Avanca, FC!H!FechaVersao,
     FP!H!FechaVersao, FC!H!Fecha, FP!H!Fecha, FC!H!Rascunho, FP!H!Rascunho,
     FC!H!Indices, FP!H!Indices, FC!H!Fechadas, FP!H!Fechadas, FC!H!Sucessor,
     FP!H!Sucessor
<1> QED
  BY <1>1, <1>2, <1>3, TresPartes, PTL
     DEF ImplementaHistorico, FC!ImplementaHistorico, FP!ImplementaHistorico,
         FC!H!HSpec, FP!H!HSpec
=============================================================================
