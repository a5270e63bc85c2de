---------------------------- MODULE MCFechamentos -----------------------------
(***************************************************************************)
(* The closing of a scope, the apuração of the Simples that is closed      *)
(* through it, the files of the guias, the payments of the fiscal guias    *)
(* and the payrolls, each alone: "parte" is the one a behaviour is about;  *)
(* the state of the others stays initial. The requests of all are the      *)
(* Procs, the keys of the payrolls the Recibos. *)
(***************************************************************************)
EXTENDS FiscalClosing, TLC

CONSTANTS
  MaxVersaoSimples, MaxFech,
  Guias, Recibos, MaxChavesUsadas,
  ValorTotal, Valores, ValorUpload, MaxEventos

VARIABLES
  parte,
  historico, apuracoes, guias, lockSimples, pcSimples, req, areaSimples, tocadasSimples,
  objetos, fila, cliente, guiasCliente, vinculo, eventos, usadas, pcGuia, reqGuia,
  perdidas, orfas,
  guiasFiscais, trilha, upload, respondidas, pcTrilha, reqTrilha,
  objetosFolha, filaFolha, clienteFolha, folhas, admissao, usadasFolha, pcFolha,
  reqFolha, perdidasFolha, orfasFolha

S == INSTANCE SimplesFechamento
       WITH Pedidos <- Procs, MaxVersao <- MaxVersaoSimples, lock <- lockSimples,
            pc <- pcSimples, area <- areaSimples, tocadas <- tocadasSimples

G == INSTANCE GuiaDocumentos
       WITH Processos <- Procs, guias <- guiasCliente, pc <- pcGuia, req <- reqGuia

T == INSTANCE PagamentosGuia
       WITH Pedidos <- Procs, guias <- guiasFiscais, pc <- pcTrilha, req <- reqTrilha

R == INSTANCE FolhasRh
       WITH Processos <- Procs, Chaves <- Recibos, objetos <- objetosFolha,
            fila <- filaFolha, cliente <- clienteFolha, usadas <- usadasFolha,
            pc <- pcFolha, req <- reqFolha, perdidas <- perdidasFolha,
            orfas <- orfasFolha

ASSUME FechamentosAssumption ==
  /\ S!SimplesAssumption /\ G!GuiasAssumption
  /\ T!PagamentosAssumption /\ R!FolhasAssumption

doSimples == <<historico, apuracoes, guias, lockSimples, pcSimples, req,
               areaSimples, tocadasSimples>>

dasGuias == <<objetos, fila, cliente, guiasCliente, vinculo, eventos, usadas,
              pcGuia, reqGuia, perdidas, orfas>>

daTrilha == <<guiasFiscais, trilha, upload, respondidas, pcTrilha, reqTrilha>>

dasFolhas == <<objetosFolha, filaFolha, clienteFolha, folhas, admissao, usadasFolha,
               pcFolha, reqFolha, perdidasFolha, orfasFolha>>

todas == <<parte, vars, doSimples, dasGuias, daTrilha, dasFolhas>>

NoEscopo(A) ==
  /\ parte = "escopo" /\ A
  /\ UNCHANGED <<parte, doSimples, dasGuias, daTrilha, dasFolhas>>

NoSimples(A) ==
  /\ parte = "simples" /\ A
  /\ UNCHANGED <<parte, vars, dasGuias, daTrilha, dasFolhas>>

(* Bound: keys a behaviour uses, guias and receipts together. *)
NasGuias(A) ==
  /\ parte = "guias" /\ A /\ Cardinality(usadas') <= MaxChavesUsadas
  /\ UNCHANGED <<parte, vars, doSimples, daTrilha, dasFolhas>>

NaTrilha(A) ==
  /\ parte = "trilha" /\ A
  /\ UNCHANGED <<parte, vars, doSimples, dasGuias, dasFolhas>>

NasFolhas(A) ==
  /\ parte = "folhas" /\ A
  /\ UNCHANGED <<parte, vars, doSimples, dasGuias, daTrilha>>

FechamentosInit ==
  /\ parte \in {"escopo", "simples", "guias", "trilha", "folhas"}
  /\ Init /\ S!Init /\ G!Init /\ T!Init /\ R!Init

(* The client is gone or the keys are used up, and every request answered. *)
FimDasGuias ==
  /\ parte = "guias" /\ (~cliente \/ Cardinality(usadas) = MaxChavesUsadas)
  /\ \A p \in Procs : pcGuia[p] = "ocioso"
  /\ UNCHANGED todas

FimDasFolhas ==
  /\ parte = "folhas" /\ (~clienteFolha \/ usadasFolha = Recibos)
  /\ \A p \in Procs : pcFolha[p] = "ocioso"
  /\ UNCHANGED todas

PassoTrilha ==
  \/ \E p \in Procs :
       \/ NaTrilha(T!Pedir(p)) \/ NaTrilha(T!Prosseguir(p)) \/ NaTrilha(T!Falhar(p))
  \/ NaTrilha(T!VincularUpload)

PassoFolhas ==
  \/ \E p \in Procs :
       \/ NasFolhas(R!Receber(p)) \/ NasFolhas(R!Verificacoes(p))
       \/ NasFolhas(R!Enviar(p)) \/ NasFolhas(R!EnviarErro(p))
       \/ NasFolhas(R!Processar(p)) \/ NasFolhas(R!Descartar(p))
       \/ NasFolhas(R!ExcluirFolha(p)) \/ NasFolhas(R!ExcluirCliente(p))
       \/ NasFolhas(R!Cair(p))
  \/ NasFolhas(R!LimparFila)

FechamentosNext ==
  \/ \E p \in Procs :
       \/ NoEscopo(Comecar(p)) \/ NoEscopo(Prosseguir(p)) \/ NoEscopo(Cair(p))
       \/ NoSimples(S!PedirLock(p)) \/ NoSimples(S!LerApuracao(p))
       \/ NoSimples(S!Prosseguir(p)) \/ NoSimples(S!Cair(p))
       \/ NasGuias(G!Receber(p)) \/ NasGuias(G!Armazenar(p))
       \/ NasGuias(G!Gravar(p)) \/ NasGuias(G!Cair(p))
  \/ NasGuias(G!LimparFila)
  \/ FimDasGuias
  \/ PassoTrilha
  \/ PassoFolhas
  \/ FimDasFolhas

FechamentosSpec == FechamentosInit /\ [][FechamentosNext]_todas

Simetria ==
  Permutations(Procs) \cup Permutations(Entradas) \cup Permutations(Guias)
    \cup Permutations(Recibos)

-----------------------------------------------------------------------------
(* The properties of the other modules; those of FiscalClosing keep their  *)
(* names. *)

(* Every variable of the others stays in its set. *)
FechamentosTypeOK ==
  CASE parte = "simples" -> S!TypeOK
    [] parte = "guias" -> G!TypeOK
    [] parte = "trilha" -> T!TypeOK
    [] parte = "folhas" -> R!TypeOK
    [] OTHER -> TRUE

(* SimplesFechamento: one apuração of the month is closed, sealed with its *)
(* closing and its guia, and there is at most one draft. *)
ApuracaoFechada == parte = "simples" => S!UmaFechada /\ S!FechadaSelada /\ S!UmRascunho

(* GuiaDocumentos, FolhasRh: the rows, the bucket and the queue of         *)
(* removals agree. *)
ArquivosCoerentes ==
  /\ parte = "guias" => G!ArquivosCoerentes
  /\ parte = "folhas" => R!ArquivosCoerentes

(* GuiaDocumentos: a payment adds one event to the fiscal trail.           *)
(* PagamentosGuia: a guia that is PAGO has the payments for it. *)
PagamentosRespaldados ==
  /\ parte = "guias" => G!UmEventoPorPagamento
  /\ parte = "trilha" => T!PagoRespaldado

(* PagamentosGuia: one guia of an idempotency key. FolhasRh: one monthly   *)
(* payroll, and the others repeated by races only; the employee register   *)
(* does not depend on their order. *)
RepeticaoNaoDuplica ==
  /\ parte = "trilha" => T!UmaGuiaPorChave
  /\ parte = "folhas" => R!FolhaUnica /\ R!CadastroAcumula

(* GuiaDocumentos: a receipt stays until its guia is deleted.              *)
ComprovanteEstavel == G!ComprovanteEstavel

(* GuiaDocumentos: deleting a guia schedules the removal of its files.     *)
ExclusaoDeGuiaAgenda == G!ExclusaoDeGuiaAgenda

(* PagamentosGuia: no payment of a cancelled guia is reconciled.           *)
ConciliacaoRespeitaCancelamento == T!ConciliacaoRespeitaCancelamento
=============================================================================
