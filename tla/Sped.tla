-------------------------------- MODULE Sped ----------------------------------
(***************************************************************************)
(* The EFD ICMS/IPI part by part: the preparation of a month from its      *)
(* documents, the computation of its taxes, and the generation of files    *)
(* beside the edition of inventories, whose module this one extends.       *)
(* "parte" is the part a behaviour is about; the state of the others       *)
(* stays initial.                                                          *)
(***************************************************************************)
EXTENDS EfdGeracao, Sequences

CONSTANTS
  Entradas,         \* what a preparation may read
  Casos             \* the months whose taxes are computed

VARIABLES
  parte,
  entrada, fase, fila, atual, participantes, unidades, itensCatalogo, nfe, cte,
  excluded, pending, inconsistencias,
  caso, apuracao

D == INSTANCE EfdDocumentos

A == INSTANCE EfdApuracao

SpedAssumption == D!EfdAssumption /\ GeracaoAssumption /\ A!ApuracaoAssumption

doPreparo == <<entrada, fase, fila, atual, participantes, unidades, itensCatalogo, nfe, cte,
               excluded, pending, inconsistencias>>

daApuracao == <<caso, apuracao>>

SpedInit ==
  /\ parte \in {"preparo", "geracao", "apuracao"}
  /\ IF parte = "preparo" THEN D!EfdInit
     ELSE /\ entrada = <<>> /\ fase = "INICIO"
          /\ fila = <<>> /\ atual = <<>>
          /\ participantes = <<>> /\ unidades = <<>> /\ itensCatalogo = <<>>
          /\ nfe = {} /\ cte = {} /\ excluded = 0 /\ pending = 0 /\ inconsistencias = {}
  /\ GeracaoInit
  /\ IF parte = "apuracao" THEN A!ApuracaoInit ELSE caso = <<>> /\ apuracao = <<>>

NoPreparo(Acao) == parte = "preparo" /\ Acao /\ UNCHANGED <<parte, geracaoVars, daApuracao>>

NaGeracao(Acao) == parte = "geracao" /\ Acao /\ UNCHANGED <<parte, doPreparo, daApuracao>>

NaApuracao(Acao) ==
    parte = "apuracao" /\ Acao /\ UNCHANGED <<parte, doPreparo, geracaoVars>>

PassoPreparo ==
  \/ NoPreparo(D!Recusar) \/ NoPreparo(D!Abrir) \/ NoPreparo(D!Denegado)
  \/ NoPreparo(D!DocumentoImpedido) \/ NoPreparo(D!CteNaoEscriturado)
  \/ NoPreparo(D!SemParticipante) \/ NoPreparo(D!EscriturarCte)
  \/ NoPreparo(D!EscriturarNfe) \/ NoPreparo(D!PrepararItem) \/ NoPreparo(D!FecharNfe)
  \/ NoPreparo(D!CarregarInventario) \/ NoPreparo(D!Montar)

PassoGeracao ==
  \/ \E d \in Datas, s \in {"RASCUNHO", "FECHADO"} :
       \E I \in SUBSET Itens : \E ls \in [I -> Unidades] :
          NaGeracao(EditarInventario(d, s, ls))
  \/ \E g \in Geracoes :
       \/ \E c \in Competencias : NaGeracao(Iniciar(g, c))
       \/ NaGeracao(Preparar(g)) \/ NaGeracao(Gravar(g)) \/ NaGeracao(Abortar(g))
       \/ NaGeracao(Armazenar(g)) \/ NaGeracao(Registrar(g))
       \/ NaGeracao(Falhar(g)) \/ NaGeracao(Interromper(g))

SpedNext == PassoPreparo \/ PassoGeracao \/ NaApuracao(A!Apurar)

SpedSpec == SpedInit /\ [][SpedNext]_<<parte, doPreparo, geracaoVars, daApuracao>>

-----------------------------------------------------------------------------
(* The properties of the modules, each stated and explained in its own.    *)

(* EfdDocumentos: the codes of the file refer to registers of block 0, and  *)
(* no code stands for two things. *)
ReferenciasFecham ==
  parte = "preparo" => D!EfdTypeOK /\ D!ReferenciasFecham /\ D!UnidadeFiel

(* EfdDocumentos: no document is left out without a finding or the count of *)
(* the excluded, the ones with the client as its own other party included.  *)
NadaSeOmite == parte = "preparo" => D!NadaSeOmite

(* EfdApuracao: the taxes of a file that goes out close. *)
ApuracaoConfere == parte = "apuracao" => A!ApuracaoConfere
=============================================================================
