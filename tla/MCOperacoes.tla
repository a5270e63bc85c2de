----------------------------- MODULE MCOperacoes ------------------------------
(***************************************************************************)
(* The operations of the fiscal module over one client, part by part: a    *)
(* document and its XML, the consultations of SEFAZ, the deliveries of     *)
(* files, the CIAP and the CT-es. "parte" is the part a behaviour is       *)
(* about; the state of the others stays initial. The module of the CIAP,   *)
(* about which there are proofs, is extended, so that its properties are   *)
(* checked as they are proved. The requests of every part are its Pedidos, *)
(* so that one symmetry serves them all.                                   *)
(***************************************************************************)
EXTENDS Ciap, TLC

CONSTANTS
  Nada,
  Tipos, ComExclusao,
  Nos, MaxChaves, Limite, Hora, MaxTempo, MaxQuedas,
  Entregas, Lote, Concorrencia, MaxFalhas,
  cte, outro

VARIABLES
  parte,
  tipo, linha, r2, pcDocumento, local, ciencias,
  agora, slots, bloqueio, legado, reservas, registrado, lote, cauda, sinc, quedas,
  objetos, jobs, posse, falhas, entregas, pcEntrega, alvo, lida, perdas,
  xml, linhaCte, tx, cruzadas

D == INSTANCE DocumentoFiscal WITH pc <- pcDocumento

C == INSTANCE ConsultaSefaz
       WITH Lotes <- Pedidos, Processos <- Nos, Nenhum <- Nada

E == INSTANCE FiscalEntregas WITH Processos <- Pedidos, pc <- pcEntrega

Normal == [papel |-> "TOMADOR", tpCte |-> "0", tpServ |-> "0", autorizada |-> TRUE,
           apura |-> TRUE, cstCredita |-> TRUE, cfop |-> "credita", ref |-> Nada]

Sobre(tp) == [Normal EXCEPT !.tpCte = tp, !.ref = cte]

(* A document and its substitution, its annulment, or a substitution the   *)
(* client has no part in. *)
Pares == {(cte :> Normal) @@ (outro :> Sobre("3")),
          (cte :> [Normal EXCEPT !.tpServ = "1"]) @@ (outro :> Sobre("2")),
          (cte :> Normal) @@ (outro :> [Sobre("3") EXCEPT !.papel = "NENHUM"])}

ChavesCte == {cte, outro}

T == INSTANCE CteEscrituracao WITH Chaves <- ChavesCte, Emissoes <- Pares

ASSUME OperacoesAssumption ==
  /\ D!DocumentoAssumption /\ C!ConsultaAssumption /\ CiapAssumption
  /\ T!CteAssumption
  /\ E!EntregasAssumption /\ E!L!LimpezaAssumption

doDocumento == <<tipo, linha, r2, pcDocumento, local, ciencias>>

daConsulta == <<agora, slots, bloqueio, legado, reservas, registrado, lote,
                cauda, sinc, quedas>>

daEntrega == <<objetos, jobs, posse, falhas, entregas, pcEntrega, alvo, lida, perdas>>

doCte == <<xml, linhaCte, tx, cruzadas>>

todas == <<parte, doDocumento, daConsulta, daEntrega, vars, doCte>>

OperacoesInit ==
  /\ parte \in {"documento", "consulta", "entrega", "ciap", "cte"}
  /\ D!Init /\ (parte # "documento" => tipo = "NFE")
  /\ C!Init /\ (parte # "consulta" => legado = 0)
  /\ E!Init
  /\ Init
  /\ T!Init /\ (parte # "cte" => xml = CHOOSE e \in Pares : TRUE)

NoDocumento(Acao) ==
  /\ parte = "documento" /\ Acao
  /\ UNCHANGED <<parte, daConsulta, daEntrega, vars, doCte>>

NaConsulta(Acao) ==
  /\ parte = "consulta" /\ Acao
  /\ UNCHANGED <<parte, doDocumento, daEntrega, vars, doCte>>

NaEntrega(Acao) ==
  /\ parte = "entrega" /\ Acao
  /\ UNCHANGED <<parte, doDocumento, daConsulta, vars, doCte>>

NoCiap(Acao) ==
  /\ parte = "ciap" /\ Acao
  /\ UNCHANGED <<parte, doDocumento, daConsulta, daEntrega, doCte>>

NoCte(Acao) ==
  /\ parte = "cte" /\ Acao
  /\ UNCHANGED <<parte, doDocumento, daConsulta, daEntrega, vars>>

PassoDocumento ==
  \/ \E p \in Pedidos :
       \/ NoDocumento(D!Distribuir(p)) \/ NoDocumento(D!Importar(p))
       \/ NoDocumento(D!Manifestar(p)) \/ NoDocumento(D!Escriturar(p))
       \/ NoDocumento(D!ExcluirLinhas(p)) \/ NoDocumento(D!ApagarObjetos(p))
       \/ NoDocumento(D!Falhar(p))
  \/ NoDocumento(D!PassarHora)

PassoConsulta ==
  \/ \E l \in Pedidos : NaConsulta(C!Iniciar(l)) \/ NaConsulta(C!Passo(l))
  \/ \E n \in Nos : NaConsulta(C!Queda(n))
  \/ NaConsulta(C!Passar)
  \/ NaConsulta(C!SincReservar) \/ NaConsulta(C!SincResponder) \/ NaConsulta(C!SincBloquear)

PassoEntrega ==
  \/ \E p \in Pedidos :
       \/ NaEntrega(E!Registrar(p)) \/ NaEntrega(E!Retentar(p)) \/ NaEntrega(E!LerOriginal(p))
       \/ NaEntrega(E!Enviar(p)) \/ NaEntrega(E!EnviarErro(p)) \/ NaEntrega(E!Contar(p))
       \/ NaEntrega(E!Recuperar(p)) \/ NaEntrega(E!Marcar(p)) \/ NaEntrega(E!Enfileirar(p))
       \/ NaEntrega(E!EnfileirarErro(p)) \/ NaEntrega(E!Limpar(p))
       \/ NaEntrega(E!InserirRetificadora(p)) \/ NaEntrega(E!Cair(p))
  \/ NaEntrega(E!ExecutarLimpeza)

PassoCiap ==
  \/ \E b \in Bens : NoCiap(RegistrarBem(b)) \/ NoCiap(BaixarBem(b))
  \/ \E p \in Pedidos :
       \/ NoCiap(LerBens(p)) \/ NoCiap(ApagarE111(p)) \/ NoCiap(Falhar(p))
       \/ NoCiap(ApagarParaCorrigir(p)) \/ NoCiap(Corrigir(p))
       \/ NoCiap(ApagarAjustes(p)) \/ NoCiap(AtualizarContexto(p))
       \/ \E coef \in Coeficientes : NoCiap(Apropriar(p, coef))

PassoCte ==
  \E p \in Pedidos :
    \/ \E k \in ChavesCte : NoCte(T!Distribuir(p, k)) \/ NoCte(T!Importar(p, k))
    \/ NoCte(T!Reprocessar(p)) \/ NoCte(T!Ler(p)) \/ NoCte(T!Gravar(p))
    \/ NoCte(T!Confirmar(p)) \/ NoCte(T!Falhar(p))

(* The clock of the consultations stops at its bound. *)
FimDoTempo == parte = "consulta" /\ agora = MaxTempo /\ UNCHANGED todas

OperacoesNext ==
  PassoDocumento \/ PassoConsulta \/ PassoEntrega \/ PassoCiap \/ PassoCte \/ FimDoTempo

OperacoesSpec == OperacoesInit /\ [][OperacoesNext]_todas

Simetria == Permutations(Pedidos)

-----------------------------------------------------------------------------
(* The properties of the modules, each stated and explained in its own.    *)

(* Every variable stays in its set. *)
OperacoesTypeOK ==
  CASE parte = "documento" -> D!TypeOK
    [] parte = "consulta" -> C!TypeOK
    [] parte = "entrega" -> E!TypeOK
    [] parte = "ciap" -> TypeOK
    [] parte = "cte" -> T!TypeOK

(* DocumentoFiscal: a complete document names its XML for good. *)
CompletaTemXml == parte = "documento" => D!CompletaTemXml

(* DocumentoFiscal: a cancelled document stays cancelled. *)
CanceladaFica == D!CanceladaFica

(* DocumentoFiscal: a confirmed CFOP is not replaced by a resolved one. *)
DecisaoPreservada == parte = "documento" => D!DecisaoPreservada

(* DocumentoFiscal: one automatic Ciência an hour. ConsultaSefaz: at most  *)
(* Limite reservations in a window of an hour. *)
JanelaRespeitada ==
  /\ parte = "documento" => D!CienciaUnica
  /\ parte = "consulta" => C!JanelaRespeitada

(* ConsultaSefaz: nothing is let through before a suspension ends. *)
SuspensaoRespeitada == C!SuspensaoRespeitada

(* ConsultaSefaz: a lot that was told to stop makes no other call. *)
InterrupcaoDefinitiva == C!InterrupcaoDefinitiva

(* ConsultaSefaz: the chain of promises of a process makes one call at a   *)
(* time and leaves no lot behind a promise that nobody resolves. *)
CadeiaDePromessas == parte = "consulta" => C!UmaChamadaPorProcesso /\ C!EsperaViva

(* FiscalEntregas: a first failed upload that left a file is compensated,  *)
(* a delivery that never failed is not, and a rectification is of an       *)
(* original delivery. *)
EntregasCoerentes ==
  parte = "entrega" =>
    E!PrimeiraFalhaCompensada /\ E!SemCompensacaoArmazenada /\ E!RetificacaoDeBase

(* CteEscrituracao: a document and its substitution are not both booked.   *)
SubstituicaoExclui == parte = "cte" => T!SubstituicaoExclui
=============================================================================
