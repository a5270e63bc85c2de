---------------------------- MODULE DocumentoFiscal ----------------------------
(***************************************************************************)
(* One access key of one client: the row of documentos_fiscais, one of its *)
(* items, and the two objects of the bucket its XML may have. The row is   *)
(* written by the distribution (summary or complete note), the manual      *)
(* import, the manifestation of the recipient, the automatic Ciência, the  *)
(* reprocessing, the edition of an item and the deletion of a month, each  *)
(* of which reads the row, works outside any transaction, and writes.      *)
(*                                                                         *)
(* A transaction is one step: it takes the advisory lock of the key, or    *)
(* holds the locks of the item and of the row from its first update on. A  *)
(* serialization failure, a broken connection or a crash ends a request at *)
(* any point (Falhar).                                                     *)
(***************************************************************************)
EXTENDS Naturals, FiniteSets

CONSTANTS
  Pedidos,      \* requests and synchronisations that may run at the same time
  Tipos,        \* kinds of document to consider, among "NFE" and "NFSE"
  ComExclusao   \* whether the month of the document may be deleted

DocumentoAssumption ==
  /\ Tipos \subseteq {"NFE", "NFSE"}
  /\ ComExclusao \in BOOLEAN

VARIABLES
  tipo,      \* the kind of the document
  linha,     \* the row, with its item
  r2,        \* the objects of the summary and of the complete XML
  pc,        \* next step of each request
  local,     \* what each request read
  ciencias   \* automatic Ciências sent for this row in the current hour

vars == <<tipo, linha, r2, pc, local, ciencias>>

(* "A": the authorised (or denied) document; "C": the same document with   *)
(* its cancellation, which only the XML of an NFS-e carries. *)
Conteudos == IF tipo = "NFE" THEN {"A"} ELSE {"A", "C"}

Situacao(c) == IF c = "C" THEN "CANCELADA" ELSE "AUTORIZADA"

Manifestacoes == {"SEM", "CIENCIA", "CONFIRMADA", "RECUSADA"}

(* manual: nsu = 0. ciencia: proximaTentativaCienciaEm lies in the future. *)
(* itemManual and cfop: the item's cfopManual, and who chose its CFOP. *)
Linha == [situacao : {"AUSENTE", "RESUMIDA", "AUTORIZADA", "CANCELADA"},
          manif : Manifestacoes, escriturado : BOOLEAN,
          chave : {"resumo", "xml"}, manual : BOOLEAN, ciencia : BOOLEAN,
          itemManual : BOOLEAN, cfop : {"motor", "humano"}]

Ausente == [situacao |-> "AUSENTE", manif |-> "SEM", escriturado |-> FALSE,
            chave |-> "resumo", manual |-> FALSE, ciencia |-> FALSE,
            itemManual |-> FALSE, cfop |-> "motor"]

(* What a request still needs of what it read: the situation, the object   *)
(* the row named ("nenhum": no row), whether the manifestation allowed the *)
(* booking, the item's CFOP ("nenhum": no item). vista: what became of the *)
(* row and its item since. *)
Local == [situacao : {"AUSENTE", "RESUMIDA", "AUTORIZADA", "CANCELADA"},
          chave : {"nenhum", "resumo", "xml"}, permite : BOOLEAN,
          cfop : {"nenhum", "motor", "humano"}, evento : Manifestacoes,
          conteudo : {"A", "C"}, previo : {"nada", "A", "C"},
          vista : {"valida", "mudou", "perdida"}]

Vazio == [situacao |-> "AUSENTE", chave |-> "nenhum", permite |-> FALSE, cfop |-> "nenhum",
          evento |-> "SEM", conteudo |-> "A", previo |-> "nada", vista |-> "valida"]

Pontos ==
  {"ocioso", "resumo_subir", "resumo_gravar", "dup_gravar", "completo_subir",
   "completo_gravar", "limpar_resumo", "imp_baixar", "imp_sobrepor", "imp_criar",
   "imp_gravar", "imp_restaurar", "man_registrar", "cie_reservar", "cie_enviar",
   "cie_registrar", "cie_limpar", "rep_itens", "rep_gravar", "cfop_gravar", "exc_apagar"}

Existe(l) == l.situacao # "AUSENTE"

Completa(l) == l.situacao \in {"AUTORIZADA", "CANCELADA"}

ChaveDe(l) == IF Existe(l) THEN l.chave ELSE "nenhum"

-----------------------------------------------------------------------------
(* Control of a request.                                                   *)

Comecar(p, ponto, l) ==
  /\ pc[p] = "ocioso"
  /\ pc' = [pc EXCEPT ![p] = ponto]
  /\ local' = [local EXCEPT ![p] = l]

Ir(p, ponto) == pc' = [pc EXCEPT ![p] = ponto] /\ UNCHANGED local

Encerrado(p) == pc' = [pc EXCEPT ![p] = "ocioso"]

(* The others learn nothing, but what they hold is now older than the row. *)
Envelhecidos(p, vista) ==
  [q \in Pedidos |->
     IF q = p THEN Vazio
     ELSE IF pc[q] = "ocioso" \/ local[q].vista = "perdida" THEN local[q]
     ELSE [local[q] EXCEPT !.vista = vista]]

(* A write that ends the request and leaves the item as it was. *)
Gravar(p, l) ==
  /\ linha' = l
  /\ Encerrado(p)
  /\ local' = [local EXCEPT ![p] = Vazio]

(* A write that also updates the item: its revision changes. *)
GravarItem(p, l, ponto) ==
  /\ linha' = l
  /\ pc' = [pc EXCEPT ![p] = ponto]
  /\ local' = Envelhecidos(p, "mudou")

Desistir(p) ==
  /\ Encerrado(p)
  /\ local' = [local EXCEPT ![p] = Vazio]
  /\ UNCHANGED <<linha, r2>>

(* The row a request read by id is still there. *)
Viva(p) == local[p].vista # "perdida"

-----------------------------------------------------------------------------
(* salvarResumoNfe                                                         *)

LerResumo(p) ==
  /\ tipo = "NFE"
  /\ ~Completa(linha)
  /\ Comecar(p, "resumo_subir", [Vazio EXCEPT !.chave = ChaveDe(linha)])
  /\ UNCHANGED <<tipo, linha, r2, ciencias>>

SubirResumo(p) ==
  /\ pc[p] = "resumo_subir"
  /\ r2' = [r2 EXCEPT !.resumo = TRUE]
  /\ Ir(p, "resumo_gravar")
  /\ UNCHANGED <<tipo, linha, ciencias>>

(* Variant for mutation: the upsert has no setWhere. *)
ResumidaSemCondicao(l) ==
  IF Existe(l) THEN [l EXCEPT !.chave = "resumo", !.manual = FALSE]
  ELSE [Ausente EXCEPT !.situacao = "RESUMIDA"]

(* What the upsert of the summary leaves: setWhere situacao = RESUMIDA. *)
Resumida(l) ==
  IF Completa(l) THEN l ELSE [l EXCEPT !.situacao = "RESUMIDA"]

GravarResumo(p) ==
  /\ pc[p] = "resumo_gravar"
  /\ Gravar(p, Resumida(linha))
  /\ UNCHANGED <<tipo, r2, ciencias>>

(* The transaction fails; the object is removed if no row had been read,   *)
(* unless that fails too. *)
FalharResumo(p) ==
  /\ pc[p] = "resumo_gravar"
  /\ r2' \in {r2} \cup (IF local[p].chave = "nenhum" THEN {[r2 EXCEPT !.resumo = FALSE]} ELSE {})
  /\ Gravar(p, linha)
  /\ UNCHANGED <<tipo, ciencias>>

-----------------------------------------------------------------------------
(* salvarDocumento: a complete note, from a batch or asked for by its key. *)

(* Only the manifestation as it was read may keep the note out of the books.*)
LidaCompleto ==
  [Vazio EXCEPT !.chave = ChaveDe(linha), !.permite = linha.manif \in {"SEM", "CONFIRMADA"}]

(* A note stored by the distribution may come again with the same nsu. *)
LerCompleto(p) ==
  /\ tipo = "NFE"
  /\ \/ Comecar(p, "completo_subir", LidaCompleto)
     \/ /\ Completa(linha) /\ ~linha.manual
        /\ Comecar(p, "dup_gravar", LidaCompleto)
  /\ UNCHANGED <<tipo, linha, r2, ciencias>>

(* reconciliarItensDocumento: an item whose CFOP is manual keeps it. *)
Reconciliada(l) == IF l.itemManual THEN l ELSE [l EXCEPT !.cfop = "motor"]

GravarDuplicado(p) ==
  /\ pc[p] = "dup_gravar"
  /\ Viva(p)
  /\ GravarItem(p, Reconciliada([linha EXCEPT !.situacao = "AUTORIZADA",
                                              !.escriturado = local[p].permite]), "ocioso")
  /\ UNCHANGED <<tipo, r2, ciencias>>

(* The object the row named before, when it is another one, is deleted. *)
DepoisDeGravar(p) == IF local[p].chave = "resumo" THEN "limpar_resumo" ELSE "ocioso"

(* uploadIfAbsent; a key taken by another content is an error. *)
SubirCompleto(p) ==
  /\ pc[p] = "completo_subir"
  /\ r2.xml \in {"nada", "A"}
  /\ r2' = [r2 EXCEPT !.xml = "A"]
  /\ Ir(p, "completo_gravar")
  /\ UNCHANGED <<tipo, linha, ciencias>>

GravarCompleto(p) ==
  /\ pc[p] = "completo_gravar"
  /\ GravarItem(p, Reconciliada([linha EXCEPT !.situacao = "AUTORIZADA", !.chave = "xml",
                                   !.manual = FALSE, !.escriturado = local[p].permite]),
                DepoisDeGravar(p))
  /\ UNCHANGED <<tipo, r2, ciencias>>

(* An error is only logged. *)
LimparResumo(p) ==
  /\ pc[p] = "limpar_resumo"
  /\ r2' \in {r2, [r2 EXCEPT !.resumo = FALSE]}
  /\ Gravar(p, linha)
  /\ UNCHANGED <<tipo, ciencias>>

-----------------------------------------------------------------------------
(* persistirDocumento: the XML a person uploads.                           *)

(* Anything else is DUPLICADO and changes nothing. *)
Importavel(l, c) ==
  \/ ~Completa(l)
  \/ c = "C" /\ l.situacao # "CANCELADA"

LerImportacao(p) ==
  /\ \E c \in Conteudos :
       /\ Importavel(linha, c)
       /\ Comecar(p, IF Existe(linha) /\ linha.chave = "xml" THEN "imp_baixar" ELSE "imp_criar",
                  [Vazio EXCEPT !.chave = ChaveDe(linha), !.conteudo = c])
  /\ UNCHANGED <<tipo, linha, r2, ciencias>>

(* The content to restore; a missing object is an error. *)
BaixarAnterior(p) ==
  /\ pc[p] = "imp_baixar"
  /\ r2.xml # "nada"
  /\ local' = [local EXCEPT ![p].previo = r2.xml]
  /\ pc' = [pc EXCEPT ![p] = "imp_sobrepor"]
  /\ UNCHANGED <<tipo, linha, r2, ciencias>>

EnviarXml(p) ==
  /\ \/ pc[p] = "imp_sobrepor"
     \/ pc[p] = "imp_criar" /\ r2.xml \in {"nada", local[p].conteudo}
  /\ r2' = [r2 EXCEPT !.xml = local[p].conteudo]
  /\ Ir(p, "imp_gravar")
  /\ UNCHANGED <<tipo, linha, ciencias>>

(* The conditional update finds the row it read. *)
Atualiza(p) ==
  /\ local[p].chave # "nenhum" /\ Viva(p)
  /\ IF local[p].conteudo = "C" THEN linha.situacao # "CANCELADA" ELSE linha.situacao = "RESUMIDA"

(* Variant for mutation: onConflictDoUpdate. *)
InsereSempre(p) == local[p].chave = "nenhum"

(* onConflictDoNothing *)
Insere(p) == ~Existe(linha)

Importada(p) ==
  Reconciliada([linha EXCEPT !.situacao = Situacao(local[p].conteudo), !.chave = "xml",
                             !.manual = TRUE, !.escriturado = local[p].conteudo = "A"])

(* When the record of the audit fails after the commit, the content that    *)
(* was there before is put back over the one the row names. *)
GravarImportacao(p) ==
  /\ pc[p] = "imp_gravar"
  /\ Atualiza(p) \/ Insere(p)
  /\ \/ GravarItem(p, Importada(p), DepoisDeGravar(p))
     \/ /\ local[p].previo # "nada"
        /\ linha' = Importada(p)
        /\ pc' = [pc EXCEPT ![p] = "imp_restaurar"]
        /\ local' = [Envelhecidos(p, "mudou") EXCEPT ![p] = local[p]]
  /\ UNCHANGED <<tipo, r2, ciencias>>

(* Neither the update nor the insertion found its place, or the            *)
(* transaction failed: what was there before is put back. *)
DesfazerImportacao(p) ==
  /\ pc[p] = "imp_gravar"
  /\ IF local[p].previo # "nada"
     THEN Ir(p, "imp_restaurar") /\ UNCHANGED <<linha, r2>>
     ELSE Desistir(p)
  /\ UNCHANGED <<tipo, ciencias>>

RestaurarXml(p) ==
  /\ pc[p] = "imp_restaurar"
  /\ r2' = [r2 EXCEPT !.xml = local[p].previo]
  /\ Gravar(p, linha)
  /\ UNCHANGED <<tipo, ciencias>>

-----------------------------------------------------------------------------
(* Manifestation of the recipient.                                         *)

(* What a registered event leaves in the row. *)
Manifestada(l, ev) ==
  [l EXCEPT !.manif = ev,
            !.escriturado = ev = "CONFIRMADA" /\ l.situacao = "AUTORIZADA"]

LerManifestacao(p) ==
  /\ tipo = "NFE"
  /\ Existe(linha)
  /\ \E ev \in Manifestacoes \ {"SEM"} :
       /\ ~(ev = "CIENCIA" /\ linha.manif = "CIENCIA")
       /\ Comecar(p, "man_registrar", [Vazio EXCEPT !.evento = ev])
  /\ UNCHANGED <<tipo, linha, r2, ciencias>>

(* SEFAZ accepted the event; registrarManifestacao. A missing row fails.   *)
RegistrarManifestacao(p) ==
  /\ pc[p] = "man_registrar"
  /\ Viva(p)
  /\ Gravar(p, Manifestada(linha, local[p].evento))
  /\ UNCHANGED <<tipo, r2, ciencias>>

(* manifestarResumosPendentes: the rows without manifestation. *)
Pendente(l) == l.situacao = "RESUMIDA" /\ l.manif = "SEM" /\ ~l.ciencia

LerPendente(p) ==
  /\ tipo = "NFE"
  /\ Pendente(linha)
  /\ Comecar(p, "cie_reservar", Vazio)
  /\ UNCHANGED <<tipo, linha, r2, ciencias>>

(* The conditional UPDATE that reserves the attempt for an hour. *)
Reserva(p) == Viva(p) /\ Pendente(linha)

ReservarCiencia(p) ==
  /\ pc[p] = "cie_reservar"
  /\ Reserva(p)
  /\ linha' = [linha EXCEPT !.ciencia = TRUE]
  /\ Ir(p, "cie_enviar")
  /\ UNCHANGED <<tipo, r2, ciencias>>

(* What is sent for a row deleted meanwhile is not counted for a new one.  *)
EnviarCiencia(p) ==
  /\ pc[p] = "cie_enviar"
  /\ ciencias' = IF Viva(p) /\ ciencias < 2 THEN ciencias + 1 ELSE ciencias
  /\ Ir(p, "cie_registrar")
  /\ UNCHANGED <<tipo, linha, r2>>

RegistrarCiencia(p) ==
  /\ pc[p] = "cie_registrar"
  /\ Viva(p)
  /\ linha' = Manifestada(linha, "CIENCIA")
  /\ Ir(p, "cie_limpar")
  /\ UNCHANGED <<tipo, r2, ciencias>>

LimparPrazo(p) ==
  /\ pc[p] = "cie_limpar"
  /\ Viva(p)
  /\ Gravar(p, [linha EXCEPT !.ciencia = FALSE])
  /\ UNCHANGED <<tipo, r2, ciencias>>

(* The hour of the reservation is over. A request to SEFAZ takes less. *)
PassarHora ==
  /\ linha.ciencia \/ ciencias > 0
  /\ \A p \in Pedidos : pc[p] # "cie_enviar"
  /\ linha' = [linha EXCEPT !.ciencia = FALSE]
  /\ ciencias' = 0
  /\ UNCHANGED <<tipo, r2, pc, local>>

-----------------------------------------------------------------------------
(* Bookkeeping of a stored document.                                       *)

(* reprocessar reads the rows first and the items in another statement. *)
LerDocumentos(p) ==
  /\ Existe(linha)
  /\ Comecar(p, "rep_itens", [Vazio EXCEPT !.situacao = linha.situacao])
  /\ UNCHANGED <<tipo, linha, r2, ciencias>>

LerItens(p) ==
  /\ pc[p] = "rep_itens"
  /\ Viva(p)
  /\ local' = [local EXCEPT ![p].vista = "valida",
                            ![p].cfop = IF Completa(linha) THEN linha.cfop ELSE "nenhum"]
  /\ pc' = [pc EXCEPT ![p] = "rep_gravar"]
  /\ UNCHANGED <<tipo, linha, r2, ciencias>>

ComItens(p) == local[p].cfop # "nenhum"

Reescriturada(p) == [linha EXCEPT !.escriturado = local[p].situacao = "AUTORIZADA"]

(* Variant for mutation: the update of an item does not test its revision. *)
ReprocessarSemRevisao(p) ==
  /\ pc[p] = "rep_gravar"
  /\ Viva(p)
  /\ IF ComItens(p)
     THEN GravarItem(p, [Reescriturada(p) EXCEPT !.cfop = local[p].cfop], "ocioso")
     ELSE Gravar(p, Reescriturada(p))
  /\ UNCHANGED <<tipo, r2, ciencias>>

(* Every item must still have the revision that was read; its CFOP is the  *)
(* one resolved from what was read. A row without items is not tested. *)
Reprocessar(p) ==
  /\ pc[p] = "rep_gravar"
  /\ Viva(p)
  /\ IF ComItens(p)
     THEN /\ local[p].vista = "valida"
          /\ GravarItem(p, [Reescriturada(p) EXCEPT !.cfop = local[p].cfop], "ocioso")
     ELSE Gravar(p, Reescriturada(p))
  /\ UNCHANGED <<tipo, r2, ciencias>>

(* editarCfopItem reads the document, then waits for the closing's lock. *)
LerItemEditar(p) ==
  /\ Completa(linha)
  /\ Comecar(p, "cfop_gravar", [Vazio EXCEPT !.situacao = linha.situacao])
  /\ UNCHANGED <<tipo, linha, r2, ciencias>>

EditarCfop(p) ==
  /\ pc[p] = "cfop_gravar"
  /\ Viva(p)
  /\ GravarItem(p, [linha EXCEPT !.itemManual = TRUE, !.cfop = "humano",
                                 !.escriturado = local[p].situacao = "AUTORIZADA"], "ocioso")
  /\ UNCHANGED <<tipo, r2, ciencias>>

(* definirDestinacaoItem locks the item before it reads the document. *)
DefinirDestinacao(p) ==
  /\ pc[p] = "ocioso"
  /\ Completa(linha)
  /\ GravarItem(p, [linha EXCEPT !.itemManual = FALSE, !.cfop = "motor",
                                 !.escriturado = linha.situacao = "AUTORIZADA"], "ocioso")
  /\ UNCHANGED <<tipo, r2, ciencias>>

-----------------------------------------------------------------------------
(* excluirMovimentacaoMes: the rows of manual origin go with their items;  *)
(* their objects go after the commit. *)
ExcluirLinhas(p) ==
  /\ ComExclusao
  /\ pc[p] = "ocioso"
  /\ Existe(linha) /\ linha.manual
  /\ linha' = Ausente
  /\ ciencias' = 0
  /\ pc' = [pc EXCEPT ![p] = "exc_apagar"]
  /\ local' = [Envelhecidos(p, "perdida") EXCEPT ![p].chave = linha.chave]
  /\ UNCHANGED <<tipo, r2>>

ApagarObjetos(p) ==
  /\ pc[p] = "exc_apagar"
  /\ r2' = IF local[p].chave = "xml" THEN [r2 EXCEPT !.xml = "nada"]
           ELSE [r2 EXCEPT !.resumo = FALSE]
  /\ Gravar(p, linha)
  /\ UNCHANGED <<tipo, ciencias>>

(* An error, a conflict, a refusal of SEFAZ or a crash ends the request. *)
Falhar(p) ==
  /\ pc[p] # "ocioso"
  /\ Desistir(p)
  /\ UNCHANGED <<tipo, ciencias>>

-----------------------------------------------------------------------------
Init ==
  /\ tipo \in Tipos
  /\ linha = Ausente
  /\ r2 = [resumo |-> FALSE, xml |-> "nada"]
  /\ pc = [p \in Pedidos |-> "ocioso"]
  /\ local = [p \in Pedidos |-> Vazio]
  /\ ciencias = 0

Distribuir(p) ==
  \/ LerResumo(p) \/ SubirResumo(p) \/ GravarResumo(p) \/ FalharResumo(p)
  \/ LerCompleto(p) \/ GravarDuplicado(p) \/ SubirCompleto(p) \/ GravarCompleto(p)
  \/ LimparResumo(p)

Importar(p) ==
  \/ LerImportacao(p) \/ BaixarAnterior(p) \/ EnviarXml(p) \/ GravarImportacao(p)
  \/ DesfazerImportacao(p) \/ RestaurarXml(p)

Manifestar(p) ==
  \/ LerManifestacao(p) \/ RegistrarManifestacao(p)
  \/ LerPendente(p) \/ ReservarCiencia(p) \/ EnviarCiencia(p)
  \/ RegistrarCiencia(p) \/ LimparPrazo(p)

Escriturar(p) ==
  \/ LerDocumentos(p) \/ LerItens(p) \/ Reprocessar(p)
  \/ LerItemEditar(p) \/ EditarCfop(p) \/ DefinirDestinacao(p)

Next ==
  \/ \E p \in Pedidos :
       \/ Distribuir(p) \/ Importar(p) \/ Manifestar(p) \/ Escriturar(p)
       \/ ExcluirLinhas(p) \/ ApagarObjetos(p) \/ Falhar(p)
  \/ PassarHora

Spec == Init /\ [][Next]_vars

-----------------------------------------------------------------------------
(* Properties.                                                             *)

(* Every variable stays in its set. *)
TypeOK ==
  /\ tipo \in Tipos
  /\ linha \in Linha
  /\ r2 \in [resumo : BOOLEAN, xml : {"nada", "A", "C"}]
  /\ pc \in [Pedidos -> Pontos]
  /\ local \in [Pedidos -> Local]
  /\ ciencias \in 0 .. 2

(* The complete XML replaces the summary for good: whatever order the      *)
(* distribution, the imports and the deletion run in, a complete document  *)
(* never names the object of its summary again, and a summary names it. *)
CompletaTemXml == Completa(linha) <=> Existe(linha) /\ linha.chave = "xml"

(* A cancelled document stays cancelled until its month is deleted: no     *)
(* import, summary or copy that read the row before brings it back. *)
CanceladaFica ==
  [][linha.situacao = "CANCELADA" => linha'.situacao \in {"CANCELADA", "AUSENTE"}]_vars

(* A CFOP a person confirmed is never replaced by one the rules resolved:  *)
(* not by a reprocessing that had read the item before, not by the note    *)
(* arriving again. *)
DecisaoPreservada == linha.itemManual => linha.cfop = "humano"

(* However many synchronisations run, one row has at most one automatic    *)
(* Ciência sent in an hour. *)
CienciaUnica == ciencias <= 1

(* docs/fiscal-sync.md:94-97: without Confirmação a manifested note is not *)
(* booked, and Desconhecimento and Operação não Realizada block it. *)
RecusaBloqueia == linha.manif \in {"CIENCIA", "RECUSADA"} => ~linha.escriturado
=============================================================================
