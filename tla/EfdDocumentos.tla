--------------------------- MODULE EfdDocumentos ---------------------------
(***************************************************************************)
(* How EfdIcmsIpiService.preparar turns the documents of a month into the  *)
(* registers of the EFD ICMS/IPI: the documents that enter and those that  *)
(* stay out, and the catalogues of block 0 (0150, 0190, 0200 with 0220,    *)
(* 0300) filled while the documents are read, to which C100, C113, C170,   *)
(* D100, H010 and G125 refer by code.  The loop of the service is taken    *)
(* one document, and inside a document one item, at a step: nothing of it  *)
(* is shared.                                                              *)
(*                                                                         *)
(* A code made by hashing is the tuple of what is hashed, and a unit is    *)
(* the pair of its normal form and its spelling, with the code <<form>> or *)
(* the pair itself.                                                        *)
(***************************************************************************)
EXTENDS Integers, Sequences, FiniteSets

CONSTANTS Entradas      \* the contents of the database a preparation may read

VARIABLES entrada,          \* what this preparation reads, fixed by its snapshot
          fase,             \* "INICIO", "RECUSADA", "DOCUMENTOS", "MONTAGEM" or "PRONTA"
          fila,             \* documents not yet looked at, by date of issue
          atual,            \* the document whose items are being prepared
          participantes,    \* identifier |-> code of its register 0150
          unidades,         \* code |-> spelling of its register 0190
          itensCatalogo,    \* identity |-> register 0200 and its children 0220
          nfe, cte,         \* documents for blocks C and D
          excluded, pending,
          inconsistencias   \* <<codigo, document or item>>

efdVars == <<entrada, fase, fila, atual, participantes, unidades, itensCatalogo,
             nfe, cte, excluded, pending, inconsistencias>>
catalogos == <<participantes, unidades, itensCatalogo>>

SemCodigo == <<>>       \* no code, no unit, no document
Proprio == <<"PROPRIO">>

-----------------------------------------------------------------------------
(* What is read: types, and what the schema and the writers guarantee. *)

\* Variant for mutation: an item still to be reviewed is only a warning.
AvisosDemais == {"DOCUMENTO_DENEGADO_NAO_EMITIDO", "CIAP_CADASTRO_0300_INCOMPLETO",
                 "ITENS_FISCAIS_PENDENTES"}
Avisos == {"DOCUMENTO_DENEGADO_NAO_EMITIDO", "CIAP_CADASTRO_0300_INCOMPLETO"}

\* A unit is <<normal form, spelling>>, the spelling "MAIUSCULA", "minuscula" or
\* "pontuada"; no unit for tax, or no quantity in it, is SemCodigo.
Unidade(u) == u = <<u[1], u[2]>>
Maiuscula(u) == IF u[2] = "minuscula" THEN <<u[1], "MAIUSCULA">> ELSE u

Cst == {"CST", "CSOSN", "INVALIDO", "AUSENTE"}
Situacoes == {"AUTORIZADA", "CANCELADA", "DENEGADA", "RESUMIDA"}
EscrituracaoStatus == {"ESCRITURADO", "NAO_ESCRITURAVEL", "PENDENTE_REVISAO"}
IntegridadeStatus == {"OK", "DIVERGENTE", "NAO_CONFERIDA"}

\* What the schema and the writers guarantee of an input.  codigos holds the
\* stored code of each participant: unique (uidx_sped_participante_codigo), and
\* never the code another identifier would be given.  A line of an inventory
\* names a stored participant, or none ("").
EntradaValida(e) ==
    /\ e.perfil \in {"A", "B", "C"}
    /\ {e.aceita, e.cadastro, e.exigeInventario, e.fechado, e.homologado} \subseteq BOOLEAN
    /\ e.documentos \in Seq({e.documentos[i] : i \in DOMAIN e.documentos})
    /\ \A i \in DOMAIN e.documentos :
          LET d == e.documentos[i]
          IN  /\ d.tipo \in {"NFE", "NFCE", "CTE", "NFSE"} /\ d.situacao \in Situacoes
              /\ d.status \in EscrituracaoStatus /\ d.integridade \in IntegridadeStatus
              /\ d.cte \in {"AUSENTE", "PENDENTE", "PRONTO"}
              /\ \A j \in 1..(i - 1) : e.documentos[j].id # d.id
              /\ d.itens \in Seq({d.itens[k] : k \in DOMAIN d.itens})
              /\ \A k \in DOMAIN d.itens :
                    LET t == d.itens[k]
                    IN  /\ t.cst \in Cst /\ Unidade(t.unidade)
                        /\ t.tributavel # SemCodigo => Unidade(t.tributavel)
    /\ \A a, b \in DOMAIN e.codigos : e.codigos[a] = e.codigos[b] => a = b
    /\ \A a \in DOMAIN e.codigos : e.codigos[a] # SemCodigo
    /\ \A a \in DOMAIN e.codigos : e.codigos[a][1] = "P" => e.codigos[a] = <<"P", a>>
    /\ \A l \in e.linhas : l.participante # "" => l.participante \in DOMAIN e.codigos
    /\ \A l, m \in e.linhas : l.produto = m.produto => l.cadastrada = m.cadastrada

EfdAssumption == \A e \in Entradas : EntradaValida(e)

-----------------------------------------------------------------------------
(* The rules a document passes through. *)

Cancelado(d) == d.situacao = "CANCELADA"

\* The checks that leave a document out and count it pending, in their order.
Impedimentos(d) ==
    << [codigo |-> "DOCUMENTO_XML_COMPLETO_AUSENTE", vale |-> d.situacao = "RESUMIDA"],
       [codigo |-> "DOCUMENTO_PENDENTE_ESCRITURACAO",
        vale |-> ~Cancelado(d) /\ d.status # "ESCRITURADO"],
       [codigo |-> "CTE_PENDENTE_REVISAO",
        vale |-> ~Cancelado(d) /\ d.tipo = "CTE" /\ d.cte # "PRONTO"],
       [codigo |-> "DOCUMENTO_INTEGRIDADE",
        vale |-> ~Cancelado(d) /\ d.tipo # "CTE" /\ d.integridade # "OK"],
       [codigo |-> "ITENS_FISCAIS_PENDENTES",
        vale |-> /\ ~Cancelado(d) /\ d.tipo # "CTE"
                 /\ d.itens = <<>> \/ \E i \in DOMAIN d.itens : d.itens[i].revisao] >>

Impedido(d) == \E i \in DOMAIN Impedimentos(d) : Impedimentos(d)[i].vale
Impedimento(d) ==
    LET s == Impedimentos(d)
    IN  s[CHOOSE i \in DOMAIN s : s[i].vale /\ \A j \in 1..(i - 1) : ~s[j].vale].codigo

TemParticipante(d) == d.outro \notin {"", "CLIENTE"}
ExigeParticipante(d) == d.tipo \in {"NFE", "CTE"}

CodigoParticipante(id) ==
    IF id \in DOMAIN entrada.codigos THEN entrada.codigos[id] ELSE <<"P", id>>

ParticipanteDe(d) ==
    IF ~TemParticipante(d) THEN SemCodigo
    ELSE IF d.outro \in DOMAIN participantes THEN participantes[d.outro]
    ELSE CodigoParticipante(d.outro)

ParticipantesCom(d) ==
    [p \in DOMAIN participantes \cup (IF TemParticipante(d) THEN {d.outro} ELSE {}) |->
        IF p \in DOMAIN participantes THEN participantes[p] ELSE CodigoParticipante(p)]

\* The findings of resolveParticipant: no identifier, which only the NFC-e may
\* lack, or a party without name, municipality or address.
QueixasDoParticipante(d) ==
    (IF d.outro = "" /\ d.tipo # "NFCE" THEN {<<"PARTICIPANTE_DOCUMENTO_AUSENTE", d.id>>}
     ELSE {})
    \cup (IF TemParticipante(d) /\ ~d.cadastro
          THEN {<<"PARTICIPANTE_CADASTRO_INCOMPLETO", d.id>>} ELSE {})

\* A purchase by NF-e is declared item by item: what the service puts in the
\* catalogues, and what the builder writes as C170, are decided apart.
DeclaraCatalogo(d) == d.tipo = "NFE" /\ ~d.propria /\ entrada.perfil # "C"
\* Variant for mutation: the builder does not look at the profile.
EmiteC170SemPerfil(d) == d.tipo = "NFE" /\ ~d.propria
EmiteC170(d) == d.tipo = "NFE" /\ ~d.propria /\ entrada.perfil # "C"

\* Whose product code it is: the supplier's, or the establishment's own.
Origem(a) == IF a.doc.propria \/ a.participante = SemCodigo THEN Proprio ELSE a.participante

\* uniqueUnitCode: the normal form, unless another spelling holds it already.
CodigoUnidade(raw, us) ==
    IF <<raw[1]>> \in DOMAIN us /\ us[<<raw[1]>>] # raw THEN raw ELSE <<raw[1]>>

ComUnidade(us, codigo, raw) ==
    [u \in DOMAIN us \cup {codigo} |-> IF u = codigo THEN raw ELSE us[u]]

\* The unit for tax of an item, when it differs in more than the case of letters.
Converte(i) == i.tributavel # SemCodigo /\ Maiuscula(i.tributavel) # Maiuscula(i.unidade)

-----------------------------------------------------------------------------
EfdInit ==
    /\ entrada \in Entradas
    /\ fase = "INICIO" /\ fila = <<>> /\ atual = SemCodigo
    /\ participantes = <<>> /\ unidades = <<>> /\ itensCatalogo = <<>>
    /\ nfe = {} /\ cte = {} /\ excluded = 0 /\ pending = 0
    /\ inconsistencias = {}

\* A year without layout, a Simples company without obligation, no profile, no
\* activity or no accountant: the preview is empty and refuses the generation.
Recusar ==
    /\ fase = "INICIO" /\ ~entrada.aceita
    /\ fase' = "RECUSADA"
    /\ UNCHANGED <<entrada, fila, atual, catalogos, nfe, cte, excluded, pending,
                   inconsistencias>>

Abrir ==
    /\ fase = "INICIO" /\ entrada.aceita
    /\ fase' = "DOCUMENTOS" /\ fila' = entrada.documentos
    /\ inconsistencias' = IF entrada.cadastro THEN {} ELSE {<<"CONFIGURACAO", "EMPRESA">>}
    /\ UNCHANGED <<entrada, atual, catalogos, nfe, cte, excluded, pending>>

Lendo == fase = "DOCUMENTOS" /\ atual = SemCodigo /\ fila # <<>>
Doc == Head(fila)

Denegado ==
    /\ Lendo /\ Doc.situacao = "DENEGADA"
    /\ fila' = Tail(fila) /\ excluded' = excluded + 1
    /\ inconsistencias' = inconsistencias
          \cup {<<"DOCUMENTO_DENEGADO_NAO_EMITIDO", Doc.id>>}
    /\ UNCHANGED <<entrada, fase, atual, catalogos, nfe, cte, pending>>

DocumentoImpedido ==
    /\ Lendo /\ Doc.situacao # "DENEGADA" /\ Impedido(Doc)
    /\ fila' = Tail(fila) /\ excluded' = excluded + 1 /\ pending' = pending + 1
    /\ inconsistencias' = inconsistencias \cup {<<Impedimento(Doc), Doc.id>>}
    /\ UNCHANGED <<entrada, fase, atual, catalogos, nfe, cte>>

Livre(d) == d.situacao # "DENEGADA" /\ ~Impedido(d)

\* A cancelled CT-e that was never written to the books is passed over.
CteNaoEscriturado ==
    /\ Lendo /\ Livre(Doc) /\ Doc.tipo = "CTE" /\ Doc.cte = "AUSENTE"
    /\ fila' = Tail(fila)
    /\ UNCHANGED <<entrada, fase, atual, catalogos, nfe, cte, excluded, pending,
                   inconsistencias>>

EmEscrituracao == Lendo /\ Livre(Doc) /\ ~(Doc.tipo = "CTE" /\ Doc.cte = "AUSENTE")

SemParticipante ==
    /\ EmEscrituracao /\ ExigeParticipante(Doc) /\ ~TemParticipante(Doc)
    /\ fila' = Tail(fila) /\ excluded' = excluded + 1 /\ pending' = pending + 1
    /\ inconsistencias' = inconsistencias \cup QueixasDoParticipante(Doc)
    /\ UNCHANGED <<entrada, fase, atual, catalogos, nfe, cte>>

EscriturarCte ==
    /\ EmEscrituracao /\ Doc.tipo = "CTE" /\ TemParticipante(Doc)
    /\ cte' = cte \cup {[doc |-> Doc, participante |-> ParticipanteDe(Doc)]}
    /\ participantes' = ParticipantesCom(Doc)
    /\ inconsistencias' = inconsistencias \cup QueixasDoParticipante(Doc)
    /\ fila' = Tail(fila)
    /\ UNCHANGED <<entrada, fase, atual, unidades, itensCatalogo, nfe, excluded, pending>>

\* Opens an NF-e, an NFC-e or an NFS-e; a cancelled one keeps no item.
EscriturarNfe ==
    /\ EmEscrituracao /\ Doc.tipo # "CTE"
    /\ ExigeParticipante(Doc) => TemParticipante(Doc)
    /\ atual' = [doc |-> Doc, participante |-> ParticipanteDe(Doc), feitos |-> {},
                 restam |-> IF Cancelado(Doc) THEN <<>> ELSE Doc.itens]
    /\ participantes' = ParticipantesCom(Doc)
    /\ inconsistencias' = inconsistencias \cup QueixasDoParticipante(Doc)
    /\ UNCHANGED <<entrada, fase, fila, unidades, itensCatalogo, nfe, cte, excluded,
                   pending>>

\* prepareItem.  The item comes from the catalogue only when it is declared;
\* the unit for tax is registered whenever an item is made, declared or not.
PrepararItem ==
    /\ atual # SemCodigo /\ atual.restam # <<>>
    /\ LET i == Head(atual.restam)
           declara == DeclaraCatalogo(atual.doc)
           codigo == CodigoUnidade(i.unidade, unidades)
           comerciais == IF declara THEN ComUnidade(unidades, codigo, i.unidade)
                         ELSE unidades
           identidade == <<Origem(atual), i.produto>>
           novo == ~declara \/ identidade \notin DOMAIN itensCatalogo
           tributavel == CodigoUnidade(i.tributavel, comerciais)
           registro == [codigo |-> <<"I", identidade>>, unidade |-> codigo,
                        conversoes |-> IF Converte(i) THEN {tributavel} ELSE {}]
       IN  /\ unidades' = IF novo /\ Converte(i)
                          THEN ComUnidade(comerciais, tributavel, i.tributavel)
                          ELSE comerciais
           /\ itensCatalogo' = [x \in DOMAIN itensCatalogo \cup
                                       (IF declara THEN {identidade} ELSE {}) |->
                                  IF x \in DOMAIN itensCatalogo THEN itensCatalogo[x]
                                  ELSE registro]
           /\ atual' = [atual EXCEPT !.restam = Tail(@),
                          !.feitos = @ \cup {[item |-> <<"I", identidade>>,
                                             unidade |-> codigo,
                                             grafia |-> i.unidade]}]
           /\ inconsistencias' = inconsistencias
                \cup {<<"ITEM_NCM_AUSENTE", x>> :
                        x \in {y \in {atual.doc.id} : declara /\ ~i.ncm}}
                \cup {<<"ITEM_CST_ICMS_AUSENTE", x>> :
                        x \in {y \in {atual.doc.id} : i.cst = "AUSENTE"}}
    /\ UNCHANGED <<entrada, fase, fila, participantes, nfe, cte, excluded, pending>>

FecharNfe ==
    /\ atual # SemCodigo /\ atual.restam = <<>>
    /\ nfe' = nfe \cup {[doc |-> atual.doc, participante |-> atual.participante,
                          itens |-> atual.feitos]}
    /\ atual' = SemCodigo /\ fila' = Tail(fila)
    /\ UNCHANGED <<entrada, fase, catalogos, cte, excluded, pending, inconsistencias>>

-----------------------------------------------------------------------------
(* Block H.  The lines of the closed inventory refer to the item, the unit   *)
(* and the party registered in the catalogue tables.                         *)

Inventario == IF entrada.exigeInventario /\ entrada.fechado THEN entrada.linhas ELSE {}
CodigoProprio(l) == <<"I", <<Proprio, l.produto>>>>
Terceiros == {l.participante : l \in Inventario} \ {""}
\* catalog.set under PROPRIO|codigoExterno, unless the code is there already.
NovosProprios == {l \in Inventario : \A x \in DOMAIN itensCatalogo :
                                        itensCatalogo[x].codigo # CodigoProprio(l)}

CarregarInventario ==
    /\ fase = "DOCUMENTOS" /\ atual = SemCodigo /\ fila = <<>>
    /\ fase' = "MONTAGEM"
    /\ unidades' = [u \in DOMAIN unidades \cup {l.cadastrada : l \in Inventario} |->
                       IF \E l \in Inventario : l.cadastrada = u THEN u ELSE unidades[u]]
    /\ itensCatalogo' =
          [x \in DOMAIN itensCatalogo
                   \cup {<<Proprio, l.produto>> : l \in NovosProprios} |->
             IF \E l \in NovosProprios : <<Proprio, l.produto>> = x
             THEN LET l == CHOOSE l \in NovosProprios : <<Proprio, l.produto>> = x
                  IN  [codigo |-> CodigoProprio(l), unidade |-> l.cadastrada,
                       conversoes |-> {}]
             ELSE itensCatalogo[x]]
    /\ participantes' = [p \in DOMAIN participantes \cup Terceiros |->
                            IF p \in DOMAIN participantes THEN participantes[p]
                            ELSE entrada.codigos[p]]
    /\ inconsistencias' = inconsistencias
          \cup (IF entrada.exigeInventario /\ ~entrada.fechado
                THEN {<<"INVENTARIO_OBRIGATORIO_AUSENTE", "EMPRESA">>} ELSE {})
          \cup {<<"INVENTARIO_UNIDADE_DIVERGENTE", l.produto>> :
                   l \in {x \in Inventario : x.unidade # x.cadastrada}}
          \cup {<<"INVENTARIO_CONTA_CONTABIL_AUSENTE", l.produto>> :
                   l \in {x \in Inventario : entrada.perfil # "C" /\ ~x.conta}}
    /\ UNCHANGED <<entrada, fila, atual, nfe, cte, excluded, pending>>

-----------------------------------------------------------------------------
(* The registers, by what they refer to and what block 0 declares.           *)

Regulares(docs) == {n \in docs : ~Cancelado(n.doc)}
C170 == UNION {n.itens : n \in {m \in Regulares(nfe) : EmiteC170(m.doc)}}
C113 == {n.participante : n \in {m \in Regulares(nfe) : m.doc.refs}} \ {SemCodigo}
C100D100 == {n.participante : n \in nfe \cup cte} \ {SemCodigo}
H010 == IF fase \in {"MONTAGEM", "PRONTA"} THEN Inventario ELSE {}
BlocoG == IF entrada.homologado THEN entrada.bens ELSE {}

R0150 == {participantes[p] : p \in DOMAIN participantes}
R0190 == DOMAIN unidades
R0200 == {itensCatalogo[x] : x \in DOMAIN itensCatalogo}
R0300 == IF entrada.bens # {} /\ ~entrada.homologado THEN {} ELSE entrada.bens
Codigos0200 == {r.codigo : r \in R0200}

\* runPreflightPva, as far as references go.
Preflight ==
    {<<"PVA_0200_UNIDADE_INEXISTENTE", "REGISTRO">> :
        r \in {x \in R0200 : x.unidade \notin R0190}}
    \cup {<<"PVA_0220_UNIDADE_INEXISTENTE", "REGISTRO">> :
             r \in {x \in R0200 : ~(x.conversoes \subseteq R0190)}}
    \cup {<<"PVA_C170_ITEM_INEXISTENTE", "REGISTRO">> :
             r \in {x \in C170 : x.item \notin Codigos0200}}
    \cup {<<"PVA_C170_UNIDADE_INEXISTENTE", "REGISTRO">> :
             r \in {x \in C170 : x.unidade \notin R0190}}
    \cup {<<"PVA_C113_PARTICIPANTE_INEXISTENTE", "REGISTRO">> : r \in C113 \ R0150}
    \cup {<<"PVA_G125_0300_INEXISTENTE", "REGISTRO">> : r \in BlocoG \ R0300}

\* The checks of the builder on the CST of every item and of every CT-e.
QueixasDeCst ==
    (UNION {{<<"CST_DECLARANTE_EXIGE_REVISAO", n.doc.id>> :
              k \in {j \in DOMAIN n.doc.itens :
                        ~n.doc.saida /\ n.doc.itens[j].cst = "CSOSN"}}
           \cup {<<"CST_ICMS_AUSENTE_OU_INVALIDO", n.doc.id>> :
              k \in {j \in DOMAIN n.doc.itens :
                        n.doc.itens[j].cst \in {"INVALIDO", "AUSENTE"}}} :
           n \in Regulares(nfe)})
    \cup {<<"CST_CTE_AUSENTE", c.doc.id>> : c \in {x \in Regulares(cte) : ~x.doc.cstCte}}

Montar ==
    /\ fase = "MONTAGEM"
    /\ fase' = "PRONTA"
    /\ inconsistencias' = inconsistencias \cup Preflight \cup QueixasDeCst
          \cup {<<"CIAP_CADASTRO_0300_INCOMPLETO", b>> : b \in entrada.bens}
          \cup (IF entrada.bens # {} /\ ~entrada.homologado
                THEN {<<"BLOCO_G_LEIAUTE_PENDENTE", "EMPRESA">>} ELSE {})
    /\ UNCHANGED <<entrada, fila, atual, catalogos, nfe, cte, excluded, pending>>

EfdNext ==
    \/ Recusar \/ Abrir \/ Denegado \/ DocumentoImpedido \/ CteNaoEscriturado
    \/ SemParticipante \/ EscriturarCte \/ EscriturarNfe \/ PrepararItem \/ FecharNfe
    \/ CarregarInventario \/ Montar

EfdSpec == EfdInit /\ [][EfdNext]_efdVars

PodeGerar == fase = "PRONTA" /\ \A q \in inconsistencias : q[1] \in Avisos

-----------------------------------------------------------------------------
(* Properties *)

\* Types, and where each phase stands.
EfdTypeOK ==
    /\ fase \in {"INICIO", "RECUSADA", "DOCUMENTOS", "MONTAGEM", "PRONTA"}
    /\ atual # SemCodigo => fase = "DOCUMENTOS" /\ fila # <<>> /\ atual.doc = Head(fila)
    /\ fase \in {"MONTAGEM", "PRONTA"} => fila = <<>> /\ atual = SemCodigo
    /\ {excluded, pending} \subseteq Nat /\ pending <= excluded

\* Every code a register of blocks C, D, G or H refers to is declared in block 0,
\* and declared once, whatever the order and the spelling of the units, the
\* profile, the inventory and the codes stored by earlier months; a line of
\* H010 counts on the divergence of units having stopped the generation.
ReferenciasFecham ==
    /\ C100D100 \cup C113 \subseteq R0150
    /\ \A r \in C170 : r.item \in Codigos0200 /\ r.unidade \in R0190
    /\ \A r \in R0200 : r.unidade \in R0190 /\ r.conversoes \subseteq R0190
    /\ \A l \in H010 : /\ CodigoProprio(l) \in Codigos0200
                       /\ l.participante # "" => entrada.codigos[l.participante] \in R0150
                       /\ PodeGerar => l.unidade \in R0190
    /\ BlocoG \subseteq R0300
    /\ \A p, q \in DOMAIN participantes : participantes[p] = participantes[q] => p = q
    /\ \A x, y \in DOMAIN itensCatalogo :
          itensCatalogo[x].codigo = itensCatalogo[y].codigo => x = y

\* Two spellings never share the code of a unit: until the inventory brings the
\* registered names, the 0190 a C170 refers to bears the spelling of the item.
UnidadeFiel == fase = "DOCUMENTOS" => \A r \in C170 : unidades[r.unidade] = r.grafia

Lidos == {entrada.documentos[i] : i \in 1..(Len(entrada.documentos) - Len(fila))}
Incluidos == {n.doc : n \in nfe \cup cte}
\* classificarExclusao: the policy of FiscalPeriodSelectionService.
Elegivel(d) == d.situacao = "AUTORIZADA" /\ d.status = "ESCRITURADO" /\ d.integridade = "OK"

\* A file that may be generated leaves out no authorised document, the ones whose
\* other party is the client itself apart; what it holds beyond the policy of
\* eligibility is cancelled or a CT-e; and every document read is in the file,
\* counted as excluded, or a cancelled CT-e that never was in the books.
NadaSeOmite ==
    /\ PodeGerar => \A d \in Lidos :
          /\ d.situacao = "AUTORIZADA" =>
                d \in Incluidos \/ (ExigeParticipante(d) /\ d.outro = "CLIENTE")
          /\ d.situacao \in {"DENEGADA", "RESUMIDA"} => d \notin Incluidos
          /\ d \in Incluidos /\ ~Elegivel(d) => Cancelado(d) \/ d.tipo = "CTE"
    /\ fase \in {"DOCUMENTOS", "MONTAGEM", "PRONTA"} =>
          Cardinality(Lidos) = excluded + Cardinality(Incluidos)
             + Cardinality({d \in Lidos \ Incluidos :
                              Livre(d) /\ d.tipo = "CTE" /\ d.cte = "AUSENTE"})
=============================================================================
