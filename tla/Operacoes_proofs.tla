--------------------------- MODULE Operacoes_proofs ----------------------------
(***************************************************************************)
(* Proofs about MCOperacoes, for any number of requests, processes, assets *)
(* and deliveries and any bounds: the document and its XML, the            *)
(* consultations of SEFAZ, the deliveries of files, and the booking of a   *)
(* CT-e and its substitution. Ciap_proofs has those of the CIAP.           *)
(*                                                                         *)
(* The parts share no variable, so that a behaviour of MCOperacoes is one  *)
(* of each module (CincoPartes), and the invariant of a module holds of    *)
(* the whole. Each is the properties with what a request that is half-way  *)
(* through knows:                                                          *)
(*                                                                         *)
(*   DInv  what a request read of the document is still true of the row    *)
(*         when it writes, unless the row was deleted since; and only one  *)
(*         request is about to send a Ciência in the hour;                 *)
(*   CInv  every reservation still holds its slot, and the promises of a   *)
(*         process are a chain: there is an order of its calls in which    *)
(*         each awaits the one before it;                                  *)
(*   EInv  the first upload of a delivery is alone with it, and what was   *)
(*         uploaded is stored unless its removal was scheduled;            *)
(*   TInv  what a transaction that books one document of a pair sees of    *)
(*         the other, which no other transaction books meanwhile.          *)
(***************************************************************************)
EXTENDS MCOperacoes, Ciap_proofs

-----------------------------------------------------------------------------
(* A document and its XML. *)

(* The assumptions on the bounds. *)
LEMMA LimitesDoDocumento == D!DocumentoAssumption
BY OperacoesAssumption

(* The row: what CompletaTemXml and DecisaoPreservada say of it, an absent *)
(* row names no complete XML, and a note is never cancelled by its XML. *)
LinhaOK ==
  /\ D!CompletaTemXml
  /\ D!DecisaoPreservada
  /\ ~D!Existe(linha) => linha.chave = "resumo"
  /\ tipo = "NFE" => linha.situacao # "CANCELADA"

(* A request at a point, with what it holds: what it read is still true of *)
(* the row, unless the row was deleted since. *)
PedidoOK(ponto, l) ==
  /\ ponto \in {"dup_gravar", "completo_subir", "completo_gravar"} => tipo = "NFE"
  /\ ponto = "dup_gravar" /\ l.vista # "perdida" => D!Completa(linha)
  /\ ponto = "rep_gravar" /\ l.cfop # "nenhum" /\ l.vista = "valida" => l.cfop = linha.cfop
  /\ ponto = "cie_limpar" /\ l.vista # "perdida" => linha.manif # "SEM"
  /\ ponto = "man_registrar" => l.evento # "SEM"
  /\ tipo = "NFE" => l.conteudo = "A"

(* A request that reserved the Ciência of the row and has not sent it. *)
Enviando(p) == pcDocumento[p] = "cie_enviar" /\ D!Viva(p)

(* Only one such request at a time, none after one was sent in the hour,   *)
(* and none while the row could be reserved. *)
CienciaOK ==
  /\ D!CienciaUnica
  /\ linha.manif = "SEM" /\ ~linha.ciencia =>
       ciencias = 0 /\ \A p \in Pedidos : ~Enviando(p)
  /\ \A p \in Pedidos : Enviando(p) => ciencias = 0
  /\ \A p, q \in Pedidos : Enviando(p) /\ Enviando(q) => p = q

DInv ==
  /\ D!TypeOK
  /\ LinhaOK
  /\ \A p \in Pedidos : PedidoOK(pcDocumento[p], local[p])
  /\ CienciaOK

-----------------------------------------------------------------------------
(* The types of the fields, by name. *)
LEMMA CamposDoDocumento ==
  ASSUME D!TypeOK, NEW p \in Pedidos
  PROVE  /\ local[p] \in D!Local /\ pcDocumento[p] \in D!Pontos /\ linha \in D!Linha
         /\ D!Vazio \in D!Local /\ D!Ausente \in D!Linha
         /\ tipo \in {"NFE", "NFSE"}
         /\ D!ChaveDe(linha) \in {"nenhum", "resumo", "xml"}
BY LimitesDoDocumento DEF D!DocumentoAssumption, D!TypeOK, D!Vazio, D!Ausente, D!Local,
   D!Linha,
   D!Manifestacoes, D!ChaveDe

(* A step of p that leaves the row, what is known of it and the Ciências   *)
(* alone, and takes p to a point with what it then holds. *)
LEMMA PassoSemEscrita ==
  ASSUME DInv, NEW p \in Pedidos, tipo' = tipo, linha' = linha, ciencias' = ciencias,
         r2' \in [resumo : BOOLEAN, xml : {"nada", "A", "C"}],
         NEW ponto \in D!Pontos,
         pcDocumento' = [pcDocumento EXCEPT ![p] = ponto],
         NEW l \in D!Local, local' = [local EXCEPT ![p] = l],
         PedidoOK(ponto, l), ponto # "cie_enviar"
  PROVE  DInv'
<1>1. D!TypeOK'
  BY DEF DInv, D!TypeOK, D!Linha
<1>2. pcDocumento'[p] = ponto /\ local'[p] = l
  BY DEF DInv, D!TypeOK
<1>3. ASSUME NEW q \in Pedidos, q # p
      PROVE pcDocumento'[q] = pcDocumento[q] /\ local'[q] = local[q]
  BY <1>3 DEF DInv, D!TypeOK
<1>4. LinhaOK'
  BY DEF DInv, LinhaOK, D!CompletaTemXml, D!DecisaoPreservada, D!Existe, D!Completa
<1>5. ASSUME NEW q \in Pedidos PROVE PedidoOK(pcDocumento[q], local[q])'
  <2>1. CASE q = p
    BY <1>2, <2>1 DEF PedidoOK, D!Completa
  <2>2. CASE q # p
    BY <1>3, <2>2 DEF DInv, PedidoOK, D!Completa
  <2> QED
    BY <2>1, <2>2
<1>6. \A q \in Pedidos : Enviando(q)' => Enviando(q)
  BY <1>2, <1>3 DEF Enviando, D!Viva
<1>7. CienciaOK'
  BY <1>6 DEF DInv, CienciaOK, D!CienciaUnica
<1> QED
  BY <1>1, <1>4, <1>5, <1>7 DEF DInv

(* What a write of p makes of the others: nothing, or what they hold is    *)
(* older than the row, or the row is lost. *)
Alheios(p, v) ==
  \A q \in Pedidos \ {p} :
    /\ pcDocumento'[q] = pcDocumento[q]
    /\ local'[q] = IF v = "igual" \/ pcDocumento[q] = "ocioso" \/ local[q].vista = "perdida"
                   THEN local[q] ELSE [local[q] EXCEPT !.vista = v]

(* Where only one request moves, the others know what they knew. *)
LEMMA AlheiosDeGravar ==
  ASSUME DInv, NEW p \in Pedidos, NEW ponto \in D!Pontos,
         pcDocumento' = [pcDocumento EXCEPT ![p] = ponto],
         NEW l \in D!Local, local' = [local EXCEPT ![p] = l]
  PROVE  /\ Alheios(p, "igual") /\ pcDocumento'[p] = ponto /\ local'[p] = l
         /\ local' \in [Pedidos -> D!Local] /\ pcDocumento' \in [Pedidos -> D!Pontos]
BY DEF Alheios, DInv, D!TypeOK

(* The same, where what the others read becomes old. *)
LEMMA AlheiosDeItem ==
  ASSUME DInv, NEW p \in Pedidos, NEW ponto \in D!Pontos,
         pcDocumento' = [pcDocumento EXCEPT ![p] = ponto],
         NEW v \in {"mudou", "perdida"}, NEW l \in D!Local,
         local' = [D!Envelhecidos(p, v) EXCEPT ![p] = l]
  PROVE  /\ Alheios(p, v) /\ pcDocumento'[p] = ponto /\ local'[p] = l
         /\ local' \in [Pedidos -> D!Local] /\ pcDocumento' \in [Pedidos -> D!Pontos]
<1>1. local \in [Pedidos -> D!Local] /\ pcDocumento \in [Pedidos -> D!Pontos]
  BY DEF DInv, D!TypeOK
<1>2. ASSUME NEW q \in Pedidos \ {p}
      PROVE  local'[q] = IF pcDocumento[q] = "ocioso" \/ local[q].vista = "perdida"
                THEN local[q]
                         ELSE [local[q] EXCEPT !.vista = v]
  BY DEF D!Envelhecidos
<1>3. local'[p] = l
  BY DEF D!Envelhecidos
<1>4. \A q \in Pedidos : [local[q] EXCEPT !.vista = v] \in D!Local
  BY <1>1 DEF D!Local
<1>5. local' \in [Pedidos -> D!Local]
  <2>1. \A q \in Pedidos : local'[q] \in D!Local
    BY <1>1, <1>2, <1>3, <1>4
  <2>2. local' = [q \in Pedidos |-> local'[q]]
    BY DEF D!Envelhecidos
  <2> QED
    BY <2>1, <2>2
<1> QED
  BY <1>1, <1>2, <1>3, <1>5 DEF Alheios

(* A write that does not lose the row: it stays complete, keeps having a   *)
(* manifestation, and a change of its item is known to the others. *)
LEMMA PedidosDepoisDaEscrita ==
  ASSUME DInv, NEW p \in Pedidos, tipo' = tipo, NEW v \in {"igual", "mudou"},
         Alheios(p, v), D!Completa(linha) => D!Completa(linha'),
         linha.manif # "SEM" => linha'.manif # "SEM",
         v = "igual" => linha'.cfop = linha.cfop,
         PedidoOK(pcDocumento[p], local[p])'
  PROVE  /\ \A q \in Pedidos : PedidoOK(pcDocumento[q], local[q])'
         /\ \A q \in Pedidos \ {p} : Enviando(q)' => Enviando(q)
<1>1. ASSUME NEW q \in Pedidos \ {p}
      PROVE  /\ pcDocumento'[q] = pcDocumento[q]
             /\ local'[q].cfop = local[q].cfop /\ local'[q].evento = local[q].evento
             /\ local'[q].conteudo = local[q].conteudo
             /\ local'[q].vista # "perdida" => local[q].vista # "perdida"
             /\ local'[q].vista = "valida" => local[q].vista = "valida"
             /\ local'[q].vista = "valida" /\ pcDocumento[q] # "ocioso"
                   => linha'.cfop = linha.cfop
  <2>1. local[q] \in D!Local /\ pcDocumento'[q] = pcDocumento[q]
    BY DEF DInv, D!TypeOK, Alheios
  <2>2. CASE local'[q] = local[q]
    <3>1. pcDocumento[q] = "ocioso" \/ local[q].vista # "valida" \/ v = "igual"
      <4> SUFFICES ASSUME pcDocumento[q] # "ocioso", local[q].vista # "perdida", v # "igual"
                   PROVE  local[q].vista = "mudou"
        OBVIOUS
      <4>1. local'[q] = [local[q] EXCEPT !.vista = "mudou"]
        BY DEF Alheios
      <4>2. local'[q].vista = "mudou"
        BY <2>1, <4>1 DEF D!Local
      <4> QED
        BY <2>2, <4>2
    <3> QED
      BY <2>1, <2>2, <3>1
  <2>3. CASE local'[q] # local[q]
    <3>1. local'[q] = [local[q] EXCEPT !.vista = "mudou"] /\ local[q].vista # "perdida"
      BY <2>3 DEF Alheios
    <3> QED
      BY <2>1, <3>1 DEF D!Local
  <2> QED
    BY <2>2, <2>3
<1>2. ASSUME NEW q \in Pedidos PROVE PedidoOK(pcDocumento[q], local[q])'
  <2>1. CASE q = p
    BY <2>1
  <2>2. CASE q # p
    <3>1. PedidoOK(pcDocumento[q], local[q])
      BY DEF DInv
    <3> QED
      BY <1>1, <2>2, <3>1 DEF PedidoOK
  <2> QED
    BY <2>1, <2>2
<1>3. ASSUME NEW q \in Pedidos \ {p} PROVE Enviando(q)' => Enviando(q)
  BY <1>1 DEF Enviando, D!Viva
<1> QED
  BY <1>2, <1>3

(* A write of p that does not lose the row. *)
LEMMA EscritaDInv ==
  ASSUME DInv, NEW p \in Pedidos, tipo' = tipo, r2' = r2, ciencias' = ciencias,
         NEW v \in {"igual", "mudou"}, Alheios(p, v),
         local' \in [Pedidos -> D!Local], pcDocumento' \in [Pedidos -> D!Pontos],
         linha' \in D!Linha, LinhaOK', D!Completa(linha) => D!Completa(linha'),
         linha.manif # "SEM" => linha'.manif # "SEM",
         v = "igual" => linha'.cfop = linha.cfop,
         PedidoOK(pcDocumento[p], local[p])', pcDocumento'[p] # "cie_enviar",
         linha'.manif = "SEM" /\ ~linha'.ciencia => linha.manif = "SEM" /\ ~linha.ciencia
  PROVE  DInv'
<1>1. D!TypeOK'
  BY DEF DInv, D!TypeOK
<1>2. /\ \A q \in Pedidos : PedidoOK(pcDocumento[q], local[q])'
      /\ \A q \in Pedidos \ {p} : Enviando(q)' => Enviando(q)
  BY PedidosDepoisDaEscrita
<1>3. \A q \in Pedidos : Enviando(q)' => Enviando(q)
  BY <1>2 DEF Enviando
<1>4. CienciaOK'
  BY <1>3 DEF DInv, CienciaOK, D!CienciaUnica
<1> QED
  BY <1>1, <1>2, <1>4 DEF DInv

(* Going on with what is held, and ending. *)
LEMMA IrDInv ==
  ASSUME DInv, NEW p \in Pedidos, tipo' = tipo, linha' = linha, ciencias' = ciencias,
         r2' \in [resumo : BOOLEAN, xml : {"nada", "A", "C"}],
         NEW ponto \in D!Pontos \ {"cie_enviar"}, D!Ir(p, ponto), PedidoOK(ponto, local[p])
  PROVE  DInv'
<1>1. local' = [local EXCEPT ![p] = local[p]] /\ local[p] \in D!Local
  BY DEF D!Ir, DInv, D!TypeOK
<1> QED
  BY <1>1, PassoSemEscrita DEF D!Ir

(* An idle request knows nothing. *)
LEMMA VazioOK == \A p \in Pedidos : D!TypeOK => PedidoOK("ocioso", D!Vazio)
BY DEF PedidoOK, D!Vazio

(* A request ends without writing. *)
LEMMA EncerrarDInv ==
  ASSUME DInv, NEW p \in Pedidos, tipo' = tipo, ciencias' = ciencias,
         r2' \in [resumo : BOOLEAN, xml : {"nada", "A", "C"}],
         D!Gravar(p, linha)
  PROVE  DInv'
<1>1. PedidoOK("ocioso", D!Vazio) /\ D!Vazio \in D!Local /\ "ocioso" \in D!Pontos
  BY CamposDoDocumento DEF PedidoOK, D!Vazio, DInv, D!Pontos
<1> QED
  BY <1>1, PassoSemEscrita DEF D!Gravar, D!Encerrado

(* A write of the row that keeps what the others rely on. *)
LEMMA GravarDInv ==
  ASSUME DInv, NEW p \in Pedidos, tipo' = tipo, r2' = r2, ciencias' = ciencias,
         NEW l \in D!Linha, D!Gravar(p, l), LinhaOK', D!Completa(linha) => D!Completa(l),
         linha.manif # "SEM" => l.manif # "SEM", l.cfop = linha.cfop,
         l.manif = "SEM" /\ ~l.ciencia => linha.manif = "SEM" /\ ~linha.ciencia
  PROVE  DInv'
<1>1. D!Vazio \in D!Local /\ "ocioso" \in D!Pontos
  BY CamposDoDocumento DEF DInv, D!Pontos
<1>2. /\ Alheios(p, "igual") /\ pcDocumento'[p] = "ocioso" /\ local'[p] = D!Vazio
      /\ local' \in [Pedidos -> D!Local] /\ pcDocumento' \in [Pedidos -> D!Pontos]
  BY <1>1, AlheiosDeGravar DEF D!Gravar, D!Encerrado
<1>3. PedidoOK(pcDocumento[p], local[p])'
  BY <1>2 DEF PedidoOK, D!Vazio
<1> QED
  BY <1>2, <1>3, EscritaDInv DEF D!Gravar

(* The same of a write of the item. *)
LEMMA GravarItemDInv ==
  ASSUME DInv, NEW p \in Pedidos, tipo' = tipo, r2' = r2, ciencias' = ciencias,
         NEW l \in D!Linha, NEW ponto \in {"ocioso", "limpar_resumo"},
         D!GravarItem(p, l, ponto), LinhaOK', D!Completa(linha) => D!Completa(l),
         linha.manif # "SEM" => l.manif # "SEM",
         l.manif = "SEM" /\ ~l.ciencia => linha.manif = "SEM" /\ ~linha.ciencia
  PROVE  DInv'
<1>1. D!Vazio \in D!Local /\ ponto \in D!Pontos
  BY CamposDoDocumento DEF DInv, D!Pontos
<1>2. local' = [D!Envelhecidos(p, "mudou") EXCEPT ![p] = D!Vazio]
  BY DEF D!GravarItem, D!Envelhecidos
<1>3. /\ Alheios(p, "mudou") /\ pcDocumento'[p] = ponto /\ local'[p] = D!Vazio
      /\ local' \in [Pedidos -> D!Local] /\ pcDocumento' \in [Pedidos -> D!Pontos]
  BY <1>1, <1>2, AlheiosDeItem DEF D!GravarItem
<1>4. PedidoOK(pcDocumento[p], local[p])'
  BY <1>3 DEF PedidoOK, D!Vazio
<1> QED
  BY <1>3, <1>4, EscritaDInv DEF D!GravarItem

-----------------------------------------------------------------------------
(* The distribution. *)
LEMMA ResumoDInv ==
  ASSUME DInv, NEW p \in Pedidos,
         D!LerResumo(p) \/ D!SubirResumo(p) \/ D!GravarResumo(p) \/ D!FalharResumo(p)
  PROVE  DInv'
<1>t. D!TypeOK
  BY DEF DInv
<1>l. linha \in D!Linha /\ D!ChaveDe(linha) \in {"nenhum", "resumo", "xml"}
         /\ D!Vazio \in D!Local
  BY <1>t, CamposDoDocumento
<1>1. CASE D!LerResumo(p)
  <2>1. [D!Vazio EXCEPT !.chave = D!ChaveDe(linha)] \in D!Local
    BY <1>l DEF D!Local
  <2>2. PedidoOK("resumo_subir", [D!Vazio EXCEPT !.chave = D!ChaveDe(linha)])
    BY DEF PedidoOK, D!Vazio
  <2> QED
    BY <1>1, <1>t, <2>1, <2>2, PassoSemEscrita DEF D!LerResumo, D!Comecar, D!Pontos,
       D!TypeOK
<1>2. CASE D!SubirResumo(p)
  <2>1. PedidoOK("resumo_gravar", local[p])
    BY DEF DInv, PedidoOK
  <2> QED
    BY <1>2, <1>t, <2>1, IrDInv DEF D!SubirResumo, D!Pontos, D!TypeOK
<1>3. CASE D!GravarResumo(p)
  <2>1. /\ D!Resumida(linha) \in D!Linha
        /\ D!Completa(linha) => D!Resumida(linha) = linha
        /\ ~D!Completa(linha) => D!Resumida(linha) = [linha EXCEPT !.situacao = "RESUMIDA"]
    BY <1>l DEF D!Resumida, D!Linha
  <2>2. LinhaOK'
    BY <1>3, <1>l, <2>1
       DEF D!GravarResumo, D!Gravar, DInv, LinhaOK, D!CompletaTemXml, D!DecisaoPreservada,
           D!Existe, D!Completa, D!Linha
  <2> QED
    BY <1>3, <1>l, <2>1, <2>2, GravarDInv DEF D!GravarResumo, D!Linha
<1>4. CASE D!FalharResumo(p)
  BY <1>4, <1>t, EncerrarDInv DEF D!FalharResumo, D!TypeOK
<1> QED
  BY <1>1, <1>2, <1>3, <1>4

(* Every step of the distribution. *)
LEMMA DistribuirDInv ==
  ASSUME DInv, NEW p \in Pedidos, D!Distribuir(p)
  PROVE  DInv'
<1>t. D!TypeOK
  BY DEF DInv
<1>l. /\ linha \in D!Linha /\ D!ChaveDe(linha) \in {"nenhum", "resumo", "xml"}
      /\ D!Vazio \in D!Local /\ local[p] \in D!Local
  BY <1>t, CamposDoDocumento
<1>k. D!LidaCompleto \in D!Local /\ D!LidaCompleto.conteudo = "A"
  <2>1. (linha.manif \in {"SEM", "CONFIRMADA"}) \in BOOLEAN
    OBVIOUS
  <2> QED
    BY <1>l, <2>1 DEF D!LidaCompleto, D!Local, D!Vazio
<1>1. CASE D!LerCompleto(p)
  <2>1. CASE D!Comecar(p, "completo_subir", D!LidaCompleto)
    <3>1. PedidoOK("completo_subir", D!LidaCompleto)
      BY <1>1, <1>k DEF D!LerCompleto, PedidoOK
    <3> QED
      BY <1>1, <1>t, <1>k, <2>1, <3>1, PassoSemEscrita DEF D!LerCompleto, D!Comecar,
         D!Pontos, D!TypeOK
  <2>2. CASE D!Completa(linha) /\ D!Comecar(p, "dup_gravar", D!LidaCompleto)
    <3>1. PedidoOK("dup_gravar", D!LidaCompleto)
      BY <1>1, <1>k, <2>2 DEF D!LerCompleto, PedidoOK
    <3> QED
      BY <1>1, <1>t, <1>k, <2>2, <3>1, PassoSemEscrita DEF D!LerCompleto, D!Comecar,
         D!Pontos, D!TypeOK
  <2> QED
    BY <1>1, <2>1, <2>2 DEF D!LerCompleto
<1>2. CASE D!SubirCompleto(p)
  <2>1. PedidoOK("completo_gravar", local[p])
    BY <1>2 DEF DInv, PedidoOK, D!SubirCompleto
  <2> QED
    BY <1>2, <1>t, <2>1, IrDInv DEF D!SubirCompleto, D!Pontos, D!TypeOK
<1>3. CASE D!GravarDuplicado(p)
  <2> DEFINE r == [linha EXCEPT !.situacao = "AUTORIZADA", !.escriturado = local[p].permite]
             l == D!Reconciliada(r)
  <2>1. r \in D!Linha /\ r.itemManual = linha.itemManual
    BY <1>l DEF D!Linha, D!Local
  <2>2. /\ l \in D!Linha /\ l.situacao = "AUTORIZADA" /\ l.chave = linha.chave
        /\ l.manif = linha.manif /\ l.ciencia = linha.ciencia
        /\ l.itemManual = linha.itemManual
        /\ l.itemManual => l.cfop = linha.cfop
    BY <1>l, <2>1 DEF D!Reconciliada, D!Linha
  <2> HIDE DEF l
  <2>3. D!Completa(linha) /\ tipo = "NFE"
    BY <1>3 DEF D!GravarDuplicado, DInv, PedidoOK, D!Viva
  <2>4. linha' = l /\ D!GravarItem(p, l, "ocioso")
    BY <1>3 DEF D!GravarDuplicado, D!GravarItem, l
  <2>5. LinhaOK'
    BY <1>3, <2>2, <2>3, <2>4
       DEF D!GravarDuplicado, DInv, LinhaOK, D!CompletaTemXml, D!DecisaoPreservada,
           D!Existe, D!Completa
  <2> QED
    BY <1>3, <2>2, <2>4, <2>5, GravarItemDInv DEF D!GravarDuplicado, D!Completa
<1>4. CASE D!GravarCompleto(p)
  <2> DEFINE r == [linha EXCEPT !.situacao = "AUTORIZADA", !.chave = "xml",
                                !.manual = FALSE, !.escriturado = local[p].permite]
             l == D!Reconciliada(r)
  <2>1. r \in D!Linha /\ r.itemManual = linha.itemManual
    BY <1>l DEF D!Linha, D!Local
  <2>2. /\ l \in D!Linha /\ l.situacao = "AUTORIZADA" /\ l.chave = "xml"
        /\ l.manif = linha.manif /\ l.ciencia = linha.ciencia
        /\ l.itemManual = linha.itemManual
        /\ l.itemManual => l.cfop = linha.cfop
    BY <1>l, <2>1 DEF D!Reconciliada, D!Linha
  <2> HIDE DEF l
  <2>4. linha' = l /\ D!GravarItem(p, l, D!DepoisDeGravar(p))
    BY <1>4 DEF D!GravarCompleto, D!GravarItem, l
  <2>5. LinhaOK'
    BY <1>4, <2>2, <2>4
       DEF D!GravarCompleto, DInv, LinhaOK, D!CompletaTemXml, D!DecisaoPreservada,
           D!Existe, D!Completa
  <2>6. D!DepoisDeGravar(p) \in {"ocioso", "limpar_resumo"}
    BY DEF D!DepoisDeGravar
  <2> QED
    BY <1>4, <2>2, <2>4, <2>5, <2>6, GravarItemDInv DEF D!GravarCompleto, D!Completa
<1>5. CASE D!LimparResumo(p)
  BY <1>5, <1>t, EncerrarDInv DEF D!LimparResumo, D!TypeOK
<1> QED
  BY <1>1, <1>2, <1>3, <1>4, <1>5, ResumoDInv DEF D!Distribuir

-----------------------------------------------------------------------------
(* The import. *)
LEMMA ImportarDInv ==
  ASSUME DInv, NEW p \in Pedidos, D!Importar(p)
  PROVE  DInv'
<1>t. D!TypeOK
  BY DEF DInv
<1>l. /\ linha \in D!Linha /\ D!ChaveDe(linha) \in {"nenhum", "resumo", "xml"}
      /\ D!Vazio \in D!Local /\ local[p] \in D!Local
  BY <1>t, CamposDoDocumento
<1>1. CASE D!LerImportacao(p)
  <2>1. PICK c \in D!Conteudos :
          D!Comecar(p, IF D!Existe(linha) /\ linha.chave = "xml" THEN "imp_baixar"
             ELSE "imp_criar",
                  [D!Vazio EXCEPT !.chave = D!ChaveDe(linha), !.conteudo = c])
    BY <1>1 DEF D!LerImportacao
  <2> DEFINE l == [D!Vazio EXCEPT !.chave = D!ChaveDe(linha), !.conteudo = c]
             ponto == IF D!Existe(linha) /\ linha.chave = "xml" THEN "imp_baixar"
                ELSE "imp_criar"
  <2>2. l \in D!Local /\ l.conteudo = c /\ ponto \in D!Pontos \ {"cie_enviar"}
    BY <1>l DEF D!Local, D!Vazio, D!Conteudos, D!Pontos
  <2>3. PedidoOK(ponto, l)
    BY <2>2 DEF PedidoOK, D!Conteudos
  <2> HIDE DEF l, ponto
  <2>4. D!Comecar(p, ponto, l)
    BY <2>1 DEF l, ponto
  <2> QED
    BY <1>1, <1>t, <2>2, <2>3, <2>4, PassoSemEscrita DEF D!LerImportacao, D!Comecar,
       D!TypeOK
<1>2. CASE D!BaixarAnterior(p)
  <2> DEFINE l == [local[p] EXCEPT !.previo = r2.xml]
  <2>1. l \in D!Local
    BY <1>2, <1>l, <1>t DEF D!BaixarAnterior, D!Local, D!TypeOK
  <2>2. local' = [local EXCEPT ![p] = l]
    BY <1>2, <1>t DEF D!BaixarAnterior, D!TypeOK
  <2>3. PedidoOK("imp_sobrepor", l)
    BY <1>l DEF DInv, PedidoOK, D!Local
  <2> QED
    BY <1>2, <1>t, <2>1, <2>2, <2>3, PassoSemEscrita DEF D!BaixarAnterior, D!Pontos,
       D!TypeOK
<1>3. CASE D!EnviarXml(p)
  <2>1. PedidoOK("imp_gravar", local[p])
    BY DEF DInv, PedidoOK
  <2>2. r2' \in [resumo : BOOLEAN, xml : {"nada", "A", "C"}]
    BY <1>3, <1>t, <1>l DEF D!EnviarXml, D!TypeOK, D!Local
  <2> QED
    BY <1>3, <2>1, <2>2, IrDInv DEF D!EnviarXml, D!Pontos
<1>4. CASE D!GravarImportacao(p)
  <2> DEFINE c == local[p].conteudo
             r == [linha EXCEPT !.situacao = D!Situacao(c), !.chave = "xml",
                                !.manual = TRUE, !.escriturado = c = "A"]
             l == D!Importada(p)
  <2>1. /\ r \in D!Linha /\ r.itemManual = linha.itemManual
        /\ r.situacao \in {"AUTORIZADA", "CANCELADA"}
        /\ c = "A" => r.situacao = "AUTORIZADA"
    BY <1>l DEF D!Linha, D!Local, D!Situacao
  <2>2. /\ l \in D!Linha /\ l.situacao = r.situacao /\ l.chave = "xml"
        /\ l.manif = linha.manif /\ l.ciencia = linha.ciencia
        /\ l.itemManual = linha.itemManual
        /\ l.itemManual => l.cfop = linha.cfop
    <3>1. l = IF r.itemManual THEN r ELSE [r EXCEPT !.cfop = "motor"]
      BY DEF D!Importada, D!Reconciliada
    <3>2. /\ r.chave = "xml" /\ r.manif = linha.manif /\ r.ciencia = linha.ciencia
          /\ r.cfop = linha.cfop
      BY <1>l DEF D!Linha
    <3> HIDE DEF r, l
    <3> QED
      BY <2>1, <3>1, <3>2 DEF D!Linha
  <2>3. tipo = "NFE" => c = "A"
    BY DEF DInv, PedidoOK
  <2>4. linha' = l
    BY <1>4 DEF D!GravarImportacao, D!GravarItem
  <2> HIDE DEF l
  <2>5. LinhaOK'
    BY <1>4, <2>1, <2>2, <2>3, <2>4
       DEF D!GravarImportacao, DInv, LinhaOK, D!CompletaTemXml, D!DecisaoPreservada,
           D!Existe, D!Completa
  <2>6. CASE D!GravarItem(p, l, D!DepoisDeGravar(p))
    <3>1. D!DepoisDeGravar(p) \in {"ocioso", "limpar_resumo"}
      BY DEF D!DepoisDeGravar
    <3> QED
      BY <1>4, <2>1, <2>2, <2>5, <2>6, <3>1, GravarItemDInv DEF D!GravarImportacao,
         D!Completa
  <2>7. CASE /\ pcDocumento' = [pcDocumento EXCEPT ![p] = "imp_restaurar"]
             /\ local' = [D!Envelhecidos(p, "mudou") EXCEPT ![p] = local[p]]
    <3>1. /\ Alheios(p, "mudou") /\ pcDocumento'[p] = "imp_restaurar"
                /\ local'[p] = local[p]
          /\ local' \in [Pedidos -> D!Local] /\ pcDocumento' \in [Pedidos -> D!Pontos]
      BY <1>l, <2>7, AlheiosDeItem DEF D!Pontos
    <3>2. PedidoOK(pcDocumento[p], local[p])'
      BY <1>4, <3>1 DEF DInv, PedidoOK, D!GravarImportacao
    <3> QED
      BY <1>4, <2>1, <2>2, <2>4, <2>5, <3>1, <3>2, EscritaDInv DEF D!GravarImportacao,
         D!Completa
  <2> QED
    BY <1>4, <2>6, <2>7 DEF D!GravarImportacao, l
<1>5. CASE D!DesfazerImportacao(p)
  <2>1. CASE D!Ir(p, "imp_restaurar") /\ UNCHANGED <<linha, r2>>
    <3>1. PedidoOK("imp_restaurar", local[p])
      BY DEF DInv, PedidoOK
    <3> QED
      BY <1>5, <1>t, <2>1, <3>1, IrDInv DEF D!DesfazerImportacao, D!Pontos, D!TypeOK
  <2>2. CASE D!Desistir(p)
    BY <1>5, <1>t, <2>2, EncerrarDInv DEF D!DesfazerImportacao, D!Desistir, D!Gravar,
       D!TypeOK
  <2> QED
    BY <1>5, <2>1, <2>2 DEF D!DesfazerImportacao
<1>6. CASE D!RestaurarXml(p)
  <2>1. r2' \in [resumo : BOOLEAN, xml : {"nada", "A", "C"}]
    BY <1>6, <1>t, <1>l DEF D!RestaurarXml, D!TypeOK, D!Local
  <2> QED
    BY <1>6, <2>1, EncerrarDInv DEF D!RestaurarXml
<1> QED
  BY <1>1, <1>2, <1>3, <1>4, <1>5, <1>6 DEF D!Importar

-----------------------------------------------------------------------------
(* The manifestation. *)
LEMMA ManifestadaOK ==
  ASSUME DInv, NEW ev \in D!Manifestacoes \ {"SEM"}
  PROVE  LET l == D!Manifestada(linha, ev)
         IN  /\ l \in D!Linha /\ l.manif = ev /\ l.situacao = linha.situacao
             /\ l.chave = linha.chave /\ l.cfop = linha.cfop
             /\ l.itemManual = linha.itemManual /\ l.ciencia = linha.ciencia
<1>1. linha \in D!Linha /\ (ev = "CONFIRMADA" /\ linha.situacao = "AUTORIZADA") \in BOOLEAN
  BY DEF DInv, D!TypeOK
<1> QED
  BY <1>1 DEF D!Manifestada, D!Linha

(* Every step of the manifestation and of the automatic Ciência. *)
LEMMA ManifestarDInv ==
  ASSUME DInv, NEW p \in Pedidos, D!Manifestar(p)
  PROVE  DInv'
<1>t. D!TypeOK
  BY DEF DInv
<1>l. linha \in D!Linha /\ D!Vazio \in D!Local /\ local[p] \in D!Local
  BY <1>t, CamposDoDocumento
<1>1. CASE D!LerManifestacao(p)
  <2>1. PICK ev \in D!Manifestacoes \ {"SEM"} :
          D!Comecar(p, "man_registrar", [D!Vazio EXCEPT !.evento = ev])
    BY <1>1 DEF D!LerManifestacao
  <2>2. [D!Vazio EXCEPT !.evento = ev] \in D!Local
    BY <1>l DEF D!Local
  <2>3. PedidoOK("man_registrar", [D!Vazio EXCEPT !.evento = ev])
    BY DEF PedidoOK, D!Vazio
  <2> QED
    BY <1>1, <1>t, <2>1, <2>2, <2>3, PassoSemEscrita DEF D!LerManifestacao, D!Comecar,
       D!Pontos, D!TypeOK
<1>2. CASE D!RegistrarManifestacao(p)
  <2> DEFINE l == D!Manifestada(linha, local[p].evento)
  <2>1. local[p].evento \in D!Manifestacoes \ {"SEM"}
    BY <1>2, <1>l DEF D!RegistrarManifestacao, DInv, PedidoOK, D!Local
  <2>2. /\ l \in D!Linha /\ l.manif = local[p].evento /\ l.situacao = linha.situacao
        /\ l.chave = linha.chave /\ l.cfop = linha.cfop
        /\ l.itemManual = linha.itemManual
    BY <2>1, ManifestadaOK
  <2>3. linha' = l /\ D!Gravar(p, l)
    BY <1>2 DEF D!RegistrarManifestacao, D!Gravar
  <2> HIDE DEF l
  <2>4. LinhaOK'
    BY <1>2, <2>2, <2>3 DEF D!RegistrarManifestacao, DInv, LinhaOK, D!CompletaTemXml,
       D!DecisaoPreservada, D!Existe, D!Completa
  <2> QED
    BY <1>2, <2>1, <2>2, <2>3, <2>4, GravarDInv DEF D!RegistrarManifestacao, D!Completa
<1>3. CASE D!LerPendente(p)
  <2>1. PedidoOK("cie_reservar", D!Vazio)
    BY DEF PedidoOK, D!Vazio
  <2> QED
    BY <1>3, <1>t, <1>l, <2>1, PassoSemEscrita DEF D!LerPendente, D!Comecar, D!Pontos,
       D!TypeOK
<1>4. CASE D!ReservarCiencia(p)
  <2>1. /\ linha' \in D!Linha /\ linha'.ciencia /\ linha'.situacao = linha.situacao
        /\ linha'.chave = linha.chave /\ linha'.cfop = linha.cfop
        /\ linha'.itemManual = linha.itemManual /\ linha'.manif = linha.manif
    BY <1>4, <1>l DEF D!ReservarCiencia, D!Linha
  <2>2. local' = local /\ pcDocumento' = [pcDocumento EXCEPT ![p] = "cie_enviar"]
    BY <1>4 DEF D!ReservarCiencia, D!Ir
  <2>3. /\ pcDocumento' \in [Pedidos -> D!Pontos] /\ local' \in [Pedidos -> D!Local]
        /\ pcDocumento'[p] = "cie_enviar" /\ Alheios(p, "igual")
    BY <1>t, <2>2 DEF D!TypeOK, D!Pontos, Alheios
  <2>4. PedidoOK(pcDocumento[p], local[p])'
    BY <1>4, <2>2, <2>3 DEF DInv, PedidoOK, D!ReservarCiencia
  <2>5. LinhaOK'
    BY <1>4, <2>1 DEF D!ReservarCiencia, DInv, LinhaOK, D!CompletaTemXml,
       D!DecisaoPreservada, D!Existe, D!Completa
  <2>6. /\ \A q \in Pedidos : PedidoOK(pcDocumento[q], local[q])'
        /\ \A q \in Pedidos \ {p} : Enviando(q)' => Enviando(q)
    BY <1>4, <2>1, <2>3, <2>4, PedidosDepoisDaEscrita DEF D!ReservarCiencia, D!Completa
  <2>7. ciencias' = 0 /\ \A q \in Pedidos : ~Enviando(q)
    BY <1>4 DEF D!ReservarCiencia, D!Reserva, D!Pendente, DInv, CienciaOK
  <2>8. CienciaOK'
    BY <2>1, <2>6, <2>7 DEF CienciaOK, D!CienciaUnica
  <2> QED
    BY <1>4, <1>t, <2>1, <2>3, <2>5, <2>6, <2>8 DEF DInv, D!TypeOK, D!ReservarCiencia
<1>5. CASE D!EnviarCiencia(p)
  <2>1. local' = local /\ pcDocumento' = [pcDocumento EXCEPT ![p] = "cie_registrar"]
    BY <1>5 DEF D!EnviarCiencia, D!Ir
  <2>2. ciencias' \in 0 .. 2
    BY <1>5, <1>t DEF D!EnviarCiencia, D!TypeOK
  <2>3. D!TypeOK'
    BY <1>5, <1>t, <2>1, <2>2 DEF D!EnviarCiencia, D!TypeOK, D!Pontos, D!Linha
  <2>4. LinhaOK'
    BY <1>5 DEF D!EnviarCiencia, DInv, LinhaOK, D!CompletaTemXml, D!DecisaoPreservada,
       D!Existe, D!Completa
  <2>5. ASSUME NEW q \in Pedidos PROVE PedidoOK(pcDocumento[q], local[q])'
    <3>1. PedidoOK(pcDocumento[q], local[q]) /\ pcDocumento'[q] = (IF q = p
             THEN "cie_registrar" ELSE pcDocumento[q])
      BY <1>t, <2>1 DEF DInv, D!TypeOK
    <3> QED
      BY <1>5, <2>1, <3>1 DEF D!EnviarCiencia, PedidoOK, D!Completa
  <2>6. CienciaOK'
    <3>1. \A q \in Pedidos : Enviando(q)' => Enviando(q) /\ q # p
      BY <1>t, <2>1 DEF Enviando, D!Viva, D!TypeOK
    <3>2. CASE D!Viva(p)
      <4>1. Enviando(p)
        BY <1>5, <3>2 DEF Enviando, D!EnviarCiencia
      <4>2. ciencias = 0 /\ ciencias' = 1
        BY <1>5, <3>2, <4>1 DEF DInv, CienciaOK, D!EnviarCiencia
      <4>3. ~(linha'.manif = "SEM" /\ ~linha'.ciencia)
        BY <1>5, <4>1 DEF DInv, CienciaOK, D!EnviarCiencia
      <4>4. \A q \in Pedidos : ~Enviando(q)'
        BY <3>1, <4>1 DEF DInv, CienciaOK
      <4> QED
        BY <4>2, <4>3, <4>4 DEF CienciaOK, D!CienciaUnica
    <3>3. CASE ~D!Viva(p)
      <4>1. ciencias' = ciencias /\ linha' = linha
        BY <1>5, <3>3 DEF D!EnviarCiencia
      <4> QED
        BY <3>1, <4>1 DEF DInv, CienciaOK, D!CienciaUnica
    <3> QED
      BY <3>2, <3>3
  <2> QED
    BY <2>3, <2>4, <2>5, <2>6 DEF DInv
<1>6. CASE D!RegistrarCiencia(p)
  <2> DEFINE l == D!Manifestada(linha, "CIENCIA")
  <2>2. /\ l \in D!Linha /\ l.manif = "CIENCIA" /\ l.situacao = linha.situacao
        /\ l.chave = linha.chave /\ l.cfop = linha.cfop
        /\ l.itemManual = linha.itemManual
    BY ManifestadaOK DEF D!Manifestacoes
  <2>3. linha' = l /\ local' = local
           /\ pcDocumento' = [pcDocumento EXCEPT ![p] = "cie_limpar"]
    BY <1>6 DEF D!RegistrarCiencia, D!Ir
  <2> HIDE DEF l
  <2>4. LinhaOK'
    BY <1>6, <2>2, <2>3 DEF D!RegistrarCiencia, DInv, LinhaOK, D!CompletaTemXml,
       D!DecisaoPreservada, D!Existe, D!Completa
  <2>5. /\ pcDocumento' \in [Pedidos -> D!Pontos] /\ local' \in [Pedidos -> D!Local]
        /\ pcDocumento'[p] = "cie_limpar" /\ Alheios(p, "igual")
    BY <1>t, <2>3 DEF D!TypeOK, D!Pontos, Alheios
  <2>6. PedidoOK(pcDocumento[p], local[p])'
    BY <1>6, <2>2, <2>3, <2>5 DEF DInv, PedidoOK, D!RegistrarCiencia
  <2> QED
    BY <1>6, <2>2, <2>3, <2>4, <2>5, <2>6, EscritaDInv DEF D!RegistrarCiencia, D!Completa
<1>7. CASE D!LimparPrazo(p)
  <2> DEFINE l == [linha EXCEPT !.ciencia = FALSE]
  <2>2. /\ l \in D!Linha /\ l.manif = linha.manif /\ l.situacao = linha.situacao
        /\ l.chave = linha.chave /\ l.cfop = linha.cfop
        /\ l.itemManual = linha.itemManual
    BY <1>l DEF D!Linha
  <2>3. linha' = l /\ D!Gravar(p, l)
    BY <1>7 DEF D!LimparPrazo, D!Gravar
  <2> HIDE DEF l
  <2>4. LinhaOK'
    BY <1>7, <2>2, <2>3 DEF D!LimparPrazo, DInv, LinhaOK, D!CompletaTemXml,
       D!DecisaoPreservada, D!Existe, D!Completa
  <2>5. linha.manif # "SEM"
    BY <1>7 DEF D!LimparPrazo, DInv, PedidoOK, D!Viva
  <2> QED
    BY <1>7, <2>2, <2>3, <2>4, <2>5, GravarDInv DEF D!LimparPrazo, D!Completa
<1> QED
  BY <1>1, <1>2, <1>3, <1>4, <1>5, <1>6, <1>7 DEF D!Manifestar

-----------------------------------------------------------------------------
(* The bookkeeping and the deletion. *)
LEMMA EscriturarDInv ==
  ASSUME DInv, NEW p \in Pedidos, D!Escriturar(p)
  PROVE  DInv'
<1>t. D!TypeOK
  BY DEF DInv
<1>l. linha \in D!Linha /\ D!Vazio \in D!Local /\ local[p] \in D!Local
  BY <1>t, CamposDoDocumento
<1> DEFINE obtida == [D!Vazio EXCEPT !.situacao = linha.situacao]
<1>k. obtida \in D!Local /\ obtida.conteudo = "A" /\ obtida.cfop = "nenhum"
  BY <1>l DEF D!Local, D!Linha, D!Vazio
<1>1. CASE D!LerDocumentos(p)
  <2>1. PedidoOK("rep_itens", obtida)
    BY <1>k DEF PedidoOK
  <2> QED
    BY <1>1, <1>t, <1>k, <2>1, PassoSemEscrita DEF D!LerDocumentos, D!Comecar, D!Pontos,
       D!TypeOK
<1>2. CASE D!LerItens(p)
  <2> DEFINE l == [local[p] EXCEPT !.vista = "valida",
                                   !.cfop = IF D!Completa(linha) THEN linha.cfop
                                      ELSE "nenhum"]
  <2>1. /\ l \in D!Local /\ l.conteudo = local[p].conteudo
        /\ l.cfop # "nenhum" => l.cfop = linha.cfop
    BY <1>l DEF D!Local, D!Linha
  <2>2. local' = [local EXCEPT ![p] = l]
    BY <1>2, <1>t DEF D!LerItens, D!TypeOK
  <2> HIDE DEF l
  <2>3. PedidoOK("rep_gravar", l)
    BY <2>1 DEF DInv, PedidoOK
  <2> QED
    BY <1>2, <1>t, <2>1, <2>2, <2>3, PassoSemEscrita DEF D!LerItens, D!Pontos, D!TypeOK
<1>3. CASE D!Reprocessar(p)
  <2> DEFINE r == D!Reescriturada(p)
             l == [r EXCEPT !.cfop = local[p].cfop]
  <2>1. /\ r \in D!Linha /\ r.manif = linha.manif /\ r.situacao = linha.situacao
        /\ r.chave = linha.chave /\ r.cfop = linha.cfop /\ r.ciencia = linha.ciencia
        /\ r.itemManual = linha.itemManual
    BY <1>l DEF D!Reescriturada, D!Linha
  <2>2. CASE D!ComItens(p)
    <3>1. local[p].cfop = linha.cfop
      BY <1>3, <2>2 DEF D!Reprocessar, D!ComItens, DInv, PedidoOK
    <3>2. /\ l \in D!Linha /\ l.manif = linha.manif /\ l.situacao = linha.situacao
          /\ l.chave = linha.chave /\ l.cfop = linha.cfop /\ l.ciencia = linha.ciencia
          /\ l.itemManual = linha.itemManual
      BY <1>l, <2>1, <3>1 DEF D!Linha
    <3>3. linha' = l /\ D!GravarItem(p, l, "ocioso")
      BY <1>3, <2>2 DEF D!Reprocessar, D!GravarItem
    <3> HIDE DEF l
    <3>4. LinhaOK'
      BY <1>3, <3>2, <3>3 DEF D!Reprocessar, DInv, LinhaOK, D!CompletaTemXml,
         D!DecisaoPreservada, D!Existe, D!Completa
    <3> QED
      BY <1>3, <3>2, <3>3, <3>4, GravarItemDInv DEF D!Reprocessar, D!Completa
  <2>3. CASE ~D!ComItens(p)
    <3>1. linha' = r /\ D!Gravar(p, r)
      BY <1>3, <2>3 DEF D!Reprocessar, D!Gravar
    <3> HIDE DEF r
    <3>2. LinhaOK'
      BY <1>3, <2>1, <3>1 DEF D!Reprocessar, DInv, LinhaOK, D!CompletaTemXml,
         D!DecisaoPreservada, D!Existe, D!Completa
    <3> QED
      BY <1>3, <2>1, <3>1, <3>2, GravarDInv DEF D!Reprocessar, D!Completa
  <2> QED
    BY <2>2, <2>3
<1>4. CASE D!LerItemEditar(p)
  <2>1. PedidoOK("cfop_gravar", obtida)
    BY <1>k DEF PedidoOK
  <2> QED
    BY <1>4, <1>t, <1>k, <2>1, PassoSemEscrita DEF D!LerItemEditar, D!Comecar, D!Pontos,
       D!TypeOK
<1>5. CASE D!EditarCfop(p)
  <2> DEFINE l == [linha EXCEPT !.itemManual = TRUE, !.cfop = "humano",
                                !.escriturado = local[p].situacao = "AUTORIZADA"]
  <2>1. /\ l \in D!Linha /\ l.manif = linha.manif /\ l.situacao = linha.situacao
        /\ l.chave = linha.chave /\ l.cfop = "humano" /\ l.ciencia = linha.ciencia
    BY <1>l DEF D!Linha
  <2>2. linha' = l /\ D!GravarItem(p, l, "ocioso")
    BY <1>5 DEF D!EditarCfop, D!GravarItem
  <2> HIDE DEF l
  <2>3. LinhaOK'
    BY <1>5, <2>1, <2>2 DEF D!EditarCfop, DInv, LinhaOK, D!CompletaTemXml,
       D!DecisaoPreservada, D!Existe, D!Completa
  <2> QED
    BY <1>5, <2>1, <2>2, <2>3, GravarItemDInv DEF D!EditarCfop, D!Completa
<1>6. CASE D!DefinirDestinacao(p)
  <2> DEFINE l == [linha EXCEPT !.itemManual = FALSE, !.cfop = "motor",
                                !.escriturado = linha.situacao = "AUTORIZADA"]
  <2>1. /\ l \in D!Linha /\ l.manif = linha.manif /\ l.situacao = linha.situacao
        /\ l.chave = linha.chave /\ ~l.itemManual /\ l.ciencia = linha.ciencia
    BY <1>l DEF D!Linha
  <2>2. linha' = l /\ D!GravarItem(p, l, "ocioso")
    BY <1>6 DEF D!DefinirDestinacao, D!GravarItem
  <2> HIDE DEF l
  <2>3. LinhaOK'
    BY <1>6, <2>1, <2>2 DEF D!DefinirDestinacao, DInv, LinhaOK, D!CompletaTemXml,
       D!DecisaoPreservada, D!Existe, D!Completa
  <2> QED
    BY <1>6, <2>1, <2>2, <2>3, GravarItemDInv DEF D!DefinirDestinacao, D!Completa
<1> QED
  BY <1>1, <1>2, <1>3, <1>4, <1>5, <1>6 DEF D!Escriturar

(* The deletion: what others read of the row is lost. *)
LEMMA ExcluirDInv ==
  ASSUME DInv, NEW p \in Pedidos, D!ExcluirLinhas(p)
  PROVE  DInv'
<1>l. /\ linha \in D!Linha /\ D!Vazio \in D!Local /\ local[p] \in D!Local
            /\ D!Ausente \in D!Linha
      /\ local \in [Pedidos -> D!Local]
  BY CamposDoDocumento DEF DInv, D!TypeOK
<1> DEFINE l == [D!Vazio EXCEPT !.chave = linha.chave]
<1>1. l \in D!Local /\ l.conteudo = "A"
  BY <1>l DEF D!Local, D!Linha, D!Vazio
<1>2. local' = [D!Envelhecidos(p, "perdida") EXCEPT ![p] = l]
  BY DEF D!ExcluirLinhas, D!Envelhecidos
<1>3. /\ Alheios(p, "perdida") /\ pcDocumento'[p] = "exc_apagar" /\ local'[p] = l
      /\ local' \in [Pedidos -> D!Local] /\ pcDocumento' \in [Pedidos -> D!Pontos]
  BY <1>1, <1>2, AlheiosDeItem DEF D!ExcluirLinhas, D!Pontos
<1>4. D!TypeOK'
  BY <1>l, <1>3 DEF D!ExcluirLinhas, DInv, D!TypeOK
<1>5. LinhaOK'
  BY DEF D!ExcluirLinhas, D!Ausente, LinhaOK, D!CompletaTemXml, D!DecisaoPreservada,
     D!Existe, D!Completa
<1>6. ASSUME NEW q \in Pedidos \ {p}
      PROVE  /\ pcDocumento'[q] = "ocioso" \/ local'[q].vista = "perdida"
             /\ local'[q].evento = local[q].evento
             /\ local'[q].conteudo = local[q].conteudo
             /\ pcDocumento'[q] = pcDocumento[q]
  BY <1>l, <1>3 DEF Alheios, D!Local
<1>7. ASSUME NEW q \in Pedidos PROVE PedidoOK(pcDocumento[q], local[q])'
  <2>1. CASE q = p
    BY <1>1, <1>3, <2>1 DEF PedidoOK
  <2>2. CASE q # p
    <3>1. PedidoOK(pcDocumento[q], local[q])
      BY DEF DInv
    <3> QED
      BY <1>6, <2>2, <3>1 DEF PedidoOK, D!ExcluirLinhas
  <2> QED
    BY <2>1, <2>2
<1>8. \A q \in Pedidos : ~Enviando(q)'
  BY <1>3, <1>6 DEF Enviando, D!Viva
<1>9. CienciaOK'
  BY <1>8 DEF D!ExcluirLinhas, CienciaOK, D!CienciaUnica
<1> QED
  BY <1>4, <1>5, <1>7, <1>9 DEF DInv

(* The hour passes: another Ciência may be sent. *)
LEMMA PassarHoraDInv ==
  ASSUME DInv, D!PassarHora \/ UNCHANGED D!vars
  PROVE  DInv'
<1>1. CASE UNCHANGED D!vars
  BY <1>1 DEF D!vars, DInv, D!TypeOK, LinhaOK, D!CompletaTemXml, D!DecisaoPreservada,
     D!Existe,
     D!Completa, PedidoOK, CienciaOK, D!CienciaUnica, Enviando, D!Viva, D!Linha
<1>2. CASE D!PassarHora
  <2>1. /\ linha' \in D!Linha /\ linha'.situacao = linha.situacao
        /\ linha'.chave = linha.chave /\ linha'.cfop = linha.cfop
        /\ linha'.itemManual = linha.itemManual /\ linha'.manif = linha.manif
    BY <1>2 DEF D!PassarHora, DInv, D!TypeOK, D!Linha
  <2>2. tipo' = tipo /\ r2' = r2 /\ pcDocumento' = pcDocumento /\ local' = local
           /\ ciencias' = 0
    BY <1>2 DEF D!PassarHora
  <2>3. D!TypeOK'
    BY <2>1, <2>2 DEF DInv, D!TypeOK
  <2>4. LinhaOK'
    BY <2>1, <2>2 DEF DInv, LinhaOK, D!CompletaTemXml, D!DecisaoPreservada, D!Existe,
       D!Completa
  <2>5. \A q \in Pedidos : PedidoOK(pcDocumento[q], local[q])'
    BY <2>1, <2>2 DEF DInv, PedidoOK, D!Completa
  <2>6. CienciaOK'
    BY <1>2, <2>2 DEF D!PassarHora, CienciaOK, D!CienciaUnica, Enviando
  <2> QED
    BY <2>3, <2>4, <2>5, <2>6 DEF DInv
<1> QED
  BY <1>1, <1>2

(* Every step of the module. *)
LEMMA PassoDInv == DInv /\ [D!Next]_(D!vars) => DInv'
<1> SUFFICES ASSUME DInv, [D!Next]_(D!vars) PROVE DInv'
  OBVIOUS
<1>1. ASSUME NEW p \in Pedidos, D!ApagarObjetos(p) PROVE DInv'
  <2>1. r2' \in [resumo : BOOLEAN, xml : {"nada", "A", "C"}]
    BY <1>1 DEF D!ApagarObjetos, DInv, D!TypeOK
  <2> QED
    BY <1>1, <2>1, EncerrarDInv DEF D!ApagarObjetos
<1>2. ASSUME NEW p \in Pedidos, D!Falhar(p) PROVE DInv'
  BY <1>2, EncerrarDInv DEF D!Falhar, D!Desistir, D!Gravar, DInv, D!TypeOK
<1> QED
  BY <1>1, <1>2, DistribuirDInv, ImportarDInv, ManifestarDInv, EscriturarDInv, ExcluirDInv,
     PassarHoraDInv DEF D!Next

(* No row, nobody at work. *)
LEMMA InicioDInv == D!Init => DInv
<1> SUFFICES ASSUME D!Init PROVE DInv
  OBVIOUS
<1>1. D!TypeOK
  BY DEF D!Init, D!TypeOK, D!Ausente, D!Vazio, D!Linha, D!Local, D!Manifestacoes, D!Pontos
<1> QED
  BY <1>1 DEF D!Init, DInv, LinhaOK, D!CompletaTemXml, D!DecisaoPreservada, D!Existe,
     D!Completa,
     PedidoOK, CienciaOK, D!CienciaUnica, Enviando, D!Ausente, D!Vazio

(* A cancelled document is left as it is by every request, or goes. *)
LEMMA PassoCancelada ==
  DInv /\ [D!Next]_(D!vars) =>
    [linha.situacao = "CANCELADA" => linha'.situacao \in {"CANCELADA", "AUSENTE"}]_(D!vars)
<1> SUFFICES ASSUME DInv, D!Next, linha.situacao = "CANCELADA"
             PROVE  linha'.situacao \in {"CANCELADA", "AUSENTE"}
  BY DEF D!vars
<1>t. /\ tipo # "NFE" /\ linha \in D!Linha /\ linha' \in D!Linha
  <2>1. DInv'
    BY PassoDInv
  <2> QED
    BY <2>1 DEF DInv, D!TypeOK, LinhaOK
<1>1. ASSUME NEW p \in Pedidos, D!Distribuir(p) PROVE linha' = linha
  <2>1. D!Completa(linha)
    BY DEF D!Completa
  <2>2. pcDocumento[p] \notin {"dup_gravar", "completo_gravar"}
    BY <1>t DEF DInv, PedidoOK
  <2> QED
    BY <1>t, <1>1, <2>1, <2>2
       DEF D!Distribuir, D!LerResumo, D!SubirResumo, D!GravarResumo, D!FalharResumo,
           D!LerCompleto,
           D!GravarDuplicado, D!SubirCompleto, D!GravarCompleto, D!LimparResumo, D!Gravar,
           D!Resumida
<1>2. ASSUME NEW p \in Pedidos, D!Importar(p) PROVE linha'.situacao = "CANCELADA"
  <2>1. CASE D!GravarImportacao(p)
    <3>1. FALSE
      BY <1>t, <2>1 DEF D!GravarImportacao, D!Atualiza, D!Insere, D!Existe
    <3> QED
      BY <3>1
  <2>2. CASE ~D!GravarImportacao(p)
    BY <1>2, <2>2 DEF D!Importar, D!LerImportacao, D!BaixarAnterior, D!EnviarXml,
       D!DesfazerImportacao, D!RestaurarXml, D!Gravar, D!Desistir
  <2> QED
    BY <2>1, <2>2
<1>3. ASSUME NEW p \in Pedidos, D!Manifestar(p) PROVE linha'.situacao = "CANCELADA"
  BY <1>t, <1>3 DEF D!Manifestar, D!LerManifestacao, D!RegistrarManifestacao, D!LerPendente,
     D!ReservarCiencia, D!EnviarCiencia, D!RegistrarCiencia, D!LimparPrazo, D!Gravar,
     D!Manifestada, D!Linha
<1>4. ASSUME NEW p \in Pedidos, D!Escriturar(p) PROVE linha'.situacao = "CANCELADA"
  BY <1>t, <1>4 DEF D!Escriturar, D!LerDocumentos, D!LerItens, D!Reprocessar,
     D!LerItemEditar,
     D!EditarCfop, D!DefinirDestinacao, D!Gravar, D!GravarItem, D!Reescriturada, D!Linha
<1>5. ASSUME NEW p \in Pedidos, D!ExcluirLinhas(p) PROVE linha'.situacao = "AUSENTE"
  BY <1>5 DEF D!ExcluirLinhas, D!Ausente
<1>6. ASSUME NEW p \in Pedidos, D!ApagarObjetos(p) \/ D!Falhar(p) PROVE linha' = linha
  BY <1>6 DEF D!ApagarObjetos, D!Falhar, D!Gravar, D!Desistir
<1>7. CASE D!PassarHora
  BY <1>t, <1>7 DEF D!PassarHora, D!Linha
<1> QED
  BY <1>1, <1>2, <1>3, <1>4, <1>5, <1>6, <1>7 DEF D!Next

-----------------------------------------------------------------------------
(* The consultations of SEFAZ. *)

(* The assumptions on the bounds. *)
LEMMA LimitesConsulta == C!ConsultaAssumption
BY OperacoesAssumption

(* A call that waits or is in course. *)
EmChamada(r) == r.passo \in {"fila", "reservar", "chamada", "bloquear"}

Ativo(l) == EmChamada(lote[l])

(* Every reservation still holds its slot, and two of one slot are at      *)
(* least an hour apart. *)
ReservasOK ==
  /\ bloqueio = registrado
  /\ \A r \in reservas : r[1] <= agora /\ slots[r[2]] >= r[1] + Hora
  /\ \A r, s \in reservas :
       r[2] = s[2] /\ r # s => r[1] + Hora <= s[1] \/ s[1] + Hora <= r[1]

(* What a lot is at: with a call in course the key has no result yet; one  *)
(* that was told to stop is writing the block, or between keys with the    *)
(* brake on. *)
LoteOK(r) ==
  /\ EmChamada(r) \/ r.fase # "consulta" => r.feitas < MaxChaves
  /\ r.recusa = "dita" =>
       r.passo = "bloquear" \/ (r.passo = "chave" /\ r.freio /\ r.fase = "consulta")

(* The chain of promises: the order "o" in which the calls of each process *)
(* joined it. A call awaits the one just before it, the first awaits none, *)
(* and the entry of the process is the last. *)
Cadeia(o) ==
  /\ \A l \in Pedidos : lote[l].anterior # Nada =>
       /\ lote[l].passo = "fila" /\ Ativo(lote[l].anterior)
       /\ lote[lote[l].anterior].processo = lote[l].processo
       /\ o[lote[l].anterior] < o[l]
       /\ \A k \in Pedidos : Ativo(k) /\ lote[k].processo = lote[l].processo =>
            o[k] <= o[lote[l].anterior] \/ o[k] >= o[l]
  /\ \A l, k \in Pedidos : Ativo(l) /\ Ativo(k) /\ lote[l].processo = lote[k].processo =>
       /\ o[l] = o[k] => l = k
       /\ lote[l].anterior = Nada => o[l] <= o[k]
       /\ cauda[lote[l].processo] # Nada /\ o[l] <= o[cauda[lote[l].processo]]
  /\ \A n \in Nos : cauda[n] # Nada => Ativo(cauda[n]) /\ lote[cauda[n]].processo = n

(* The lots and the queues. *)
FilasOK ==
  /\ lote \in [Pedidos -> C!LoteDeChaves]
  /\ cauda \in [Nos -> Pedidos \cup {Nada}]
  /\ \A l \in Pedidos : LoteOK(lote[l])
  /\ \E o \in [Pedidos -> Nat] : Cadeia(o)

(* The rows, the clock and the synchronisation. *)
ControleOK ==
  /\ agora \in C!Instantes
  /\ slots \in [1 .. Limite -> C!Prazos]
  /\ bloqueio \in C!Prazos /\ legado \in C!Prazos /\ registrado \in C!Prazos
  /\ reservas \subseteq C!Instantes \X (1 .. Limite)
  /\ sinc \in C!Sinc
  /\ quedas \in 0 .. MaxQuedas
  /\ ReservasOK

CInv == FilasOK /\ ControleOK

-----------------------------------------------------------------------------
(* What follows from them. *)
LEMMA LimitesDaConsulta ==
  /\ Nos # {} /\ Nada \notin Pedidos
  /\ MaxChaves \in Nat /\ MaxChaves > 0 /\ Limite \in Nat /\ Limite > 0
  /\ Hora \in Nat /\ Hora > 0 /\ MaxTempo \in Nat /\ MaxQuedas \in Nat
BY LimitesConsulta DEF C!ConsultaAssumption

(* The types of the fields, by name. *)
LEMMA CamposDoLote ==
  ASSUME C!TypeOK, NEW l \in Pedidos
  PROVE  /\ lote[l] \in C!LoteDeChaves
         /\ lote[l].processo \in Nos /\ lote[l].passo \in C!Pontos
         /\ lote[l].anterior \in Pedidos \cup {Nada} /\ lote[l].freio \in BOOLEAN
         /\ lote[l].fase \in {"consulta", "evento", "xml"}
         /\ lote[l].retry \in C!Prazos /\ lote[l].feitas \in 0 .. MaxChaves
         /\ cauda[lote[l].processo] \in Pedidos \cup {Nada}
BY DEF C!TypeOK, C!LoteDeChaves

(* What a lot is before it starts and after it ends. *)
LEMMA EncerradoOK ==
  /\ C!Novo \in C!LoteDeChaves /\ C!Novo.passo = "ocioso"
  /\ C!Encerrado \in C!LoteDeChaves /\ C!Encerrado.passo = "fim"
  /\ LoteOK(C!Novo) /\ C!Novo.anterior = Nada
  /\ LoteOK(C!Encerrado) /\ C!Encerrado.anterior = Nada
<1>1. 0 \in C!Prazos /\ 0 \in 0 .. MaxChaves /\ (CHOOSE n \in Nos : TRUE) \in Nos
  BY LimitesDaConsulta DEF C!Prazos
<1>2. /\ C!Novo \in C!LoteDeChaves /\ C!Novo.passo = "ocioso" /\ C!Novo.anterior = Nada
      /\ C!Novo.fase = "consulta" /\ C!Novo.recusa = "nenhuma"
  BY <1>1 DEF C!Novo, C!LoteDeChaves, C!Pontos
<1>3. /\ C!Encerrado \in C!LoteDeChaves /\ C!Encerrado.passo = "fim"
      /\ C!Encerrado.anterior = Nada
      /\ C!Encerrado.fase = "consulta" /\ C!Encerrado.recusa = "nenhuma"
  BY <1>2 DEF C!Encerrado, C!LoteDeChaves, C!Pontos
<1> QED
  BY <1>2, <1>3 DEF LoteOK, EmChamada

(* A lot changes and its place in the chain does not. *)
LEMMA CadeiaNeutra ==
  ASSUME C!TypeOK, NEW o \in [Pedidos -> Nat], Cadeia(o), NEW l \in Pedidos, cauda' = cauda,
         \A m \in Pedidos \ {l} : lote'[m] = lote[m],
         Ativo(l)' <=> Ativo(l), lote'[l].anterior = lote[l].anterior,
         lote[l].anterior # Nada => lote'[l].passo = "fila",
         Ativo(l) => lote'[l].processo = lote[l].processo
  PROVE  Cadeia(o)'
<1>1. \A m \in Pedidos : /\ Ativo(m)' <=> Ativo(m)
                         /\ lote'[m].anterior = lote[m].anterior
                         /\ lote[m].anterior # Nada => lote'[m].passo = "fila"
                         /\ Ativo(m) => lote'[m].processo = lote[m].processo
  BY DEF Ativo, Cadeia
<1>2. \A m \in Pedidos : /\ lote[m].anterior \in Pedidos \cup {Nada}
                         /\ lote[m].processo \in Nos
                         /\ lote[m].passo = "fila" => Ativo(m)
  BY CamposDoLote DEF Ativo, EmChamada
<1>3. \A n \in Nos : cauda[n] \in Pedidos \cup {Nada}
  BY DEF C!TypeOK
<1> QED
  BY <1>1, <1>2, <1>3 DEF Cadeia

(* A lot that is at no call joins the chain of its process. *)
LEMMA CadeiaEntra ==
  ASSUME C!TypeOK, NEW o \in [Pedidos -> Nat], Cadeia(o), NEW l \in Pedidos, ~Ativo(l),
         \A m \in Pedidos \ {l} : lote'[m] = lote[m],
         lote'[l].passo = "fila", lote'[l].processo = lote[l].processo,
         lote'[l].anterior = cauda[lote[l].processo],
         cauda' = [cauda EXCEPT ![lote[l].processo] = l]
  PROVE  \E f \in [Pedidos -> Nat] : Cadeia(f)'
<1> DEFINE n == lote[l].processo
           t == cauda[n]
<1>1. n \in Nos /\ t \in Pedidos \cup {Nada} /\ lote[l].anterior = Nada
  BY CamposDoLote DEF Cadeia, Ativo, EmChamada
<1>e. PICK f \in [Pedidos -> Nat] : f = [o EXCEPT ![l] = IF t = Nada THEN 0 ELSE o[t] + 1]
  <2>1. (IF t = Nada THEN 0 ELSE o[t] + 1) \in Nat
    BY <1>1
  <2>2. [o EXCEPT ![l] = IF t = Nada THEN 0 ELSE o[t] + 1] \in [Pedidos -> Nat]
    BY <2>1
  <2> QED
    BY <2>2
<1>2. \A m \in Pedidos \ {l} : f[m] = o[m]
  BY <1>e
<1>3. Ativo(l)' /\ \A m \in Pedidos \ {l} : Ativo(m)' <=> Ativo(m)
  BY DEF Ativo, EmChamada
<1>4. \A m \in Pedidos : /\ lote[m].anterior \in Pedidos \cup {Nada}
                         /\ lote[m].processo \in Nos
                         /\ lote[m].passo = "fila" => Ativo(m)
  BY CamposDoLote DEF Ativo, EmChamada
<1>5. /\ t # Nada => Ativo(t) /\ lote[t].processo = n /\ t # l /\ f[l] = o[t] + 1
      /\ \A m \in Pedidos : Ativo(m) /\ lote[m].processo = n => t # Nada /\ o[m] <= o[t]
      /\ t = Nada => f[l] = 0
  BY <1>1, <1>e DEF Cadeia
<1>6. cauda'[n] = l /\ \A k \in Nos \ {n} : cauda'[k] = cauda[k]
  BY <1>1 DEF C!TypeOK
<1>7. Nada \notin Pedidos
  BY LimitesDaConsulta
<1>8. lote'[l].passo = "fila" /\ lote'[l].processo = n /\ lote'[l].anterior = t
  OBVIOUS
<1> HIDE DEF n, t
<1>a. \A m \in Pedidos : o[m] \in Nat /\ f[m] \in Nat
  BY <1>2
<1>9. ASSUME NEW m \in Pedidos, lote'[m].anterior # Nada
      PROVE  /\ lote'[m].passo = "fila" /\ EmChamada(lote'[lote'[m].anterior])
             /\ lote'[lote'[m].anterior].processo = lote'[m].processo
             /\ f[lote'[m].anterior] < f[m]
             /\ \A k \in Pedidos : Ativo(k)' /\ lote'[k].processo = lote'[m].processo =>
                  f[k] <= f[lote'[m].anterior] \/ f[k] >= f[m]
  <2>1. CASE m = l
    <3>1. t # Nada /\ t \in Pedidos \ {l} /\ f[t] = o[t] /\ lote'[t] = lote[t]
      BY <1>1, <1>2, <1>5, <1>8, <1>9, <2>1
    <3>2. \A k \in Pedidos : Ativo(k)' /\ lote'[k].processo = n => f[k] <= f[t]
             \/ f[k] >= f[l]
      BY <1>2, <1>3, <1>5, <1>a, <3>1
    <3> QED
      BY <1>3, <1>5, <1>8, <1>a, <2>1, <3>1, <3>2 DEF Ativo
  <2>2. CASE m # l
    <3> DEFINE w == lote[m].anterior
    <3>1. w \in Pedidos /\ w # l /\ lote'[m] = lote[m] /\ lote'[w] = lote[w]
      BY <1>4, <1>9, <2>2 DEF Cadeia
    <3>2. /\ lote[m].passo = "fila" /\ Ativo(w) /\ lote[w].processo = lote[m].processo
          /\ o[w] < o[m]
          /\ \A k \in Pedidos : Ativo(k) /\ lote[k].processo = lote[m].processo =>
               o[k] <= o[w] \/ o[k] >= o[m]
      BY <1>9, <2>2, <3>1 DEF Cadeia
    <3>3. f[w] = o[w] /\ f[m] = o[m]
      BY <1>2, <2>2, <3>1
    <3>4. lote[m].processo = n => f[l] >= f[m]
      <4>1. lote[m].processo = n => t \in Pedidos /\ o[m] <= o[t] /\ f[l] = o[t] + 1
        BY <1>1, <1>4, <1>5, <3>2
      <4> QED
        BY <1>a, <3>3, <4>1
    <3> QED
      BY <1>2, <1>3, <1>8, <2>2, <3>1, <3>2, <3>3, <3>4 DEF Ativo
  <2> QED
    BY <2>1, <2>2
<1>b. ASSUME NEW m \in Pedidos, NEW k \in Pedidos, Ativo(m)', Ativo(k)',
             lote'[m].processo = lote'[k].processo
      PROVE  /\ f[m] = f[k] => m = k
             /\ lote'[m].anterior = Nada => f[m] <= f[k]
             /\ cauda'[lote'[m].processo] # Nada
             /\ f[m] <= f[cauda'[lote'[m].processo]]
  <2>1. CASE lote'[m].processo = n
    <3>1. \A x \in {m, k} : x # l =>
            Ativo(x) /\ lote[x].processo = n /\ t # Nada /\ f[x] <= o[t] /\ f[l] = o[t] + 1
      BY <1>2, <1>3, <1>5, <1>b, <2>1
    <3>2. t # Nada => o[t] \in Nat
      BY <1>1, <1>a
    <3>3. m # l /\ k # l => /\ f[m] = f[k] => m = k
                            /\ lote'[m].anterior = Nada => f[m] <= f[k]
      <4>1. SUFFICES ASSUME m # l, k # l
                     PROVE  /\ f[m] = f[k] => m = k
                            /\ lote'[m].anterior = Nada => f[m] <= f[k]
        OBVIOUS
      <4>2. /\ lote'[m] = lote[m] /\ lote'[k] = lote[k] /\ Ativo(m) /\ Ativo(k)
            /\ f[m] = o[m] /\ f[k] = o[k]
        BY <1>2, <1>3, <1>b, <4>1
      <4>3. lote[m].processo = lote[k].processo
        BY <1>b, <4>2
      <4> QED
        BY <4>2, <4>3 DEF Cadeia
    <3>4. f[m] <= f[l]
      BY <1>a, <3>1, <3>2
    <3>5. f[m] = f[k] => m = k
      BY <1>a, <3>1, <3>2, <3>3
    <3>6. lote'[m].anterior = Nada => f[m] <= f[k]
      BY <1>a, <1>8, <3>1, <3>2, <3>3
    <3> QED
      BY <1>6, <1>7, <2>1, <3>4, <3>5, <3>6
  <2>2. CASE lote'[m].processo # n
    <3>1. m # l /\ k # l
      BY <1>8, <1>b, <2>2
    <3>2. lote[m].processo \in Nos \ {n}
      BY <1>4, <2>2, <3>1
    <3>3. cauda'[lote[m].processo] = cauda[lote[m].processo]
      BY <1>6, <3>2
    <3>4. /\ o[m] = o[k] => m = k
          /\ lote[m].anterior = Nada => o[m] <= o[k]
          /\ cauda[lote[m].processo] # Nada /\ o[m] <= o[cauda[lote[m].processo]]
      BY <1>3, <1>b, <3>1 DEF Cadeia
    <3>5. cauda[lote[m].processo] \in Pedidos \ {l}
      <4>1. cauda[lote[m].processo] \in Pedidos
        BY <3>2, <3>4 DEF C!TypeOK
      <4> QED
        BY <3>2, <3>4, <4>1 DEF Cadeia
    <3> QED
      BY <1>2, <3>1, <3>3, <3>4, <3>5
  <2> QED
    BY <2>1, <2>2
<1>c. ASSUME NEW k \in Nos, cauda'[k] # Nada
      PROVE  EmChamada(lote'[cauda'[k]]) /\ lote'[cauda'[k]].processo = k
  <2>1. CASE k = n
    BY <1>3, <1>6, <1>8, <2>1 DEF Ativo
  <2>2. CASE k # n
    <3>1. cauda'[k] = cauda[k] /\ cauda[k] \in Pedidos /\ Ativo(cauda[k])
             /\ lote[cauda[k]].processo = k
      BY <1>6, <1>c, <2>2 DEF Cadeia, C!TypeOK
    <3> QED
      BY <1>3, <3>1, <2>2 DEF Ativo
  <2> QED
    BY <2>1, <2>2
<1>d. Cadeia(f)'
  BY <1>9, <1>b, <1>c DEF Cadeia, Ativo
<1> QED
  BY <1>2, <1>d

(* The call in course of a lot ends. *)
LEMMA CadeiaSolta ==
  ASSUME C!TypeOK, NEW o \in [Pedidos -> Nat], Cadeia(o), NEW l \in Pedidos,
         Ativo(l), lote[l].anterior = Nada, NEW novo \in C!LoteDeChaves, ~EmChamada(novo),
         novo.anterior = Nada, C!Liberar(l, novo)
  PROVE  Cadeia(o)'
<1> DEFINE n == lote[l].processo
<1>1. /\ n \in Nos /\ Nada \notin Pedidos
      /\ cauda'[n] = IF cauda[n] = l THEN Nada ELSE cauda[n]
      /\ \A k \in Nos \ {n} : cauda'[k] = cauda[k]
  BY CamposDoLote, LimitesDaConsulta DEF C!Liberar, C!CaudaLiberada, C!TypeOK
<1>2. lote'[l] = novo /\ ~Ativo(l)' /\ lote'[l].anterior = Nada
  BY DEF C!Liberar, Ativo
<1>3. ASSUME NEW m \in Pedidos \ {l}
      PROVE  /\ Ativo(m)' <=> Ativo(m)
             /\ lote'[m].processo = lote[m].processo /\ lote'[m].passo = lote[m].passo
             /\ lote'[m].anterior =
                  IF lote[m].anterior = l THEN Nada ELSE lote[m].anterior
  <2>1. lote[m] \in C!LoteDeChaves
    BY CamposDoLote
  <2>2. lote'[m] = IF lote[m].anterior = l THEN [lote[m] EXCEPT !.anterior = Nada]
           ELSE lote[m]
    BY DEF C!Liberar
  <2> QED
    BY <2>1, <2>2 DEF Ativo, EmChamada, C!LoteDeChaves
<1>4. \A m \in Pedidos : /\ lote[m].anterior \in Pedidos \cup {Nada}
                         /\ lote[m].processo \in Nos /\ o[m] \in Nat
                         /\ cauda[lote[m].processo] \in Pedidos \cup {Nada}
                         /\ lote[m].passo = "fila" => Ativo(m)
  BY CamposDoLote DEF Ativo, EmChamada
<1>5. \A m \in Pedidos : Ativo(m) /\ lote[m].processo = n => o[l] <= o[m] /\ (o[m] = o[l]
         => m = l)
  BY DEF Cadeia
<1> HIDE DEF n
<1>6. n = lote[l].processo
  BY DEF n
<1>7. ASSUME NEW m \in Pedidos, lote'[m].anterior # Nada
      PROVE  /\ lote'[m].passo = "fila" /\ EmChamada(lote'[lote'[m].anterior])
             /\ lote'[lote'[m].anterior].processo = lote'[m].processo
             /\ o[lote'[m].anterior] < o[m]
             /\ \A k \in Pedidos : Ativo(k)' /\ lote'[k].processo = lote'[m].processo =>
                  o[k] <= o[lote'[m].anterior] \/ o[k] >= o[m]
  <2> DEFINE w == lote[m].anterior
  <2>1. m # l /\ w # l /\ lote'[m].anterior = w /\ w \in Pedidos
    BY <1>2, <1>3, <1>4, <1>7
  <2>2. /\ lote[m].passo = "fila" /\ Ativo(w)
        /\ lote[w].processo = lote[m].processo /\ o[w] < o[m]
        /\ \A k \in Pedidos : Ativo(k) /\ lote[k].processo = lote[m].processo =>
             o[k] <= o[w] \/ o[k] >= o[m]
    BY <1>7, <2>1 DEF Cadeia
  <2>3. \A k \in Pedidos : Ativo(k)' => k # l
    BY <1>2
  <2> QED
    BY <1>3, <2>1, <2>2, <2>3 DEF Ativo
<1>8. ASSUME NEW m \in Pedidos, NEW k \in Pedidos, Ativo(m)', Ativo(k)',
             lote'[m].processo = lote'[k].processo
      PROVE  /\ o[m] = o[k] => m = k
             /\ lote'[m].anterior = Nada => o[m] <= o[k]
             /\ cauda'[lote'[m].processo] # Nada
             /\ o[m] <= o[cauda'[lote'[m].processo]]
  <2>1. /\ m # l /\ k # l /\ Ativo(m) /\ Ativo(k) /\ lote[m].processo = lote[k].processo
        /\ lote'[m].processo = lote[m].processo
    BY <1>2, <1>3, <1>8
  <2>2. /\ o[m] = o[k] => m = k
        /\ lote[m].anterior = Nada => o[m] <= o[k]
        /\ cauda[lote[m].processo] # Nada /\ o[m] <= o[cauda[lote[m].processo]]
    BY <2>1 DEF Cadeia
  <2>3. lote[m].anterior = l => o[m] <= o[k]
    <3>1. SUFFICES ASSUME lote[m].anterior = l PROVE o[m] <= o[k]
      OBVIOUS
    <3>2. lote[m].processo = n /\ (o[k] <= o[l] \/ o[k] >= o[m])
      BY <1>1, <1>6, <2>1, <3>1 DEF Cadeia
    <3> QED
      <4>1. o[l] <= o[k] /\ (o[k] = o[l] => k = l)
        BY <1>5, <2>1, <3>2
      <4>2. o[l] \in Nat /\ o[m] \in Nat /\ o[k] \in Nat
        BY <1>4
      <4> QED
        BY <2>1, <3>2, <4>1, <4>2
  <2>4. lote'[m].anterior = Nada => o[m] <= o[k]
    BY <1>3, <2>1, <2>2, <2>3 DEF Ativo
  <2>5. cauda[lote[m].processo] = l => lote[m].processo = n
    BY <1>4, <1>6, <2>1 DEF Cadeia
  <2>6. cauda[lote[m].processo] # l
    BY <1>4, <1>5, <2>1, <2>2, <2>5
  <2>7. cauda'[lote[m].processo] = cauda[lote[m].processo]
    BY <1>1, <1>4, <2>6
  <2> QED
    BY <2>1, <2>2, <2>4, <2>7
<1>9. ASSUME NEW k \in Nos, cauda'[k] # Nada
      PROVE  EmChamada(lote'[cauda'[k]]) /\ lote'[cauda'[k]].processo = k
  <2>1. cauda'[k] = cauda[k] /\ (k = n => cauda[k] # l)
    BY <1>1, <1>9
  <2>2. cauda[k] \in Pedidos /\ Ativo(cauda[k]) /\ lote[cauda[k]].processo = k
    BY <1>9, <2>1 DEF Cadeia, C!TypeOK
  <2> QED
    BY <1>3, <1>6, <2>1, <2>2 DEF Ativo
<1> QED
  BY <1>7, <1>8, <1>9 DEF Cadeia, Ativo

(* A process dies. *)
LEMMA CadeiaCai ==
  ASSUME C!TypeOK, NEW o \in [Pedidos -> Nat], Cadeia(o), NEW n \in Nos, C!Queda(n)
  PROVE  Cadeia(o)'
<1>1. \A k \in Nos : cauda'[k] = IF k = n THEN Nada ELSE cauda[k]
  BY DEF C!Queda, C!TypeOK
<1>2. ASSUME NEW m \in Pedidos
      PROVE  /\ lote[m].processo = n => ~Ativo(m)' /\ lote'[m].anterior = Nada
             /\ lote[m].processo # n => lote'[m] = lote[m]
             /\ Ativo(m)' => Ativo(m) /\ lote[m].processo # n
  <2>1. lote[m] \in C!LoteDeChaves /\ (lote[m].passo = "ocioso" => lote[m].anterior = Nada)
    BY CamposDoLote DEF Cadeia
  <2>2. lote'[m] = IF lote[m].processo = n /\ lote[m].passo # "ocioso"
                   THEN C!Encerrado ELSE lote[m]
    BY DEF C!Queda
  <2>3. C!Encerrado.passo = "fim" /\ C!Encerrado.anterior = Nada
    BY EncerradoOK
  <2> QED
    BY <2>1, <2>2, <2>3 DEF Ativo, EmChamada
<1>3. \A m \in Pedidos : /\ lote[m].anterior \in Pedidos \cup {Nada}
                         /\ lote[m].processo \in Nos
                         /\ cauda[lote[m].processo] \in Pedidos \cup {Nada}
                         /\ lote[m].passo = "fila" => Ativo(m)
  BY CamposDoLote DEF Ativo, EmChamada
<1>4. \A k \in Nos : cauda[k] \in Pedidos \cup {Nada}
  BY DEF C!TypeOK
<1>5. \A m \in Pedidos : lote[m].processo # n => (Ativo(m)' <=> Ativo(m))
  BY <1>2 DEF Ativo
<1>6. ASSUME NEW m \in Pedidos, lote'[m].anterior # Nada
      PROVE  /\ lote'[m].passo = "fila" /\ EmChamada(lote'[lote'[m].anterior])
             /\ lote'[lote'[m].anterior].processo = lote'[m].processo
             /\ o[lote'[m].anterior] < o[m]
             /\ \A k \in Pedidos : Ativo(k)' /\ lote'[k].processo = lote'[m].processo =>
                  o[k] <= o[lote'[m].anterior] \/ o[k] >= o[m]
  <2>1. lote[m].processo # n /\ lote'[m] = lote[m] /\ lote[m].anterior \in Pedidos
    BY <1>2, <1>3, <1>6
  <2>2. /\ lote[m].passo = "fila" /\ Ativo(lote[m].anterior)
        /\ lote[lote[m].anterior].processo = lote[m].processo
        /\ o[lote[m].anterior] < o[m]
        /\ \A k \in Pedidos : Ativo(k) /\ lote[k].processo = lote[m].processo =>
             o[k] <= o[lote[m].anterior] \/ o[k] >= o[m]
    BY <1>6, <2>1 DEF Cadeia
  <2> QED
    BY <1>2, <1>5, <2>1, <2>2 DEF Ativo
<1>7. ASSUME NEW m \in Pedidos, NEW k \in Pedidos, Ativo(m)', Ativo(k)',
             lote'[m].processo = lote'[k].processo
      PROVE  /\ o[m] = o[k] => m = k
             /\ lote'[m].anterior = Nada => o[m] <= o[k]
             /\ cauda'[lote'[m].processo] # Nada
             /\ o[m] <= o[cauda'[lote'[m].processo]]
  <2>1. Ativo(m) /\ Ativo(k) /\ lote'[m] = lote[m] /\ lote'[k] = lote[k]
           /\ lote[m].processo # n
    BY <1>2, <1>7
  <2> QED
    BY <1>1, <1>3, <1>7, <2>1 DEF Cadeia
<1>8. ASSUME NEW k \in Nos, cauda'[k] # Nada
      PROVE  EmChamada(lote'[cauda'[k]]) /\ lote'[cauda'[k]].processo = k
  <2>1. k # n /\ cauda'[k] = cauda[k] /\ cauda[k] \in Pedidos
    BY <1>1, <1>4, <1>8
  <2>2. Ativo(cauda[k]) /\ lote[cauda[k]].processo = k
    BY <1>8, <2>1 DEF Cadeia
  <2> QED
    BY <1>2, <1>5, <2>1, <2>2 DEF Ativo
<1> QED
  BY <1>6, <1>7, <1>8 DEF Cadeia, Ativo

-----------------------------------------------------------------------------
(* The invariant gives the types. *)
LEMMA DaConsulta == CInv => C!TypeOK
BY DEF CInv, FilasOK, ControleOK, C!TypeOK

(* A step about the lots leaves the rows alone. *)
LEMMA SoLoteControle ==
  ASSUME ControleOK, C!SoLote PROVE ControleOK'
BY DEF ControleOK, C!SoLote, ReservasOK

(* A lot changes and its place in the chain does not. *)
LEMMA MudaLote ==
  ASSUME CInv, NEW l \in Pedidos, NEW novo \in C!LoteDeChaves, LoteOK(novo),
         lote' = [lote EXCEPT ![l] = novo], cauda' = cauda,
         EmChamada(novo) <=> Ativo(l), novo.anterior = lote[l].anterior,
         lote[l].anterior # Nada => novo.passo = "fila",
         Ativo(l) => novo.processo = lote[l].processo
  PROVE  FilasOK'
<1>1. lote'[l] = novo /\ \A m \in Pedidos \ {l} : lote'[m] = lote[m]
  BY DEF CInv, FilasOK
<1>2. PICK o \in [Pedidos -> Nat] : Cadeia(o)
  BY DEF CInv, FilasOK
<1>3. Cadeia(o)'
  BY <1>1, <1>2, DaConsulta, CadeiaNeutra DEF Ativo
<1>4. lote' \in [Pedidos -> C!LoteDeChaves] /\ cauda' \in [Nos -> Pedidos \cup {Nada}]
  BY DEF CInv, FilasOK
<1>5. \A m \in Pedidos : LoteOK(lote'[m])
  BY <1>1 DEF CInv, FilasOK
<1> QED
  BY <1>3, <1>4, <1>5 DEF FilasOK

(* A lot joins the chain of its process. *)
LEMMA EnfileirarOK ==
  ASSUME CInv, NEW l \in Pedidos, lote[l].passo = "chave", lote[l].recusa # "dita",
         lote[l].feitas < MaxChaves, NEW fase \in {"consulta", "evento", "xml"},
         C!Enfileirar(l, fase)
  PROVE  FilasOK'
<1> DEFINE n == lote[l].processo
           novo == [lote[l] EXCEPT !.passo = "fila", !.fase = fase, !.anterior = cauda[n]]
<1>1. C!TypeOK /\ n \in Nos /\ lote[l] \in C!LoteDeChaves /\ cauda[n] \in Pedidos
         \cup {Nada}
  BY DaConsulta, CamposDoLote
<1>2. lote' = [lote EXCEPT ![l] = novo] /\ cauda' = [cauda EXCEPT ![n] = l]
  BY <1>1 DEF C!Enfileirar, CInv, FilasOK
<1>3. /\ novo \in C!LoteDeChaves /\ novo.passo = "fila" /\ novo.processo = n
      /\ novo.anterior = cauda[n] /\ LoteOK(novo)
  BY <1>1 DEF C!LoteDeChaves, C!Pontos, LoteOK, EmChamada
<1> HIDE DEF novo
<1>4. lote'[l] = novo /\ \A m \in Pedidos \ {l} : lote'[m] = lote[m]
  BY <1>2 DEF CInv, FilasOK
<1>5. ~Ativo(l)
  BY DEF Ativo, EmChamada
<1>6. PICK o \in [Pedidos -> Nat] : Cadeia(o)
  BY DEF CInv, FilasOK
<1>7. \E f \in [Pedidos -> Nat] : Cadeia(f)'
  BY <1>1, <1>2, <1>3, <1>4, <1>5, <1>6, CadeiaEntra
<1>8. lote' \in [Pedidos -> C!LoteDeChaves] /\ cauda' \in [Nos -> Pedidos \cup {Nada}]
  BY <1>1, <1>2, <1>3 DEF CInv, FilasOK
<1>9. \A m \in Pedidos : LoteOK(lote'[m])
  BY <1>3, <1>4 DEF CInv, FilasOK
<1> QED
  BY <1>7, <1>8, <1>9 DEF FilasOK

(* A call in course ends and leaves its lot at "novo". *)
LEMMA LiberarOK ==
  ASSUME CInv, NEW l \in Pedidos, lote[l].passo \in {"reservar", "chamada", "bloquear"},
         NEW novo \in C!LoteDeChaves, LoteOK(novo), ~EmChamada(novo),
         novo.anterior = lote[l].anterior, C!Liberar(l, novo)
  PROVE  FilasOK'
<1>1. C!TypeOK
  BY DaConsulta
<1>2. PICK o \in [Pedidos -> Nat] : Cadeia(o)
  BY DEF CInv, FilasOK
<1>3. lote[l].anterior = Nada /\ Ativo(l)
  BY <1>2 DEF Cadeia, Ativo, EmChamada
<1>4. Cadeia(o)'
  BY <1>1, <1>2, <1>3, CadeiaSolta
<1>5. ASSUME NEW m \in Pedidos PROVE lote'[m] \in C!LoteDeChaves /\ LoteOK(lote'[m])
  <2>1. lote[m] \in C!LoteDeChaves /\ LoteOK(lote[m])
    BY DEF CInv, FilasOK
  <2>2. /\ [lote[m] EXCEPT !.anterior = Nada] \in C!LoteDeChaves
        /\ LoteOK([lote[m] EXCEPT !.anterior = Nada])
    BY <2>1 DEF C!LoteDeChaves, LoteOK, EmChamada
  <2>3. lote'[m] \in {novo, [lote[m] EXCEPT !.anterior = Nada], lote[m]}
    BY DEF C!Liberar
  <2> QED
    BY <2>1, <2>2, <2>3
<1>6. lote' \in [Pedidos -> C!LoteDeChaves]
  BY <1>5 DEF C!Liberar
<1>7. cauda' \in [Nos -> Pedidos \cup {Nada}]
  BY <1>1, CamposDoLote DEF C!Liberar, C!CaudaLiberada, CInv, FilasOK
<1> QED
  BY <1>4, <1>5, <1>6, <1>7 DEF FilasOK

(* A lot between keys, with the place in the chain that l has. *)
EntreChaves(l, novo) ==
  /\ novo \in C!LoteDeChaves /\ novo.passo = "chave" /\ ~EmChamada(novo)
  /\ novo.anterior = lote[l].anterior

Perdida(l) == [C!Anotado(l) EXCEPT !.recusa = "perdida"]

(* What a key with its result leaves. *)
LEMMA AnotadoOK ==
  ASSUME CInv, NEW l \in Pedidos, lote[l].feitas < MaxChaves
  PROVE  /\ EntreChaves(l, C!Anotado(l))
         /\ lote[l].recusa # "dita" => LoteOK(C!Anotado(l))
         /\ EntreChaves(l, C!Interrompido(l)) /\ LoteOK(C!Interrompido(l))
         /\ EntreChaves(l, C!Avisado(C!Interrompido(l)))
         /\ LoteOK(C!Avisado(C!Interrompido(l)))
         /\ EntreChaves(l, Perdida(l)) /\ LoteOK(Perdida(l))
<1>1. lote[l] \in C!LoteDeChaves /\ lote[l].feitas \in Nat /\ MaxChaves \in Nat
  BY DaConsulta, CamposDoLote, LimitesDaConsulta
<1>2. 0 \in C!Prazos
  BY LimitesDaConsulta DEF C!Prazos
<1>3. /\ C!Anotado(l) \in C!LoteDeChaves /\ C!Anotado(l).passo = "chave"
      /\ C!Anotado(l).fase = "consulta" /\ C!Anotado(l).anterior = lote[l].anterior
      /\ C!Anotado(l).recusa = lote[l].recusa
  <2>1. lote[l].feitas + 1 \in 0 .. MaxChaves
    BY <1>1
  <2> QED
    BY <1>1, <1>2, <2>1 DEF C!Anotado, C!LoteDeChaves, C!Pontos
<1>4. /\ C!Interrompido(l) \in C!LoteDeChaves /\ C!Interrompido(l).passo = "chave"
      /\ C!Interrompido(l).fase = "consulta" /\ C!Interrompido(l).freio
      /\ C!Interrompido(l).anterior = C!Anotado(l).anterior
  BY <1>3 DEF C!Interrompido, C!LoteDeChaves
<1> DEFINE aviso == C!Avisado(C!Interrompido(l))
<1>5. /\ aviso \in C!LoteDeChaves /\ aviso.passo = "chave"
      /\ aviso.fase = "consulta" /\ aviso.freio
      /\ aviso.anterior = C!Interrompido(l).anterior
  BY <1>4 DEF C!Avisado, C!LoteDeChaves
<1>6. /\ Perdida(l) \in C!LoteDeChaves /\ Perdida(l).passo = "chave"
      /\ Perdida(l).fase = "consulta" /\ Perdida(l).recusa = "perdida"
      /\ Perdida(l).anterior = C!Anotado(l).anterior
  BY <1>3 DEF Perdida, C!LoteDeChaves
<1> QED
  BY <1>3, <1>4, <1>5, <1>6 DEF LoteOK, EmChamada, EntreChaves

(* What the invariant says of one lot. *)
LEMMA EmCursoOK ==
  ASSUME CInv, NEW l \in Pedidos
  PROVE  /\ EmChamada(lote[l]) \/ lote[l].fase # "consulta" => lote[l].feitas < MaxChaves
         /\ lote[l].recusa = "dita" => lote[l].passo \in {"bloquear", "chave"}
         /\ lote[l].anterior # Nada => lote[l].passo = "fila"
BY DEF CInv, FilasOK, LoteOK, EmChamada, Cadeia

-----------------------------------------------------------------------------
(* The control. *)

(* Deadlines are numbers, and have a maximum. *)
LEMMA PrazosOK ==
  ASSUME ControleOK
  PROVE  /\ agora + Hora \in C!Prazos /\ agora \in Nat /\ 0 \in C!Prazos
         /\ \A x, y \in C!Prazos : C!Maior(x, y) \in C!Prazos /\ C!Maior(x, y) >= x
               /\ C!Maior(x, y) >= y
BY LimitesDaConsulta DEF ControleOK, C!Instantes, C!Prazos, C!Maior

(* A slot is taken when it is free. *)
LEMMA TomarOK ==
  ASSUME ControleOK, C!Livres # {}, C!Tomar,
         UNCHANGED <<agora, bloqueio, legado, registrado, sinc, quedas>>
  PROVE  ControleOK'
<1>1. C!Min(C!Livres) \in C!Livres
  <2>1. C!Livres \subseteq Nat
    BY LimitesDaConsulta DEF C!Livres
  <2>2. \E i \in C!Livres : \A j \in C!Livres : i <= j
    BY <2>1, MenorNumero
  <2> QED
    BY <2>2 DEF C!Min
<1>2. PICK i \in 1 .. Limite : i = C!Min(C!Livres) /\ slots[i] <= agora
  BY <1>1 DEF C!Livres
<1>3. slots' = [slots EXCEPT ![i] = agora + Hora] /\ reservas' = reservas
         \cup {<<agora, i>>}
  BY <1>2 DEF C!Tomar
<1>4. /\ slots \in [1 .. Limite -> C!Prazos] /\ agora \in C!Instantes /\ agora \in Nat
      /\ agora + Hora \in C!Prazos /\ Hora \in Nat /\ Hora > 0
      /\ \A j \in 1 .. Limite : slots[j] \in Nat
      /\ \A r \in reservas : r[1] \in Nat /\ r[2] \in 1 .. Limite
  <2>1. agora \in C!Instantes /\ slots \in [1 .. Limite -> C!Prazos]
           /\ C!Prazos \subseteq Nat
    BY LimitesDaConsulta DEF ControleOK, C!Prazos
  <2>2. \A r \in reservas : r[1] \in C!Instantes /\ r[2] \in 1 .. Limite
    BY DEF ControleOK
  <2>3. C!Instantes \subseteq Nat
    BY LimitesDaConsulta DEF C!Instantes
  <2> QED
    BY <2>1, <2>2, <2>3, PrazosOK, LimitesDaConsulta
<1>5. slots' \in [1 .. Limite -> C!Prazos]
         /\ reservas' \subseteq C!Instantes \X (1 .. Limite)
  BY <1>3, <1>4 DEF ControleOK
<1>6. ASSUME NEW r \in reservas' PROVE r[1] <= agora /\ slots'[r[2]] >= r[1] + Hora
  <2>1. CASE r \in reservas
    <3>1. r[1] <= agora /\ slots[r[2]] >= r[1] + Hora
      BY <2>1 DEF ControleOK, ReservasOK
    <3>2. CASE r[2] = i
      BY <1>3, <1>4, <2>1, <3>1, <3>2
    <3>3. CASE r[2] # i
      BY <1>3, <1>4, <2>1, <3>1, <3>3
    <3> QED
      BY <3>2, <3>3
  <2>2. CASE r = <<agora, i>>
    BY <1>3, <1>4, <2>2
  <2> QED
    BY <1>3, <2>1, <2>2
<1>7. ASSUME NEW r \in reservas, r[2] = i PROVE r[1] + Hora <= agora
  <2>1. slots[i] >= r[1] + Hora
    BY <1>7 DEF ControleOK, ReservasOK
  <2> QED
    BY <1>2, <1>4, <2>1
<1>8. ASSUME NEW r \in reservas', NEW s \in reservas', r[2] = s[2], r # s
      PROVE  r[1] + Hora <= s[1] \/ s[1] + Hora <= r[1]
  <2>1. CASE r \in reservas /\ s \in reservas
    BY <1>8, <2>1 DEF ControleOK, ReservasOK
  <2>2. CASE r \in reservas /\ s = <<agora, i>>
    BY <1>7, <1>8, <2>2
  <2>3. CASE r = <<agora, i>> /\ s \in reservas
    BY <1>7, <1>8, <2>3
  <2> QED
    BY <1>3, <1>8, <2>1, <2>2, <2>3
<1> QED
  BY <1>5, <1>6, <1>8 DEF ControleOK, ReservasOK

(* A suspension is recorded or extended. *)
LEMMA EstenderOK ==
  ASSUME ControleOK, NEW x \in C!Prazos, C!Estender(x),
         UNCHANGED <<agora, slots, legado, reservas, quedas>>, sinc' \in C!Sinc
  PROVE  ControleOK'
<1>1. bloqueio' \in C!Prazos /\ registrado' \in C!Prazos /\ bloqueio' = registrado'
  BY PrazosOK DEF ControleOK, ReservasOK, C!Estender
<1> QED
  BY <1>1 DEF ControleOK, ReservasOK

(* The clock goes forward. *)
LEMMA PassarOK ==
  ASSUME ControleOK, C!Passar PROVE ControleOK'
<1>1. agora' \in C!Instantes /\ agora' >= agora
  BY LimitesDaConsulta DEF ControleOK, C!Passar, C!Instantes
<1>2. agora \in Nat /\ agora' \in Nat /\ \A r \in reservas : r[1] \in Nat
  BY <1>1, LimitesDaConsulta DEF ControleOK, C!Instantes
<1>3. \A r \in reservas : r[1] <= agora'
  BY <1>1, <1>2 DEF ControleOK, ReservasOK
<1> QED
  BY <1>1, <1>3 DEF ControleOK, ReservasOK, C!Passar

-----------------------------------------------------------------------------
(* The steps. *)

(* A lot starts. *)
LEMMA IniciarCInv ==
  ASSUME CInv, NEW l \in Pedidos, C!Iniciar(l) PROVE CInv'
<1>1. ControleOK'
  BY SoLoteControle DEF CInv, C!Iniciar
<1>2. PICK n \in Nos : lote' = [lote EXCEPT ![l].passo = "chave", ![l].processo = n]
  BY DEF C!Iniciar
<1> DEFINE novo == [lote[l] EXCEPT !.passo = "chave", !.processo = n]
<1>3. lote[l] \in C!LoteDeChaves /\ lote[l].passo = "ocioso" /\ cauda' = cauda
  BY DaConsulta, CamposDoLote DEF C!Iniciar
<1>4. lote' = [lote EXCEPT ![l] = novo]
  BY <1>2 DEF CInv, FilasOK
<1>5. /\ novo \in C!LoteDeChaves /\ novo.passo = "chave" /\ novo.anterior = lote[l].anterior
      /\ novo.fase = lote[l].fase /\ novo.feitas = lote[l].feitas
      /\ novo.recusa = lote[l].recusa
  BY <1>3 DEF C!LoteDeChaves, C!Pontos
<1> HIDE DEF novo
<1>6. LoteOK(novo) /\ ~EmChamada(novo) /\ ~Ativo(l) /\ lote[l].anterior = Nada
  BY <1>3, <1>5, EmCursoOK DEF LoteOK, EmChamada, Ativo
<1>7. FilasOK'
  BY <1>3, <1>4, <1>5, <1>6, MudaLote
<1> QED
  BY <1>1, <1>7 DEF CInv

(* The next key joins the chain of its process. *)
LEMMA ProximaChaveCInv ==
  ASSUME CInv, NEW l \in Pedidos, C!ProximaChave(l) PROVE CInv'
<1>1. ControleOK' /\ lote[l].passo = "chave" /\ lote[l].fase = "consulta"
  BY SoLoteControle DEF CInv, C!ProximaChave
<1>2. /\ lote[l] \in C!LoteDeChaves /\ ~Ativo(l) /\ lote[l].anterior = Nada
            /\ LoteOK(lote[l])
      /\ lote \in [Pedidos -> C!LoteDeChaves]
  BY <1>1, DaConsulta, CamposDoLote, EmCursoOK DEF Ativo, EmChamada, CInv, FilasOK
<1>3. CASE lote' = [lote EXCEPT ![l] = C!Encerrado] /\ cauda' = cauda
  <2>1. ~EmChamada(C!Encerrado)
    BY EncerradoOK DEF EmChamada
  <2>2. FilasOK'
    BY <1>2, <1>3, <2>1, EncerradoOK, MudaLote
  <2> QED
    BY <1>1, <2>2 DEF CInv
<1>4. CASE /\ lote[l].feitas < MaxChaves /\ cauda' = cauda
           /\ lote' = [lote EXCEPT ![l] = C!Anotado(l)]
  <2>1. lote[l].feitas \in Nat /\ MaxChaves \in Nat
    BY DaConsulta, CamposDoLote, LimitesDaConsulta
  <2>2. 0 \in C!Prazos
    BY LimitesDaConsulta DEF C!Prazos
  <2>3. /\ C!Anotado(l) \in C!LoteDeChaves /\ C!Anotado(l).passo = "chave"
        /\ C!Anotado(l).fase = "consulta" /\ C!Anotado(l).anterior = lote[l].anterior
        /\ C!Anotado(l).recusa = lote[l].recusa /\ C!Anotado(l).freio = lote[l].freio
    <3>1. lote[l].feitas + 1 \in 0 .. MaxChaves
      BY <1>2, <1>4, <2>1 DEF C!LoteDeChaves
    <3> QED
      BY <1>2, <2>2, <3>1 DEF C!Anotado, C!LoteDeChaves, C!Pontos
  <2>4. LoteOK(C!Anotado(l)) /\ ~EmChamada(C!Anotado(l))
    BY <1>1, <1>2, <2>3 DEF LoteOK, EmChamada
  <2>5. FilasOK'
    BY <1>2, <1>4, <2>3, <2>4, MudaLote
  <2> QED
    BY <1>1, <2>5 DEF CInv
<1>5. CASE lote[l].feitas < MaxChaves /\ ~lote[l].freio /\ C!Enfileirar(l, "consulta")
  <2>1. lote[l].recusa # "dita"
    BY <1>1, <1>2, <1>5 DEF LoteOK
  <2>2. FilasOK'
    BY <1>1, <1>5, <2>1, EnfileirarOK
  <2> QED
    BY <1>1, <2>2 DEF CInv
<1> QED
  BY <1>3, <1>4, <1>5 DEF C!ProximaChave

(* A call ends and leaves the chain. *)
LEMMA ContinuarCInv ==
  ASSUME CInv, NEW l \in Pedidos, C!Continuar(l) PROVE CInv'
<1>1. ControleOK' /\ lote[l].passo = "chave" /\ lote[l].fase # "consulta"
  BY SoLoteControle DEF CInv, C!Continuar
<1>2. lote[l].feitas < MaxChaves /\ lote[l].recusa # "dita"
  BY <1>1 DEF CInv, FilasOK, LoteOK
<1>3. lote[l].fase \in {"consulta", "evento", "xml"}
  BY DaConsulta, CamposDoLote
<1>4. FilasOK'
  BY <1>1, <1>2, <1>3, EnfileirarOK DEF C!Continuar
<1> QED
  BY <1>1, <1>4 DEF CInv

(* A lot in a call goes to another point of it. *)
LEMMA PontoDaChamada ==
  ASSUME CInv, NEW l \in Pedidos, Ativo(l), lote[l].anterior = Nada,
         NEW ponto \in {"reservar", "chamada", "bloquear"}, NEW x \in C!Prazos,
         NEW y \in {"nenhuma", "dita", "perdida"}, y = "dita" => ponto = "bloquear",
         lote' = [lote EXCEPT ![l] =
                    [lote[l] EXCEPT !.passo = ponto, !.retry = x, !.recusa = y]],
         cauda' = cauda
  PROVE  FilasOK'
<1> DEFINE novo == [lote[l] EXCEPT !.passo = ponto, !.retry = x, !.recusa = y]
<1>1. lote[l] \in C!LoteDeChaves /\ LoteOK(lote[l])
  BY DEF CInv, FilasOK
<1>2. /\ novo \in C!LoteDeChaves /\ novo.passo = ponto /\ novo.anterior = lote[l].anterior
      /\ novo.fase = lote[l].fase /\ novo.feitas = lote[l].feitas
      /\ novo.recusa = y /\ novo.processo = lote[l].processo
  BY <1>1 DEF C!LoteDeChaves, C!Pontos
<1>3. lote' = [lote EXCEPT ![l] = novo]
  OBVIOUS
<1> HIDE DEF novo
<1>4. LoteOK(novo) /\ EmChamada(novo)
  BY <1>1, <1>2 DEF LoteOK, EmChamada, Ativo
<1> QED
  BY <1>2, <1>3, <1>4, MudaLote

(* The promise before it was resolved. *)
LEMMA EntrarCInv ==
  ASSUME CInv, NEW l \in Pedidos, C!Entrar(l) PROVE CInv'
<1>1. ControleOK' /\ Ativo(l) /\ lote[l].anterior = Nada /\ cauda' = cauda
  BY SoLoteControle DEF CInv, C!Entrar, Ativo, EmChamada
<1>2. PICK ponto \in {"reservar", "chamada", "bloquear"} :
        lote' = [lote EXCEPT ![l].passo = ponto]
  BY DEF C!Entrar
<1>3. /\ lote[l] \in C!LoteDeChaves /\ lote[l].retry \in C!Prazos
      /\ lote[l].recusa \in {"nenhuma", "dita", "perdida"} /\ lote[l].recusa # "dita"
  BY DaConsulta, CamposDoLote, EmCursoOK DEF C!LoteDeChaves, C!Entrar
<1>4. lote' = [lote EXCEPT ![l] = [lote[l] EXCEPT !.passo = ponto, !.retry = lote[l].retry,
                                                 !.recusa = lote[l].recusa]]
  BY <1>2, <1>3 DEF CInv, FilasOK, C!LoteDeChaves
<1>5. FilasOK'
  BY <1>1, <1>3, <1>4, PontoDaChamada
<1> QED
  BY <1>1, <1>5 DEF CInv

(* A slot is free and is taken. *)
LEMMA ReservarCInv ==
  ASSUME CInv, NEW l \in Pedidos, C!Reservar(l) PROVE CInv'
<1>1. ControleOK'
  BY TomarOK DEF CInv, C!Reservar
<1>2. Ativo(l) /\ lote[l].anterior = Nada /\ cauda' = cauda
  BY EmCursoOK DEF C!Reservar, Ativo, EmChamada
<1>3. /\ lote[l] \in C!LoteDeChaves /\ lote[l].retry \in C!Prazos
      /\ lote[l].recusa \in {"nenhuma", "dita", "perdida"} /\ lote[l].recusa # "dita"
  BY DaConsulta, CamposDoLote, EmCursoOK DEF C!LoteDeChaves, C!Reservar
<1>4. lote' = [lote EXCEPT ![l] =
                 [lote[l] EXCEPT !.passo = "chamada", !.retry = lote[l].retry,
                                 !.recusa = lote[l].recusa]]
  BY <1>3 DEF C!Reservar, CInv, FilasOK, C!LoteDeChaves
<1>5. FilasOK'
  BY <1>2, <1>3, <1>4, PontoDaChamada
<1> QED
  BY <1>1, <1>5 DEF CInv

(* The answer that asks to stop. *)
LEMMA Responder656CInv ==
  ASSUME CInv, NEW l \in Pedidos, C!Responder656(l) PROVE CInv'
<1>1. ControleOK' /\ Ativo(l) /\ lote[l].anterior = Nada /\ cauda' = cauda
  BY SoLoteControle, EmCursoOK DEF CInv, C!Responder656, Ativo, EmChamada
<1>2. agora + Hora \in C!Prazos
  BY PrazosOK DEF CInv
<1>3. lote' = [lote EXCEPT ![l] =
                 [lote[l] EXCEPT !.passo = "bloquear", !.retry = agora + Hora,
                                 !.recusa = "dita"]]
  BY DEF C!Responder656, C!Avisado, CInv, FilasOK
<1>4. FilasOK'
  BY <1>1, <1>2, <1>3, PontoDaChamada
<1> QED
  BY <1>1, <1>4 DEF CInv

(* No slot is free: the lot is told when to come back. *)
LEMMA RecusarReservaCInv ==
  ASSUME CInv, NEW l \in Pedidos, C!RecusarReserva(l) PROVE CInv'
<1>1. lote[l].feitas < MaxChaves
  BY EmCursoOK DEF C!RecusarReserva, EmChamada
<1>2. C!Liberar(l, C!Avisado(C!Interrompido(l))) /\ lote[l].passo = "reservar"
  BY DEF C!RecusarReserva, C!Adiado
<1>3. FilasOK'
  BY <1>1, <1>2, AnotadoOK, LiberarOK DEF EntreChaves
<1> QED
  BY <1>3, SoLoteControle DEF CInv, C!RecusarReserva

(* Any other answer. *)
LEMMA ResponderCInv ==
  ASSUME CInv, NEW l \in Pedidos, C!Responder(l) PROVE CInv'
<1>1. /\ lote[l].feitas < MaxChaves /\ lote[l].recusa # "dita"
      /\ lote[l].passo = "chamada"
  BY EmCursoOK DEF C!Responder, EmChamada
<1>2. ASSUME C!Liberar(l, C!Anotado(l)) PROVE FilasOK'
  BY <1>1, <1>2, AnotadoOK, LiberarOK DEF EntreChaves
<1>3. ASSUME NEW fase \in {"evento", "xml"},
             C!Liberar(l, [lote[l] EXCEPT !.passo = "chave", !.fase = fase])
      PROVE  FilasOK'
  <2> DEFINE novo == [lote[l] EXCEPT !.passo = "chave", !.fase = fase]
  <2>1. lote[l] \in C!LoteDeChaves
    BY DaConsulta, CamposDoLote
  <2>2. /\ novo \in C!LoteDeChaves /\ novo.passo = "chave"
              /\ novo.anterior = lote[l].anterior
        /\ novo.feitas = lote[l].feitas /\ novo.recusa = lote[l].recusa
    BY <2>1 DEF C!LoteDeChaves, C!Pontos
  <2>3. C!Liberar(l, novo)
    BY <1>3
  <2> HIDE DEF novo
  <2>4. LoteOK(novo) /\ ~EmChamada(novo)
    BY <1>1, <2>2 DEF LoteOK, EmChamada
  <2> QED
    BY <1>1, <2>2, <2>3, <2>4, LiberarOK
<1>4. FilasOK'
  <2>0. C!Liberar(l, C!Anotado(l)) \/ C!Liberar(l, [lote[l] EXCEPT
          !.passo = "chave", !.fase = IF @ = "evento" THEN "xml" ELSE "evento"])
    BY DEF C!Responder
  <2>1. CASE lote[l].fase = "evento"
    <3>1. [lote[l] EXCEPT !.passo = "chave", !.fase = IF @ = "evento" THEN "xml"
             ELSE "evento"]
            = [lote[l] EXCEPT !.passo = "chave", !.fase = "xml"]
      BY <2>1
    <3> QED
      BY <1>2, <1>3, <2>0, <3>1
  <2>2. CASE lote[l].fase # "evento"
    <3>1. [lote[l] EXCEPT !.passo = "chave", !.fase = IF @ = "evento" THEN "xml"
             ELSE "evento"]
            = [lote[l] EXCEPT !.passo = "chave", !.fase = "evento"]
      BY <2>2
    <3> QED
      BY <1>2, <1>3, <2>0, <3>1
  <2> QED
    BY <2>1, <2>2
<1> QED
  BY <1>4, SoLoteControle DEF CInv, C!Responder

(* The suspension is recorded. *)
LEMMA GravarBloqueioCInv ==
  ASSUME CInv, NEW l \in Pedidos, C!GravarBloqueio(l) PROVE CInv'
<1>1. lote[l].feitas < MaxChaves /\ lote[l].retry \in C!Prazos
  BY EmCursoOK, DaConsulta, CamposDoLote DEF C!GravarBloqueio, EmChamada
<1>2. FilasOK'
  BY <1>1, AnotadoOK, LiberarOK DEF C!GravarBloqueio, C!Adiado, EntreChaves
<1>3. ControleOK'
  BY <1>1, EstenderOK DEF C!GravarBloqueio, CInv, ControleOK
<1> QED
  BY <1>2, <1>3 DEF CInv

(* A call that fails leaves the chain as one that ends. *)
LEMMA FalharCInv ==
  ASSUME CInv, NEW l \in Pedidos, C!Falhar(l) PROVE CInv'
<1>1. /\ lote[l].feitas < MaxChaves
      /\ lote[l].passo \in {"reservar", "chamada", "bloquear"}
      /\ lote[l].passo # "bloquear" => lote[l].recusa # "dita"
  BY EmCursoOK DEF C!Falhar, EmChamada
<1>2. \/ C!Liberar(l, C!Avisado(C!Interrompido(l)))
      \/ C!Liberar(l, Perdida(l))
      \/ lote[l].passo # "bloquear" /\ C!Liberar(l, C!Anotado(l))
  BY DEF C!Falhar, Perdida
<1>3. FilasOK'
  BY <1>1, <1>2, AnotadoOK, LiberarOK DEF EntreChaves
<1> QED
  BY <1>3, SoLoteControle DEF CInv, C!Falhar

(* A process falls: its calls and its chain are gone. *)
LEMMA QuedaCInv ==
  ASSUME CInv, NEW n \in Nos, C!Queda(n) PROVE CInv'
<1>1. PICK o \in [Pedidos -> Nat] : Cadeia(o)
  BY DEF CInv, FilasOK
<1>2. Cadeia(o)'
  BY <1>1, DaConsulta, CadeiaCai
<1>3. ASSUME NEW m \in Pedidos PROVE lote'[m] \in C!LoteDeChaves /\ LoteOK(lote'[m])
  <2>1. lote[m] \in C!LoteDeChaves /\ LoteOK(lote[m])
    BY DEF CInv, FilasOK
  <2>2. lote'[m] \in {C!Encerrado, lote[m]}
    BY DEF C!Queda
  <2> QED
    BY <2>1, <2>2, EncerradoOK
<1>4. lote' \in [Pedidos -> C!LoteDeChaves]
  BY <1>3 DEF C!Queda
<1>5. cauda' \in [Nos -> Pedidos \cup {Nada}]
  BY DEF C!Queda, CInv, FilasOK
<1>6. FilasOK'
  BY <1>2, <1>3, <1>4, <1>5 DEF FilasOK
<1>7. quedas' \in 0 .. MaxQuedas
  <2>1. quedas \in 0 .. MaxQuedas /\ quedas < MaxQuedas /\ quedas' = quedas + 1
    BY DEF C!Queda, CInv, ControleOK
  <2> QED
    BY <2>1, LimitesDaConsulta
<1>8. ControleOK'
  BY <1>7 DEF C!Queda, CInv, ControleOK, ReservasOK
<1> QED
  BY <1>6, <1>8 DEF CInv

(* The steps of the synchronisation. *)
LEMMA SincCInv ==
  ASSUME CInv, C!SincReservar \/ C!SincResponder \/ C!SincBloquear PROVE CInv'
<1>1. FilasOK'
  BY DEF CInv, FilasOK, Cadeia, Ativo, C!SincReservar, C!SincResponder, C!SincBloquear
<1>2. agora + Hora \in C!Prazos /\ 0 \in C!Prazos /\ sinc \in C!Sinc /\ ControleOK
  BY PrazosOK DEF CInv, ControleOK
<1>3. CASE C!SincReservar
  <2>1. sinc' \in C!Sinc
    BY <1>2, <1>3 DEF C!SincReservar, C!Sinc
  <2> QED
    BY <1>1, <1>2, <1>3, <2>1 DEF CInv, ControleOK, ReservasOK, C!SincReservar
<1>4. CASE C!SincResponder
  <2>1. sinc' \in C!Sinc
    BY <1>2, <1>4 DEF C!SincResponder, C!Sinc
  <2> QED
    BY <1>1, <1>2, <1>4, <2>1 DEF CInv, ControleOK, ReservasOK, C!SincResponder
<1>5. CASE C!SincBloquear
  <2>1. sinc' \in C!Sinc /\ sinc.retry \in C!Prazos
    BY <1>2, <1>5 DEF C!SincBloquear, C!Sinc
  <2> QED
    BY <1>1, <1>2, <1>5, <2>1, EstenderOK DEF CInv, C!SincBloquear
<1> QED
  BY <1>3, <1>4, <1>5

(* Every step of the module. *)
LEMMA PassoCInv ==
  CInv /\ [C!Next]_(C!vars) => CInv'
<1> SUFFICES ASSUME CInv, [C!Next]_(C!vars) PROVE CInv'
  OBVIOUS
<1>1. CASE C!Passar
  <2>1. FilasOK'
    BY <1>1 DEF CInv, FilasOK, Cadeia, Ativo, C!Passar
  <2> QED
    BY <1>1, <2>1, PassarOK DEF CInv
<1>2. ASSUME NEW l \in Pedidos, C!Iniciar(l) \/ C!Passo(l) PROVE CInv'
  BY <1>2, IniciarCInv, ProximaChaveCInv, ContinuarCInv, EntrarCInv, ReservarCInv,
     RecusarReservaCInv, ResponderCInv, Responder656CInv, GravarBloqueioCInv, FalharCInv
     DEF C!Passo
<1>3. ASSUME NEW n \in Nos, C!Queda(n) PROVE CInv'
  BY <1>3, QuedaCInv
<1>4. CASE UNCHANGED C!vars
  BY <1>4 DEF CInv, FilasOK, ControleOK, ReservasOK, Cadeia, Ativo, C!vars
<1> QED
  BY <1>1, <1>2, <1>3, <1>4, SincCInv DEF C!Next

(* Free slots, no lot, empty chains. *)
LEMMA InicioCInv ==
  C!Init => CInv
<1> SUFFICES ASSUME C!Init PROVE CInv
  OBVIOUS
<1>1. 0 \in C!Prazos /\ 1 \in C!Prazos /\ 0 \in C!Instantes
  BY LimitesDaConsulta DEF C!Prazos, C!Instantes
<1>3. ASSUME NEW l \in Pedidos
      PROVE  /\ lote[l] \in C!LoteDeChaves /\ LoteOK(lote[l]) /\ ~Ativo(l)
             /\ lote[l].anterior = Nada
  BY EncerradoOK DEF C!Init, EmChamada, Ativo
<1>4. lote \in [Pedidos -> C!LoteDeChaves] /\ cauda \in [Nos -> Pedidos \cup {Nada}]
  BY <1>3 DEF C!Init
<1>5. [l \in Pedidos |-> 0] \in [Pedidos -> Nat]
  OBVIOUS
<1>6. Cadeia([l \in Pedidos |-> 0])
  BY <1>3 DEF Cadeia, C!Init
<1>7. FilasOK
  BY <1>3, <1>4, <1>5, <1>6 DEF FilasOK
<1>8. ControleOK
  BY <1>1, LimitesDaConsulta DEF C!Init, ControleOK, ReservasOK, C!Sinc
<1> QED
  BY <1>7, <1>8 DEF CInv

-----------------------------------------------------------------------------
(* The properties of the control and of the chain. *)

(* Slots an hour apart make at most Limite reservations in an hour. *)
LEMMA JanelaDaConsulta ==
  ASSUME CInv PROVE C!JanelaRespeitada
<1> SUFFICES ASSUME NEW t \in C!Instantes
             PROVE  Cardinality({r \in reservas : t <= r[1] /\ r[1] < t + Hora}) <= Limite
  <2>1. ASSUME NEW S PROVE C!Cardinality(S) = Cardinality(S)
    BY DEF C!Cardinality, Cardinality, C!IsFiniteSet, IsFiniteSet
  <2> QED
    BY <2>1 DEF C!JanelaRespeitada
<1> DEFINE W == {r \in reservas : t <= r[1] /\ r[1] < t + Hora}
           f == [r \in W |-> r[2]]
<1>1. \A r \in W : r[1] \in Nat /\ r[2] \in 1 .. Limite /\ r \in reservas
  BY LimitesDaConsulta DEF CInv, ControleOK, C!Instantes
<1>2. ASSUME NEW r \in W, NEW s \in W, f[r] = f[s] PROVE r = s
  <2>1. r[2] = s[2]
    BY <1>2
  <2>2. r # s => r[1] + Hora <= s[1] \/ s[1] + Hora <= r[1]
    BY <1>1, <2>1 DEF CInv, ControleOK, ReservasOK
  <2>3. t \in Nat /\ Hora \in Nat
    BY LimitesDaConsulta DEF C!Instantes
  <2> QED
    BY <1>1, <2>2, <2>3
<1>3. f \in Injection(W, 1 .. Limite)
  BY <1>1, <1>2 DEF Injection, IsInjective
<1>4. IsFiniteSet(1 .. Limite) /\ Cardinality(1 .. Limite) = Limite
  BY LimitesDaConsulta, FS_Interval
<1>5. Cardinality(W) <= Cardinality(1 .. Limite)
  BY <1>3, <1>4, FS_Injection
<1> QED
  BY <1>4, <1>5

(* The chain gives one call at a time and a first that awaits nobody. *)
LEMMA CadeiaDaConsulta ==
  ASSUME CInv PROVE C!UmaChamadaPorProcesso /\ C!EsperaViva
<1>1. PICK o \in [Pedidos -> Nat] : Cadeia(o)
  BY DEF CInv, FilasOK
<1>2. \A l \in Pedidos : o[l] \in Nat /\ lote[l].anterior \in Pedidos \cup {Nada}
  BY DaConsulta, CamposDoLote
<1>3. ASSUME NEW l \in Pedidos, NEW m \in Pedidos,
             lote[l].passo \in {"reservar", "chamada", "bloquear"},
             lote[m].passo \in {"reservar", "chamada", "bloquear"},
             lote[l].processo = lote[m].processo
      PROVE  l = m
  <2>1. Ativo(l) /\ Ativo(m) /\ lote[l].anterior = Nada /\ lote[m].anterior = Nada
    BY <1>3, EmCursoOK DEF Ativo, EmChamada
  <2>2. o[l] <= o[m] /\ o[m] <= o[l] /\ (o[l] = o[m] => l = m)
    BY <1>1, <1>3, <2>1 DEF Cadeia
  <2> QED
    BY <1>2, <2>2
<1>4. C!EsperaViva
  BY <1>1, <1>2 DEF Cadeia, C!EsperaViva, Ativo, EmChamada
<1> QED
  BY <1>3, <1>4 DEF C!UmaChamadaPorProcesso

(* No step reserves before the recorded suspension ends, and none calls    *)
(* for a lot that was told to stop. *)
LEMMA PassoSuspensao ==
  ASSUME CInv, [C!Next]_(C!vars)
  PROVE  /\ (reservas' # reservas \/ (sinc.passo = "ocioso" /\ sinc'.passo = "chamada"))
              => agora >= registrado
         /\ \A l \in Pedidos : lote[l].recusa = "dita" => C!Parado(lote'[l])
<1>0. bloqueio = registrado /\ bloqueio \in Nat /\ legado \in Nat /\ agora \in Nat
  BY LimitesDaConsulta DEF CInv, ControleOK, ReservasOK, C!Prazos, C!Instantes
<1>1. ~C!Suspenso => agora >= registrado
  BY <1>0 DEF C!Suspenso, C!Maior
<1>2. (reservas' # reservas \/ (sinc.passo = "ocioso" /\ sinc'.passo = "chamada"))
         => ~C!Suspenso
  BY DEF C!Next, C!Passo, C!vars, C!Passar, C!Iniciar, C!ProximaChave, C!Continuar,
     C!Entrar, C!Reservar,
     C!RecusarReserva, C!Responder, C!Responder656, C!GravarBloqueio, C!Falhar, C!Queda,
     C!SoLote,
     C!SincReservar, C!SincResponder, C!SincBloquear
<1>3. ASSUME NEW l \in Pedidos, lote[l].recusa = "dita" PROVE C!Parado(lote'[l])
  <2>1. /\ lote[l].passo = "bloquear" \/ (/\ lote[l].passo = "chave" /\ lote[l].freio
                                         /\ lote[l].fase = "consulta")
        /\ lote[l] \in C!LoteDeChaves /\ lote \in [Pedidos -> C!LoteDeChaves]
    BY <1>3 DEF CInv, FilasOK, LoteOK
  <2>2. CASE lote'[l].passo = lote[l].passo
    BY <2>1, <2>2 DEF C!Parado
  <2>3. ASSUME NEW m \in Pedidos, NEW novo, C!Liberar(m, novo), m # l
        PROVE lote'[l].passo = lote[l].passo
    BY <2>1, <2>3 DEF C!Liberar, C!LoteDeChaves
  <2>4. ASSUME NEW m \in Pedidos, NEW fase, C!Enfileirar(m, fase), m # l
        PROVE lote'[l] = lote[l]
    BY <2>1, <2>4 DEF C!Enfileirar
  <2>5. ASSUME NEW m \in Pedidos, C!Iniciar(m) \/ C!Passo(m)
        PROVE C!Parado(lote'[l])
    <3>1. CASE m = l
      <4>1. C!ProximaChave(l) \/ C!GravarBloqueio(l) \/ C!Falhar(l)
        BY <2>1, <2>5, <3>1 DEF C!Passo, C!Iniciar, C!Continuar, C!Entrar, C!Reservar,
           C!RecusarReserva, C!Responder, C!Responder656
      <4>2. CASE C!ProximaChave(l)
        <5>1. \/ lote' = [lote EXCEPT ![l] = C!Encerrado]
              \/ /\ lote' = [lote EXCEPT ![l] = C!Anotado(l)]
                 /\ lote[l].feitas < MaxChaves
          BY <2>1, <4>2 DEF C!ProximaChave
        <5>2. lote[l].feitas < MaxChaves => C!Anotado(l).passo = "chave"
          BY <2>1 DEF C!Anotado, C!LoteDeChaves
        <5> QED
          BY <2>1, <5>1, <5>2, EncerradoOK DEF C!Parado
      <4>3. CASE C!GravarBloqueio(l) \/ C!Falhar(l)
        <5>1. lote[l].feitas < MaxChaves
          BY <4>3, EmCursoOK DEF C!GravarBloqueio, C!Falhar, EmChamada
        <5>2. \E novo : C!Liberar(l, novo) /\ EntreChaves(l, novo)
          BY <4>3, <5>1, AnotadoOK DEF C!GravarBloqueio, C!Falhar, C!Adiado, Perdida
        <5>3. PICK novo : C!Liberar(l, novo) /\ EntreChaves(l, novo)
          BY <5>2
        <5>4. lote'[l] = novo
          BY <5>3 DEF C!Liberar
        <5> QED
          BY <5>3, <5>4 DEF EntreChaves, C!Parado
      <4> QED
        BY <4>1, <4>2, <4>3
    <3>2. CASE m # l
      <4>1. CASE C!Iniciar(m) \/ C!Entrar(m) \/ C!Reservar(m) \/ C!Responder656(m)
        <5>1. lote'[l] = lote[l]
          BY <2>1, <3>2, <4>1 DEF C!Iniciar, C!Entrar, C!Reservar, C!Responder656
        <5> QED
          BY <2>2, <5>1
      <4>2. CASE C!ProximaChave(m) \/ C!Continuar(m)
        <5>1. lote'[l] = lote[l]
          BY <2>1, <2>4, <3>2, <4>2 DEF C!ProximaChave, C!Continuar
        <5> QED
          BY <2>2, <5>1
      <4>3. CASE C!RecusarReserva(m) \/ C!Responder(m) \/ C!GravarBloqueio(m) \/ C!Falhar(m)
        <5>1. lote'[l].passo = lote[l].passo
          BY <2>3, <3>2, <4>3 DEF C!RecusarReserva, C!Responder, C!GravarBloqueio, C!Falhar
        <5> QED
          BY <2>2, <5>1
      <4> QED
        BY <2>5, <4>1, <4>2, <4>3 DEF C!Passo
    <3> QED
      BY <3>1, <3>2
  <2>6. ASSUME NEW n \in Nos, C!Queda(n) PROVE C!Parado(lote'[l])
    <3>1. lote'[l] \in {C!Encerrado, lote[l]}
      BY <2>6 DEF C!Queda
    <3> QED
      BY <2>1, <3>1, EncerradoOK DEF C!Parado
  <2>7. CASE C!Passar \/ C!SincReservar \/ C!SincResponder \/ C!SincBloquear
                \/ UNCHANGED C!vars
    <3>1. lote' = lote
      BY <2>7 DEF C!Passar, C!SincReservar, C!SincResponder, C!SincBloquear, C!vars
    <3> QED
      BY <2>2, <3>1
  <2> QED
    BY <2>5, <2>6, <2>7 DEF C!Next
<1> QED
  BY <1>1, <1>2, <1>3

-----------------------------------------------------------------------------
(* The deliveries of files. *)

(* The assumptions on the bounds. *)
LEMMA LimitesDasEntregas == E!EntregasAssumption /\ E!L!LimpezaAssumption
BY OperacoesAssumption

Job == [status : E!L!Status, tentativas : Nat, criado : Nat, vencido : BOOLEAN]
Posse == [fase : E!L!Fases, tentativas : Nat]
Entrega == [status : E!Status, tentativas : Nat, original : Entregas \cup {Nada}]

(* Nobody holds a key that was never scheduled. *)
PosseAgendada ==
  \A w \in Pedidos, k \in Entregas : posse[w][k].fase # "nada" => k \in E!L!Agendados

(* A request at its point, with the delivery it is about: the first upload *)
(* of a delivery is alone with it, and what was uploaded is stored unless  *)
(* its removal was scheduled. *)
PontoOK(p) ==
  /\ pcEntrega[p] = "ocioso" <=> alvo[p] = Nada
  /\ pcEntrega[p] # "ocioso" => E!Existe(alvo[p])
  /\ pcEntrega[p] \in {"enviar", "contar"} =>
       /\ entregas[alvo[p]].status = "INTEGRA"
       /\ \A q \in Pedidos : q # p /\ alvo[q] = alvo[p] => pcEntrega[q] = "inserir"
  /\ pcEntrega[p] \in {"contar", "recuperar"} => alvo[p] \in objetos \cup E!L!Agendados
  /\ pcEntrega[p] = "limpar" => alvo[p] \in E!L!Agendados
  /\ pcEntrega[p] = "inserir" => entregas[alvo[p]].original = Nada

EInv ==
  /\ E!TypeOK
  /\ PosseAgendada
  /\ \A p \in Pedidos : PontoOK(p)
  /\ E!SemCompensacaoArmazenada /\ E!RetificacaoDeBase

-----------------------------------------------------------------------------
(* The queue of removals, as the deliveries see it.                        *)

(* The types of the fields, by name. *)
LEMMA CamposDaEntrega ==
  ASSUME EInv
  PROVE  /\ objetos \subseteq Entregas /\ jobs \in [Entregas -> Job]
         /\ posse \in [Pedidos -> [Entregas -> Posse]]
         /\ falhas \in 0 .. MaxFalhas /\ entregas \in [Entregas -> Entrega]
         /\ pcEntrega \in [Pedidos -> E!Pontos] /\ alvo \in [Pedidos -> Entregas
               \cup {Nada}]
         /\ lida \in [Pedidos -> Nat] /\ perdas \subseteq Entregas
         /\ E!L!SemPosse \in Posse /\ E!L!SemPosse.fase = "nada" /\ Nada \notin Entregas
BY LimitesDasEntregas DEF EInv, E!TypeOK, E!L!TypeOK, Job, Posse, Entrega, E!L!SemPosse,
   E!L!Fases,
   E!EntregasAssumption

(* What a step of the queue does: no job disappears, and only the objects  *)
(* of keys that have a job are removed. *)
FilaOK ==
  /\ objetos' \subseteq objetos
  /\ jobs' \in [Entregas -> Job]
  /\ posse' \in [Pedidos -> [Entregas -> Posse]]
  /\ falhas' \in 0 .. MaxFalhas
  /\ PosseAgendada'
  /\ E!L!Agendados \subseteq E!L!Agendados'
  /\ objetos \subseteq objetos' \cup E!L!Agendados

(* The failures stay within their bound. *)
LEMMA FalhaDaFila ==
  ASSUME EInv, E!L!Falha PROVE falhas' \in 0 .. MaxFalhas
<1>1. falhas \in 0 .. MaxFalhas /\ falhas < MaxFalhas /\ falhas' = falhas + 1
  BY CamposDaEntrega DEF E!L!Falha
<1>2. MaxFalhas \in Nat
  BY LimitesDasEntregas DEF E!L!LimpezaAssumption
<1> QED
  BY <1>1, <1>2

(* A worker goes on with what it holds, or lets go of it. *)
LEMMA PosseDaFila ==
  ASSUME EInv, NEW w \in Pedidos, NEW novo \in [Entregas -> Posse],
         posse' = [posse EXCEPT ![w] = novo],
         E!L!Agendados \subseteq E!L!Agendados',
         \A k \in Entregas : novo[k].fase # "nada" => k \in E!L!Agendados'
  PROVE  posse' \in [Pedidos -> [Entregas -> Posse]] /\ PosseAgendada'
<1>1. posse' \in [Pedidos -> [Entregas -> Posse]]
  BY CamposDaEntrega
<1>2. \A v \in Pedidos : posse'[v] = IF v = w THEN novo ELSE posse[v]
  BY CamposDaEntrega
<1> QED
  BY <1>1, <1>2 DEF PosseAgendada, EInv

(* A step of the queue keeps the types and what was scheduled. *)
LEMMA PassoDaFila ==
  ASSUME EInv, NEW w \in Pedidos, NEW k \in Entregas, posse[w][k].fase # "nada",
         NEW f \in E!L!Fases, E!L!Passo(w, k, f)
            \/ E!L!Soltar(w, k), E!L!Agendados \subseteq E!L!Agendados'
  PROVE  posse' \in [Pedidos -> [Entregas -> Posse]] /\ PosseAgendada'
<1>1. posse[w] \in [Entregas -> Posse] /\ posse[w][k] \in Posse
  BY CamposDaEntrega
<1>2. PICK x \in Posse : posse' = [posse EXCEPT ![w] = [posse[w] EXCEPT ![k] = x]]
  <2>1. CASE E!L!Passo(w, k, f)
    <3>1. [posse[w][k] EXCEPT !.fase = f] \in Posse
      BY <1>1 DEF Posse
    <3>2. posse' = [posse EXCEPT ![w] =
                   [posse[w] EXCEPT ![k] = [posse[w][k] EXCEPT !.fase = f]]]
      BY <1>1, <2>1, CamposDaEntrega DEF E!L!Passo
    <3> QED
      BY <3>1, <3>2
  <2>2. CASE E!L!Soltar(w, k)
    <3>1. posse' = [posse EXCEPT ![w] = [posse[w] EXCEPT ![k] = E!L!SemPosse]]
      BY <1>1, <2>2, CamposDaEntrega DEF E!L!Soltar
    <3> QED
      BY <3>1, CamposDaEntrega
  <2> QED
    BY <2>1, <2>2
<1>3. [posse[w] EXCEPT ![k] = x] \in [Entregas -> Posse]
  BY <1>1
<1>4. ASSUME NEW o \in Entregas, [posse[w] EXCEPT ![k] = x][o].fase # "nada"
      PROVE  o \in E!L!Agendados'
  <2>1. posse[w][o].fase # "nada"
    BY <1>1, <1>4
  <2> QED
    BY <2>1 DEF EInv, PosseAgendada
<1> QED
  BY <1>2, <1>3, <1>4, PosseDaFila

(* The outcome of a job leaves what was scheduled. *)
LEMMA RegistroDaFila ==
  ASSUME EInv, NEW w \in Pedidos, NEW k \in Entregas, NEW s \in {"CONCLUIDO", "FALHOU"},
         jobs' = jobs \/ E!L!Registrar(w, k, s)
  PROVE  jobs' \in [Entregas -> Job] /\ E!L!Agendados' = E!L!Agendados
<1>1. jobs \in [Entregas -> Job]
  BY CamposDaEntrega
<1>2. CASE jobs' = jobs
  BY <1>1, <1>2 DEF E!L!Agendados
<1>3. CASE E!L!Dono(w, k) /\ jobs' = [jobs EXCEPT ![k].status = s, ![k].vencido = FALSE]
  <2>1. jobs' = [jobs EXCEPT ![k] = [jobs[k] EXCEPT !.status = s, !.vencido = FALSE]]
    BY <1>1, <1>3 DEF Job
  <2>2. [jobs[k] EXCEPT !.status = s, !.vencido = FALSE] \in Job
    BY <1>1 DEF Job, E!L!Status
  <2>3. jobs' \in [Entregas -> Job] /\ jobs'[k].status = s
           /\ \A o \in Entregas \ {k} : jobs'[o] = jobs[o]
    BY <1>1, <2>1, <2>2 DEF Job
  <2>4. jobs[k].status # "SEM_JOB" /\ s # "SEM_JOB"
    BY <1>3 DEF E!L!Dono
  <2> QED
    BY <2>3, <2>4 DEF E!L!Agendados
<1> QED
  BY <1>2, <1>3 DEF E!L!Registrar

(* A worker claims a job: it was scheduled. *)
LEMMA ReivindicarNaEntrega ==
  ASSUME EInv, NEW w \in Pedidos, NEW K \in SUBSET Entregas, E!L!Reivindicar(w, K)
  PROVE  FilaOK
<1>1. PICK S \in E!L!Candidatos(K) :
        /\ jobs' = [k \in Entregas |-> IF k \in S THEN E!L!Marcar(jobs[k]) ELSE jobs[k]]
        /\ posse' = [posse EXCEPT ![w] =
             [k \in Entregas |-> IF k \in S
                                 THEN [fase |-> "espera",
                                       tentativas |-> jobs'[k].tentativas]
                                 ELSE E!L!SemPosse]]
  BY DEF E!L!Reivindicar
<1>2. \A k \in S : k \in Entregas /\ jobs[k].status # "SEM_JOB"
  BY <1>1 DEF E!L!Candidatos, E!L!Elegivel
<1>3. \A k \in Entregas : jobs[k] \in Job
  BY CamposDaEntrega
<1>4. \A k \in Entregas : E!L!Marcar(jobs[k]) \in Job
         /\ E!L!Marcar(jobs[k]).status = "PROCESSANDO"
  <2>1. ASSUME NEW j \in Job
        PROVE E!L!Marcar(j) \in Job /\ E!L!Marcar(j).status = "PROCESSANDO"
    <3>1. E!L!Marcar(j) = [j EXCEPT !.status = "PROCESSANDO",
                                    !.tentativas = j.tentativas + 1,
                                  !.vencido = FALSE]
      BY DEF E!L!Marcar
    <3>2. j.tentativas + 1 \in Nat
      BY DEF Job
    <3> QED
      BY <3>1, <3>2 DEF Job, E!L!Status
  <2> QED
    BY <1>3, <2>1
<1>5. jobs' \in [Entregas -> Job]
  BY <1>1, <1>3, <1>4
<1>6. E!L!Agendados \subseteq E!L!Agendados' /\ S \subseteq E!L!Agendados'
  BY <1>1, <1>2, <1>4 DEF E!L!Agendados
<1> DEFINE novo == [k \in Entregas |-> IF k \in S
                                 THEN [fase |-> "espera",
                                       tentativas |-> jobs'[k].tentativas]
                                 ELSE E!L!SemPosse]
<1>7. novo \in [Entregas -> Posse]
  <2>1. \A k \in Entregas :
          [fase |-> "espera", tentativas |-> jobs'[k].tentativas] \in Posse
    BY <1>5 DEF Posse, Job, E!L!Fases
  <2> QED
    BY <2>1, CamposDaEntrega
<1>8. \A k \in Entregas : novo[k].fase # "nada" => k \in E!L!Agendados'
  BY <1>6, CamposDaEntrega
<1>9. posse' \in [Pedidos -> [Entregas -> Posse]] /\ PosseAgendada'
  BY <1>1, <1>6, <1>7, <1>8, PosseDaFila
<1> QED
  BY <1>5, <1>6, <1>9, CamposDaEntrega DEF FilaOK, E!L!Reivindicar

(* A worker at work. *)
LEMMA TrabalhoNaEntrega ==
  ASSUME EInv, NEW w \in Pedidos, E!L!Trabalhar(w) \/ E!L!Falhar(w)
  PROVE  FilaOK
<1>0. jobs' = jobs => E!L!Agendados' = E!L!Agendados
  BY DEF E!L!Agendados
<1>1. \A o \in Entregas : posse[w][o].fase # "nada" => o \in E!L!Agendados
  BY DEF EInv, PosseAgendada
<1>2. posse[w] \in [Entregas -> Posse]
  BY CamposDaEntrega
<1>3. CASE E!L!IniciarFatia(w)
  <2>1. PICK S \in SUBSET E!L!EmEspera(w) :
          posse' = [posse EXCEPT ![w] =
            [k \in Entregas |-> IF k \in S THEN [posse[w][k] EXCEPT !.fase = "apagar"]
                                ELSE posse[w][k]]]
    BY <1>3 DEF E!L!IniciarFatia
  <2> DEFINE novo == [k \in Entregas |-> IF k \in S
                THEN [posse[w][k] EXCEPT !.fase = "apagar"]
                                ELSE posse[w][k]]
  <2>2. \A k \in Entregas : [posse[w][k] EXCEPT !.fase = "apagar"] \in Posse
    BY <1>2 DEF Posse, E!L!Fases
  <2>3. novo \in [Entregas -> Posse]
    BY <1>2, <2>2
  <2>4. \A k \in S : posse[w][k].fase # "nada"
    BY DEF E!L!EmEspera
  <2>5. jobs' = jobs
    BY <1>3 DEF E!L!IniciarFatia
  <2>6. \A k \in Entregas : novo[k].fase # "nada" => k \in E!L!Agendados'
    BY <1>0, <1>1, <2>4, <2>5
  <2>7. posse' \in [Pedidos -> [Entregas -> Posse]] /\ PosseAgendada'
    BY <1>0, <2>1, <2>3, <2>5, <2>6, PosseDaFila
  <2> QED
    BY <1>0, <1>3, <2>7, CamposDaEntrega DEF FilaOK, E!L!IniciarFatia
<1>4. ASSUME NEW k \in Entregas, E!L!Apagar(w, k) \/ E!L!ApagarErro(w, k) PROVE FilaOK
  <2>1. posse[w][k].fase # "nada" /\ k \in E!L!Agendados /\ jobs' = jobs
    BY <1>1, <1>4 DEF E!L!Apagar, E!L!ApagarErro
  <2>2. PICK f \in E!L!Fases : E!L!Passo(w, k, f)
    BY <1>4 DEF E!L!Apagar, E!L!ApagarErro, E!L!Fases
  <2>3. posse' \in [Pedidos -> [Entregas -> Posse]] /\ PosseAgendada'
    BY <1>0, <2>1, <2>2, PassoDaFila
  <2>4. objetos' \subseteq objetos /\ objetos \subseteq objetos' \cup {k}
    BY <1>4 DEF E!L!Apagar, E!L!ApagarErro
  <2>5. falhas' \in 0 .. MaxFalhas
    BY <1>4, FalhaDaFila, CamposDaEntrega DEF E!L!Apagar, E!L!ApagarErro
  <2> QED
    BY <1>0, <2>1, <2>3, <2>4, <2>5, CamposDaEntrega DEF FilaOK
<1>5. ASSUME NEW k \in Entregas,
             E!L!Concluir(w, k) \/ E!L!ConcluirErro(w, k) \/ E!L!RegistrarFalha(w, k)
      PROVE  FilaOK
  <2>1. posse[w][k].fase # "nada" /\ k \in E!L!Agendados /\ objetos' = objetos
    BY <1>1, <1>5 DEF E!L!Concluir, E!L!ConcluirErro, E!L!RegistrarFalha
  <2>2. PICK s \in {"CONCLUIDO", "FALHOU"} : jobs' = jobs \/ E!L!Registrar(w, k, s)
    BY <1>5 DEF E!L!Concluir, E!L!ConcluirErro, E!L!RegistrarFalha
  <2>3. PICK f \in E!L!Fases : E!L!Passo(w, k, f) \/ E!L!Soltar(w, k)
    BY <1>5 DEF E!L!Concluir, E!L!ConcluirErro, E!L!RegistrarFalha, E!L!Fases
  <2>4. jobs' \in [Entregas -> Job] /\ E!L!Agendados' = E!L!Agendados
    BY <2>2, RegistroDaFila
  <2>5. posse' \in [Pedidos -> [Entregas -> Posse]] /\ PosseAgendada'
    BY <2>1, <2>3, <2>4, PassoDaFila
  <2>6. falhas' \in 0 .. MaxFalhas
    BY <1>5, FalhaDaFila, CamposDaEntrega DEF E!L!Concluir, E!L!ConcluirErro,
       E!L!RegistrarFalha
  <2> QED
    BY <2>1, <2>4, <2>5, <2>6 DEF FilaOK
<1>6. ASSUME NEW K \in SUBSET Entregas, posse' = [posse EXCEPT ![w] =
               [o \in Entregas |-> IF o \in K THEN E!L!SemPosse ELSE posse[w][o]]],
             objetos' = objetos, E!L!Falha, E!L!Agendados' = E!L!Agendados,
             jobs' \in [Entregas -> Job]
      PROVE  FilaOK
  <2> DEFINE novo == [o \in Entregas |-> IF o \in K THEN E!L!SemPosse ELSE posse[w][o]]
  <2>1. novo \in [Entregas -> Posse]
    BY <1>2, CamposDaEntrega
  <2>2. \A o \in Entregas : novo[o].fase # "nada" => o \in E!L!Agendados'
    BY <1>1, <1>6, CamposDaEntrega
  <2>3. posse' \in [Pedidos -> [Entregas -> Posse]] /\ PosseAgendada'
    BY <1>6, <2>1, <2>2, PosseDaFila
  <2> QED
    BY <1>6, <2>3, FalhaDaFila DEF FilaOK
<1>7. ASSUME NEW k \in Entregas, E!L!RegistrarFalhaErro(w, k) PROVE FilaOK
  <2>1. jobs' \in [Entregas -> Job] /\ E!L!Agendados' = E!L!Agendados
    BY <1>7, RegistroDaFila DEF E!L!RegistrarFalhaErro
  <2> DEFINE K == {k} \cup E!L!EmEspera(w)
  <2>2. K \in SUBSET Entregas /\ \A o : o \in K <=> (o = k \/ o \in E!L!EmEspera(w))
    BY DEF E!L!EmEspera
  <2>3. posse' = [posse EXCEPT ![w] =
          [o \in Entregas |-> IF o \in K THEN E!L!SemPosse ELSE posse[w][o]]]
    <3> HIDE DEF K
    <3>1. [o \in Entregas |-> IF o = k \/ o \in E!L!EmEspera(w) THEN E!L!SemPosse
             ELSE posse[w][o]]
            = [o \in Entregas |-> IF o \in K THEN E!L!SemPosse ELSE posse[w][o]]
      BY <2>2
    <3> QED
      BY <1>7, <3>1 DEF E!L!RegistrarFalhaErro
  <2> HIDE DEF K
  <2> QED
    BY <1>6, <1>7, <2>1, <2>2, <2>3 DEF E!L!RegistrarFalhaErro
<1>8. CASE E!L!Cair(w)
  <2>1. posse' = [posse EXCEPT ![w] =
          [o \in Entregas |-> IF o \in Entregas THEN E!L!SemPosse ELSE posse[w][o]]]
    <3>1. [o \in Entregas |-> IF o \in Entregas THEN E!L!SemPosse ELSE posse[w][o]]
            = [o \in Entregas |-> E!L!SemPosse]
      OBVIOUS
    <3> QED
      BY <1>8, <3>1 DEF E!L!Cair
  <2>2. E!L!Falha /\ objetos' = objetos /\ jobs' = jobs
    BY <1>8 DEF E!L!Cair
  <2> QED
    BY <1>0, <1>6, <2>1, <2>2, CamposDaEntrega
<1> QED
  BY <1>3, <1>4, <1>5, <1>7, <1>8 DEF E!L!Trabalhar, E!L!Falhar

(* A claim expires. *)
LEMMA VencerNaEntrega ==
  ASSUME EInv, NEW k \in Entregas, E!L!Vencer(k) PROVE FilaOK
<1>1. jobs \in [Entregas -> Job] /\ jobs' = [jobs EXCEPT ![k].vencido = TRUE]
  BY CamposDaEntrega DEF E!L!Vencer
<1>2. jobs' \in [Entregas -> Job] /\ \A o \in Entregas : jobs'[o].status = jobs[o].status
  <2>1. [jobs[k] EXCEPT !.vencido = TRUE] \in Job
    BY <1>1 DEF Job
  <2>2. jobs' = [jobs EXCEPT ![k] = [jobs[k] EXCEPT !.vencido = TRUE]]
    BY <1>1
  <2>3. [jobs[k] EXCEPT !.vencido = TRUE].status = jobs[k].status
    BY <1>1 DEF Job
  <2>4. \A o \in Entregas : jobs'[o] = IF o = k THEN [jobs[k] EXCEPT !.vencido = TRUE]
           ELSE jobs[o]
    BY <1>1, <2>2
  <2> QED
    BY <1>1, <2>1, <2>2, <2>3, <2>4
<1>3. E!L!Agendados' = E!L!Agendados
  BY <1>2 DEF E!L!Agendados
<1>4. falhas' \in 0 .. MaxFalhas
  BY CamposDaEntrega, FalhaDaFila DEF E!L!Vencer
<1>5. PosseAgendada'
  BY <1>3 DEF EInv, PosseAgendada, E!L!Vencer
<1> QED
  BY <1>2, <1>3, <1>4, <1>5, CamposDaEntrega DEF FilaOK, E!L!Vencer

(* A removal is scheduled. *)
LEMMA AgendarNaEntrega ==
  ASSUME EInv, NEW e \in Entregas, E!L!Agendar({e}) PROVE FilaOK /\ e \in E!L!Agendados'
<1>1. \A k \in Entregas : jobs'[k] = IF k \in {e} \ E!L!Agendados
         THEN [E!L!SemJob EXCEPT
                   !.status = "PENDENTE", !.criado = 1 + E!L!Cardinality(E!L!Agendados)]
         ELSE jobs[k]
  BY DEF E!L!Agendar
<1>2. IsFiniteSet(E!L!Agendados) /\ E!L!Agendados \subseteq Entregas
  <2>1. E!L!Agendados \subseteq Entregas
    BY DEF E!L!Agendados
  <2>2. IsFiniteSet(Entregas)
    BY LimitesDasEntregas DEF E!L!LimpezaAssumption, E!L!IsFiniteSet, IsFiniteSet
  <2> QED
    BY <2>1, <2>2, FS_Subset
<1>3. E!L!Cardinality(E!L!Agendados) \in Nat
  <2>1. Cardinality(E!L!Agendados) \in Nat
    BY <1>2, FS_CardinalityType
  <2>2. E!L!Cardinality(E!L!Agendados) = Cardinality(E!L!Agendados)
    BY DEF E!L!Cardinality, Cardinality, E!L!IsFiniteSet, IsFiniteSet
  <2> QED
    BY <2>1, <2>2
<1> DEFINE novo == [E!L!SemJob EXCEPT
                   !.status = "PENDENTE", !.criado = 1 + E!L!Cardinality(E!L!Agendados)]
<1>4. novo \in Job /\ novo.status = "PENDENTE"
  <2>1. PICK n \in Nat : n = 1 + E!L!Cardinality(E!L!Agendados)
    BY <1>3
  <2>2. /\ [E!L!SemJob EXCEPT !.status = "PENDENTE", !.criado = n] \in Job
        /\ [E!L!SemJob EXCEPT !.status = "PENDENTE", !.criado = n].status = "PENDENTE"
    BY DEF Job, E!L!SemJob, E!L!Status
  <2> QED
    BY <2>1, <2>2
<1>5. jobs' \in [Entregas -> Job]
  BY <1>1, <1>4, CamposDaEntrega DEF E!L!Agendar
<1>6. E!L!Agendados \subseteq E!L!Agendados' /\ e \in E!L!Agendados'
  BY <1>1, <1>4 DEF E!L!Agendados
<1>7. PosseAgendada'
  BY <1>6 DEF EInv, PosseAgendada, E!L!Agendar
<1> QED
  BY <1>5, <1>6, <1>7, CamposDaEntrega DEF FilaOK, E!L!Agendar

(* A step that leaves the queue alone. *)
LEMMA FilaParadaNaEntrega ==
  ASSUME EInv, objetos' = objetos, jobs' = jobs, posse' = posse, falhas' = falhas
     \/ E!L!Falha
  PROVE  FilaOK /\ E!L!Agendados' = E!L!Agendados
BY CamposDaEntrega, FalhaDaFila DEF FilaOK, EInv, PosseAgendada, E!L!Agendados

-----------------------------------------------------------------------------
(* A step of the request p.                                                *)

(* Moving a request to another point. *)
LEMMA IrOK ==
  ASSUME EInv, NEW p \in Pedidos, NEW ponto \in E!Pontos, NEW e \in Entregas \cup {Nada},
         E!Ir(p, ponto, e)
  PROVE  /\ pcEntrega' \in [Pedidos -> E!Pontos]
         /\ alvo' \in [Pedidos -> Entregas \cup {Nada}]
         /\ pcEntrega'[p] = ponto /\ alvo'[p] = e
         /\ \A q \in Pedidos \ {p} : pcEntrega'[q] = pcEntrega[q] /\ alvo'[q] = alvo[q]
BY CamposDaEntrega DEF E!Ir

(* A row with some of its fields replaced. *)
LEMMA LinhaDaEntrega ==
  ASSUME NEW r \in Entrega, NEW s \in E!Status, NEW n \in Nat,
         NEW o \in Entregas \cup {Nada}
  PROVE  /\ [r EXCEPT !.status = s, !.tentativas = n]
              = [status |-> s, tentativas |-> n, original |-> r.original]
         /\ [r EXCEPT !.status = s, !.original = o]
              = [status |-> s, tentativas |-> r.tentativas, original |-> o]
<1>1. PICK x : x = [r EXCEPT !.status = s]
  OBVIOUS
<1>2. x = [status |-> s, tentativas |-> r.tentativas, original |-> r.original]
  BY <1>1 DEF Entrega
<1>3. x \in Entrega /\ x.status = s /\ x.tentativas = r.tentativas
         /\ x.original = r.original
  BY <1>2 DEF Entrega
<1>4. [x EXCEPT !.tentativas = n]
        = [status |-> x.status, tentativas |-> n, original |-> x.original]
  BY <1>3 DEF Entrega
<1>5. [x EXCEPT !.original = o]
        = [status |-> x.status, tentativas |-> x.tentativas, original |-> o]
  BY <1>3 DEF Entrega
<1> QED
  BY <1>1, <1>3, <1>4, <1>5

(* What PontoOK says at each point. *)
LEMMA NoPonto ==
  ASSUME EInv, NEW p \in Pedidos
  PROVE  /\ pcEntrega[p] # "ocioso" => alvo[p] \in Entregas /\ E!Existe(alvo[p])
         /\ pcEntrega[p] = "ocioso" => alvo[p] = Nada
         /\ PontoOK(p)
BY CamposDaEntrega DEF EInv, PontoOK

(* The first upload of a delivery is alone with it. *)
LEMMA PrimeiroSozinho ==
  ASSUME EInv, NEW p \in Pedidos, NEW q \in Pedidos, q # p,
         pcEntrega[q] \in {"enviar", "contar"}, pcEntrega[p] \notin {"ocioso", "inserir"}
  PROVE  alvo[q] # alvo[p]
BY DEF EInv, PontoOK

(* The other requests stay where they were. *)
LEMMA PontosAlheios ==
  ASSUME EInv, NEW p \in Pedidos, NEW ponto \in E!Pontos, NEW e \in Entregas \cup {Nada},
         E!Ir(p, ponto, e), E!L!Agendados \subseteq E!L!Agendados',
         objetos \subseteq objetos' \cup E!L!Agendados,
         \A f \in Entregas : E!Existe(f) =>
           E!Existe(f)' /\ entregas'[f].original = entregas[f].original,
         \A q \in Pedidos \ {p} : pcEntrega[q] \in {"enviar", "contar"} =>
           /\ entregas'[alvo[q]].status = "INTEGRA"
           /\ ponto # "inserir" => alvo[q] # e
  PROVE  \A q \in Pedidos \ {p} : PontoOK(q)'
<1> SUFFICES ASSUME NEW q \in Pedidos \ {p} PROVE PontoOK(q)'
  OBVIOUS
<1>1. /\ pcEntrega'[q] = pcEntrega[q] /\ alvo'[q] = alvo[q] /\ pcEntrega'[p] = ponto
            /\ alvo'[p] = e
      /\ \A r \in Pedidos \ {p} : pcEntrega'[r] = pcEntrega[r] /\ alvo'[r] = alvo[r]
  BY IrOK
<1>2. PontoOK(q) /\ (pcEntrega[q] # "ocioso" => alvo[q] \in Entregas /\ E!Existe(alvo[q]))
  BY NoPonto
<1>3. (pcEntrega[q] = "ocioso" <=> alvo[q] = Nada)'
  BY <1>1, <1>2 DEF PontoOK
<1>4. pcEntrega[q] # "ocioso" => /\ entregas'[alvo[q]].status # "AUSENTE"
                                 /\ entregas'[alvo[q]].original = entregas[alvo[q]].original
  BY <1>2 DEF E!Existe
<1>5. pcEntrega[q] \in {"enviar", "contar"} =>
        /\ entregas'[alvo[q]].status = "INTEGRA"
        /\ \A r \in Pedidos : r # q /\ alvo'[r] = alvo[q] => pcEntrega'[r] = "inserir"
  BY <1>1, <1>2 DEF PontoOK
<1>6. pcEntrega[q] \in {"contar", "recuperar"} => alvo[q] \in objetos' \cup E!L!Agendados'
  BY <1>2 DEF PontoOK
<1>7. pcEntrega[q] = "limpar" => alvo[q] \in E!L!Agendados'
  BY <1>2 DEF PontoOK
<1>8. pcEntrega[q] = "inserir" => entregas'[alvo[q]].original = Nada
  BY <1>2, <1>4 DEF PontoOK
<1> QED
  BY <1>1, <1>3, <1>4, <1>5, <1>6, <1>7, <1>8 DEF PontoOK, E!Existe

(* A step that writes no delivery and takes no object before its removal is scheduled. *)
LEMMA ArmazenadaOK ==
  ASSUME EInv, entregas' = entregas, E!L!Agendados \subseteq E!L!Agendados',
         objetos \subseteq objetos' \cup E!L!Agendados
  PROVE  E!SemCompensacaoArmazenada' /\ E!RetificacaoDeBase'
BY DEF EInv, E!SemCompensacaoArmazenada, E!RetificacaoDeBase, E!Existe

(* A delivery changes and its original does not. *)
LEMMA BaseOK ==
  ASSUME EInv, \A f \in Entregas : /\ entregas'[f].original = entregas[f].original
                                   /\ E!Existe(f) => E!Existe(f)'
  PROVE  E!RetificacaoDeBase'
BY CamposDaEntrega DEF EInv, E!RetificacaoDeBase, E!Existe, Entrega

(* The types, variable by variable. *)
LEMMA TiposOK ==
  ASSUME objetos' \subseteq Entregas, jobs' \in [Entregas -> Job],
         posse' \in [Pedidos -> [Entregas -> Posse]],
         falhas' \in 0 .. MaxFalhas, entregas' \in [Entregas -> Entrega],
         pcEntrega' \in [Pedidos -> E!Pontos], alvo' \in [Pedidos -> Entregas \cup {Nada}],
         lida' \in [Pedidos -> Nat], perdas' \subseteq Entregas
  PROVE  E!TypeOK'
BY DEF E!TypeOK, E!L!TypeOK, Job, Posse, Entrega

(* A request ends. *)
LEMMA EncerrarOK ==
  ASSUME EInv, NEW p \in Pedidos, E!Encerrar(p)
  PROVE  /\ E!Ir(p, "ocioso", Nada) /\ lida' \in [Pedidos -> Nat]
         /\ "ocioso" \in E!Pontos /\ Nada \in Entregas \cup {Nada}
BY CamposDaEntrega DEF E!Encerrar, E!Pontos

(* A new delivery is inserted. *)
LEMMA InserirOK ==
  ASSUME EInv, NEW e \in Entregas, NEW o \in Entregas \cup {Nada}, E!Inserir(e, o)
  PROVE  /\ ~E!Existe(e) /\ entregas' \in [Entregas -> Entrega]
         /\ entregas'[e].status = "INTEGRA" /\ entregas'[e].tentativas = 0
         /\ entregas'[e].original = o
         /\ \A f \in Entregas \ {e} : entregas'[f] = entregas[f]
         /\ \A f \in Entregas : E!Existe(f) => f # e /\ E!Existe(f)'
<1>1. [E!Ausente EXCEPT !.status = "INTEGRA", !.original = o]
        = [status |-> "INTEGRA", tentativas |-> 0, original |-> o]
  <2>1. E!Ausente \in Entrega /\ E!Ausente.tentativas = 0 /\ "INTEGRA" \in E!Status
    BY DEF E!Ausente, Entrega, E!Status
  <2> QED
    BY <2>1, LinhaDaEntrega
<1>2. [status |-> "INTEGRA", tentativas |-> 0, original |-> o] \in Entrega
  BY DEF Entrega, E!Status
<1>3. entregas' = [entregas EXCEPT ![e] =
                     [status |-> "INTEGRA", tentativas |-> 0, original |-> o]]
  BY <1>1 DEF E!Inserir
<1>4. ~E!Existe(e)
  BY DEF E!Inserir
<1> QED
  BY <1>2, <1>3, <1>4, CamposDaEntrega DEF E!Existe

(* A new row keeps what the others promise. *)
LEMMA InseridaOK ==
  ASSUME EInv, NEW e \in Entregas, NEW o \in Entregas \cup {Nada}, E!Inserir(e, o),
         o # Nada => E!Existe(o) /\ entregas[o].original = Nada,
         objetos' = objetos, E!L!Agendados' = E!L!Agendados
  PROVE  E!SemCompensacaoArmazenada' /\ E!RetificacaoDeBase'
<1>1. /\ ~E!Existe(e) /\ entregas'[e].status = "INTEGRA" /\ entregas'[e].tentativas = 0
      /\ entregas'[e].original = o /\ \A f \in Entregas \ {e} : entregas'[f] = entregas[f]
      /\ \A f \in Entregas : E!Existe(f) => f # e /\ E!Existe(f)'
  BY InserirOK
<1>2. E!SemCompensacaoArmazenada'
  BY <1>1 DEF EInv, E!SemCompensacaoArmazenada
<1>3. ASSUME NEW f \in Entregas, entregas'[f].original # Nada
      PROVE  /\ entregas'[f].original # f
             /\ entregas'[f].original \in Entregas /\ E!Existe(entregas'[f].original)
             /\ entregas'[f].original # e
             /\ entregas[entregas'[f].original].original = Nada
  <2>1. CASE f = e
    BY <1>1, <1>3, <2>1
  <2>2. CASE f # e
    <3>1. entregas'[f] = entregas[f] /\ entregas[f] \in Entrega
      BY <1>1, <2>2, CamposDaEntrega
    <3>2. entregas[f].original \in Entregas
      BY <1>3, <3>1 DEF Entrega
    <3> QED
      BY <1>1, <1>3, <3>1, <3>2 DEF EInv, E!RetificacaoDeBase
  <2> QED
    BY <2>1, <2>2
<1>4. \A f \in Entregas : E!Existe(f) => entregas'[f].status # "AUSENTE"
         /\ entregas'[f] = entregas[f]
  BY <1>1 DEF E!Existe
<1>5. E!RetificacaoDeBase'
  BY <1>3, <1>4 DEF E!RetificacaoDeBase, E!Existe
<1> QED
  BY <1>2, <1>5

(* The queue stays as it is. *)
LEMMA SemFila ==
  ASSUME EInv, UNCHANGED E!filaVars, falhas' = falhas \/ E!L!Falha
  PROVE  /\ objetos' = objetos /\ E!L!Agendados' = E!L!Agendados
         /\ objetos' \subseteq Entregas /\ jobs' \in [Entregas -> Job]
         /\ posse' \in [Pedidos -> [Entregas -> Posse]]
         /\ falhas' \in 0 .. MaxFalhas /\ PosseAgendada'
BY FilaParadaNaEntrega, CamposDaEntrega DEF FilaOK, E!filaVars

-----------------------------------------------------------------------------
(* The actions.                                                            *)

(* registrar: the row first, the upload next. *)
LEMMA RegistrarEInv ==
  ASSUME EInv, NEW p \in Pedidos, E!Registrar(p) PROVE EInv'
<1>1. PICK e \in Entregas :
        E!Inserir(e, Nada) /\ lida' = lida /\ (E!Ir(p, "ocioso", Nada)
           \/ E!Ir(p, "enviar", e))
  BY DEF E!Registrar
<1>2. PICK ponto \in {"ocioso", "enviar"}, a \in {e, Nada} :
        E!Ir(p, ponto, a) /\ (ponto = "ocioso" <=> a = Nada) /\ (a = e <=> ponto = "enviar")
  BY <1>1, CamposDaEntrega
<1>3. ponto \in E!Pontos /\ a \in Entregas \cup {Nada} /\ pcEntrega[p] = "ocioso"
         /\ alvo[p] = Nada
  BY NoPonto DEF E!Pontos, E!Registrar, E!Disponivel
<1>4. /\ ~E!Existe(e) /\ entregas' \in [Entregas -> Entrega]
      /\ entregas'[e].status = "INTEGRA" /\ entregas'[e].original = Nada
      /\ \A f \in Entregas \ {e} : entregas'[f] = entregas[f]
      /\ \A f \in Entregas : E!Existe(f) => f # e /\ E!Existe(f)'
  BY <1>1, InserirOK
<1>5. /\ objetos' = objetos /\ E!L!Agendados' = E!L!Agendados /\ perdas' = perdas
      /\ objetos' \subseteq Entregas /\ jobs' \in [Entregas -> Job]
      /\ posse' \in [Pedidos -> [Entregas -> Posse]]
      /\ falhas' \in 0 .. MaxFalhas /\ PosseAgendada'
  BY SemFila DEF E!Registrar
<1>6. /\ pcEntrega' \in [Pedidos -> E!Pontos] /\ alvo' \in [Pedidos -> Entregas \cup {Nada}]
      /\ pcEntrega'[p] = ponto /\ alvo'[p] = a
      /\ \A q \in Pedidos \ {p} : pcEntrega'[q] = pcEntrega[q] /\ alvo'[q] = alvo[q]
  BY <1>2, <1>3, IrOK
<1>7. E!TypeOK'
  BY <1>1, <1>4, <1>5, <1>6, CamposDaEntrega, TiposOK
<1>8. \A q \in Pedidos : alvo[q] # e
  BY <1>4, NoPonto, CamposDaEntrega
<1>9. \A q \in Pedidos \ {p} : PontoOK(q)'
  <2>1. \A q \in Pedidos \ {p} : pcEntrega[q] \in {"enviar", "contar"} =>
          entregas'[alvo[q]].status = "INTEGRA" /\ alvo[q] # a
    BY <1>4, <1>8, NoPonto, CamposDaEntrega DEF PontoOK
  <2>2. \A f \in Entregas : E!Existe(f) =>
           E!Existe(f)' /\ entregas'[f].original = entregas[f].original
    BY <1>4
  <2> QED
    BY <1>2, <1>3, <1>5, <2>1, <2>2, PontosAlheios
<1>a. PontoOK(p)'
  <2>1. entregas'[e].status # "AUSENTE"
    BY <1>4
  <2> QED
    BY <1>2, <1>4, <1>6, <1>8, <2>1, CamposDaEntrega DEF PontoOK, E!Existe
<1>c. E!SemCompensacaoArmazenada' /\ E!RetificacaoDeBase'
  BY <1>1, <1>5, InseridaOK
<1> QED
  BY <1>5, <1>7, <1>9, <1>a, <1>c DEF EInv

(* retentar: the row of a failed delivery is taken again. *)
LEMMA RetentarEInv ==
  ASSUME EInv, NEW p \in Pedidos, E!Retentar(p) PROVE EInv'
<1>1. PICK e \in Entregas :
        /\ entregas[e].status = "FALHA_STORAGE" /\ E!Ir(p, "reenviar", e)
        /\ lida' = [lida EXCEPT ![p] = entregas[e].tentativas]
  BY DEF E!Retentar
<1>2. "reenviar" \in E!Pontos /\ pcEntrega[p] = "ocioso" /\ alvo[p] = Nada
         /\ entregas' = entregas
  BY NoPonto DEF E!Pontos, E!Retentar, E!Disponivel
<1>3. /\ objetos' = objetos /\ E!L!Agendados' = E!L!Agendados /\ perdas' = perdas
      /\ objetos' \subseteq Entregas /\ jobs' \in [Entregas -> Job]
      /\ posse' \in [Pedidos -> [Entregas -> Posse]]
      /\ falhas' \in 0 .. MaxFalhas /\ PosseAgendada'
  BY SemFila DEF E!Retentar
<1>4. /\ pcEntrega' \in [Pedidos -> E!Pontos] /\ alvo' \in [Pedidos -> Entregas \cup {Nada}]
      /\ pcEntrega'[p] = "reenviar" /\ alvo'[p] = e
  BY <1>1, <1>2, IrOK
<1>5. lida' \in [Pedidos -> Nat]
  <2>1. entregas[e].tentativas \in Nat
    BY CamposDaEntrega DEF Entrega
  <2> QED
    BY <1>1, <2>1, CamposDaEntrega
<1>6. E!TypeOK'
  BY <1>2, <1>3, <1>4, <1>5, CamposDaEntrega, TiposOK
<1>7. \A q \in Pedidos \ {p} : PontoOK(q)'
  <2>1. \A q \in Pedidos \ {p} : pcEntrega[q] \in {"enviar", "contar"} =>
          entregas'[alvo[q]].status = "INTEGRA" /\ alvo[q] # e
    BY <1>1, <1>2, NoPonto DEF PontoOK
  <2> QED
    BY <1>1, <1>2, <1>3, <2>1, PontosAlheios DEF E!Existe
<1>8. PontoOK(p)'
  BY <1>1, <1>2, <1>4, CamposDaEntrega DEF PontoOK, E!Existe
<1>a. E!SemCompensacaoArmazenada' /\ E!RetificacaoDeBase'
  BY <1>2, <1>3, ArmazenadaOK
<1> QED
  BY <1>3, <1>6, <1>7, <1>8, <1>a DEF EInv

(* A request in course goes on to another point, about the same delivery. *)
LEMMA SeguirEInv ==
  ASSUME EInv, NEW p \in Pedidos, pcEntrega[p] \notin {"ocioso", "inserir"},
         NEW ponto \in E!Pontos \ {"ocioso", "inserir", "enviar"}, E!Seguir(p, ponto),
         objetos' \subseteq Entregas, jobs' \in [Entregas -> Job],
         posse' \in [Pedidos -> [Entregas -> Posse]],
         falhas' \in 0 .. MaxFalhas, PosseAgendada',
         E!L!Agendados \subseteq E!L!Agendados',
         objetos \subseteq objetos' \cup E!L!Agendados,
         entregas' = entregas, perdas' = perdas,
         ponto = "contar" => pcEntrega[p] = "enviar",
         ponto \in {"contar", "recuperar"} => alvo[p] \in objetos' \cup E!L!Agendados',
         ponto = "limpar" => alvo[p] \in E!L!Agendados'
  PROVE  EInv'
<1>1. alvo[p] \in Entregas /\ E!Existe(alvo[p]) /\ alvo[p] # Nada /\ PontoOK(p)
  BY NoPonto, CamposDaEntrega
<1>2. E!Ir(p, ponto, alvo[p]) /\ lida' = lida
  BY DEF E!Seguir
<1>3. /\ pcEntrega' \in [Pedidos -> E!Pontos] /\ alvo' \in [Pedidos -> Entregas \cup {Nada}]
      /\ pcEntrega'[p] = ponto /\ alvo'[p] = alvo[p]
      /\ \A q \in Pedidos \ {p} : pcEntrega'[q] = pcEntrega[q] /\ alvo'[q] = alvo[q]
  BY <1>1, <1>2, IrOK
<1>4. E!TypeOK'
  BY <1>2, <1>3, CamposDaEntrega, TiposOK
<1>5. \A q \in Pedidos \ {p} : PontoOK(q)'
  <2>1. \A q \in Pedidos \ {p} : pcEntrega[q] \in {"enviar", "contar"} =>
          entregas'[alvo[q]].status = "INTEGRA" /\ alvo[q] # alvo[p]
    BY PrimeiroSozinho, NoPonto DEF PontoOK
  <2> QED
    BY <1>1, <1>2, <2>1, PontosAlheios DEF E!Existe
<1>6. PontoOK(p)'
  <2>1. ponto = "contar" =>
          /\ entregas[alvo[p]].status = "INTEGRA"
          /\ \A q \in Pedidos : q # p /\ alvo[q] = alvo[p] => pcEntrega[q] = "inserir"
    BY <1>1 DEF PontoOK
  <2> QED
    BY <1>1, <1>3, <2>1 DEF PontoOK, E!Existe
<1>8. E!SemCompensacaoArmazenada' /\ E!RetificacaoDeBase'
  BY ArmazenadaOK
<1> QED
  BY <1>4, <1>5, <1>6, <1>8 DEF EInv

(* The upload, done or failed. *)
LEMMA EnviarEInv ==
  ASSUME EInv, NEW p \in Pedidos, E!Enviar(p) \/ E!EnviarErro(p) PROVE EInv'
<1>1. pcEntrega[p] \in {"enviar", "reenviar"} /\ alvo[p] \in Entregas
  BY NoPonto DEF E!Enviar, E!EnviarErro
<1>2. /\ jobs' = jobs /\ posse' = posse /\ entregas' = entregas /\ perdas' = perdas
      /\ E!L!Agendados' = E!L!Agendados /\ falhas' \in 0 .. MaxFalhas
  BY CamposDaEntrega, FalhaDaFila DEF E!Enviar, E!EnviarErro, E!L!Agendados
<1>3. PosseAgendada'
  BY <1>2 DEF EInv, PosseAgendada
<1>4. objetos \subseteq objetos' /\ objetos' \subseteq Entregas
  BY <1>1, CamposDaEntrega DEF E!Enviar, E!EnviarErro
<1>5. PICK ponto \in {"contar", "recuperar", "marcar"} :
        /\ E!Seguir(p, ponto) /\ (ponto = "contar" => pcEntrega[p] = "enviar")
        /\ ponto \in {"contar", "recuperar"} => alvo[p] \in objetos'
  <2>1. CASE E!Enviar(p)
    <3>1. alvo[p] \in objetos' /\ E!Seguir(p, IF pcEntrega[p] = "enviar" THEN "contar"
             ELSE "recuperar")
      BY <2>1 DEF E!Enviar
    <3> QED
      BY <3>1
  <2>2. CASE E!EnviarErro(p)
    BY <2>2 DEF E!EnviarErro
  <2> QED
    BY <2>1, <2>2
<1>6. ponto \in E!Pontos \ {"ocioso", "inserir", "enviar"}
         /\ pcEntrega[p] \notin {"ocioso", "inserir"}
  BY <1>1 DEF E!Pontos
<1> QED
  BY <1>1, <1>2, <1>3, <1>4, <1>5, <1>6, CamposDaEntrega, SeguirEInv

(* A request in course ends, or goes on, with a write of its delivery. *)
LEMMA EscreverEInv ==
  ASSUME EInv, NEW p \in Pedidos, pcEntrega[p] \in {"contar", "recuperar", "marcar"},
         NEW ponto \in E!Pontos, NEW a \in Entregas \cup {Nada}, E!Ir(p, ponto, a),
         lida' \in [Pedidos -> Nat],
         \/ ponto = "ocioso" /\ a = Nada /\ pcEntrega[p] # "marcar"
         \/ ponto = "enfileirar" /\ a = alvo[p] /\ pcEntrega[p] = "marcar",
         NEW s \in {"INTEGRA", "FALHA_STORAGE"}, NEW n \in Nat,
         entregas' = [entregas EXCEPT ![alvo[p]] =
           [status |-> s, tentativas |-> n, original |-> entregas[alvo[p]].original]],
         s = "INTEGRA" <=> pcEntrega[p] # "marcar",
         UNCHANGED <<E!filaVars, falhas, perdas>>
  PROVE  EInv'
<1> DEFINE e == alvo[p]
<1>1. e \in Entregas /\ E!Existe(e) /\ e # Nada /\ PontoOK(p) /\ entregas[e] \in Entrega
  BY NoPonto, CamposDaEntrega
<1>2. /\ objetos' = objetos /\ E!L!Agendados' = E!L!Agendados /\ perdas' = perdas
      /\ objetos' \subseteq Entregas /\ jobs' \in [Entregas -> Job]
      /\ posse' \in [Pedidos -> [Entregas -> Posse]]
      /\ falhas' \in 0 .. MaxFalhas /\ PosseAgendada'
  BY SemFila
<1>3. /\ pcEntrega' \in [Pedidos -> E!Pontos] /\ alvo' \in [Pedidos -> Entregas \cup {Nada}]
      /\ pcEntrega'[p] = ponto /\ alvo'[p] = a
      /\ \A q \in Pedidos \ {p} : pcEntrega'[q] = pcEntrega[q] /\ alvo'[q] = alvo[q]
  BY IrOK
<1>4. /\ entregas' \in [Entregas -> Entrega] /\ entregas'[e].status = s
      /\ entregas'[e].original = entregas[e].original
      /\ \A f \in Entregas \ {e} : entregas'[f] = entregas[f]
  <2>1. PICK x : x = [status |-> s, tentativas |-> n, original |-> entregas[e].original]
    OBVIOUS
  <2>2. /\ x \in Entrega /\ x.status = s /\ x.original = entregas[e].original
        /\ entregas' = [entregas EXCEPT ![e] = x]
    BY <1>1, <2>1 DEF Entrega, E!Status
  <2> QED
    BY <1>1, <2>2, CamposDaEntrega
<1>5. E!TypeOK'
  BY <1>2, <1>3, <1>4, CamposDaEntrega, TiposOK
<1>6. \A f \in Entregas : /\ entregas'[f].original = entregas[f].original
                          /\ E!Existe(f) => E!Existe(f)'
  BY <1>1, <1>4 DEF E!Existe
<1>7. \A q \in Pedidos \ {p} : PontoOK(q)'
  <2>1. \A q \in Pedidos \ {p} : pcEntrega[q] \in {"enviar", "contar"} =>
          alvo[q] # e /\ alvo[q] \in Entregas /\ entregas[alvo[q]].status = "INTEGRA"
    BY PrimeiroSozinho, NoPonto DEF PontoOK
  <2>2. \A q \in Pedidos \ {p} : pcEntrega[q] \in {"enviar", "contar"} =>
          entregas'[alvo[q]].status = "INTEGRA" /\ (ponto # "inserir" => alvo[q] # a)
    BY <1>4, <2>1, CamposDaEntrega
  <2> QED
    BY <1>2, <1>6, <2>2, PontosAlheios
<1>8. PontoOK(p)'
  <2>1. entregas'[e].status # "AUSENTE"
    BY <1>4
  <2> QED
    BY <1>1, <1>3, <2>1 DEF PontoOK, E!Existe
<1>a. E!SemCompensacaoArmazenada'
  <2>1. SUFFICES ASSUME NEW f \in Entregas, entregas'[f].status = "INTEGRA",
                        entregas'[f].tentativas > 0, f \notin E!L!Agendados
                 PROVE  f \in objetos
    BY <1>2 DEF E!SemCompensacaoArmazenada
  <2>2. CASE f = e
    BY <1>1, <1>2, <1>4, <2>1, <2>2 DEF PontoOK
  <2>3. CASE f # e
    BY <1>4, <2>1, <2>3 DEF EInv, E!SemCompensacaoArmazenada
  <2> QED
    BY <2>2, <2>3
<1>b. E!RetificacaoDeBase'
  BY <1>6, BaseOK
<1> QED
  BY <1>2, <1>5, <1>7, <1>8, <1>a, <1>b DEF EInv

(* The attempt is counted. *)
LEMMA ContarEInv ==
  ASSUME EInv, NEW p \in Pedidos, E!Contar(p) \/ E!Recuperar(p) \/ E!Marcar(p) PROVE EInv'
<1> DEFINE e == alvo[p]
<1>1. /\ e \in Entregas /\ PontoOK(p) /\ entregas[e] \in Entrega
            /\ entregas \in [Entregas -> Entrega]
      /\ pcEntrega[p] \in {"contar", "recuperar", "marcar"}
            /\ UNCHANGED <<E!filaVars, falhas, perdas>>
  BY NoPonto, CamposDaEntrega DEF E!Contar, E!Recuperar, E!Marcar
<1>2. entregas[e].tentativas + 1 \in Nat /\ lida[p] + 1 \in Nat
  BY <1>1, CamposDaEntrega DEF Entrega
<1>3. "ocioso" \in E!Pontos /\ "enfileirar" \in E!Pontos
  BY DEF E!Pontos
<1>4. CASE E!Contar(p)
  <2>1. entregas[e].status = "INTEGRA" /\ pcEntrega[p] = "contar"
    BY <1>1, <1>4 DEF PontoOK, E!Contar
  <2>2. [entregas[e] EXCEPT !.tentativas = @ + 1]
          = [status |-> "INTEGRA", tentativas |-> entregas[e].tentativas + 1,
             original |-> entregas[e].original]
    BY <1>1, <2>1 DEF Entrega
  <2>3. entregas' = [entregas EXCEPT ![e] =
          [status |-> "INTEGRA", tentativas |-> entregas[e].tentativas + 1,
           original |-> entregas[e].original]]
    <3>1. entregas' = [entregas EXCEPT ![e] = [entregas[e] EXCEPT !.tentativas = @ + 1]]
      BY <1>1, <1>4 DEF E!Contar
    <3> QED
      BY <2>2, <3>1
  <2>4. E!Ir(p, "ocioso", Nada) /\ lida' \in [Pedidos -> Nat]
    BY <1>4, EncerrarOK DEF E!Contar
  <2> QED
    BY <1>1, <1>2, <1>3, <2>1, <2>3, <2>4, EscreverEInv
<1>5. CASE E!Recuperar(p)
  <2>1. entregas' = [entregas EXCEPT ![e] =
          [status |-> "INTEGRA", tentativas |-> lida[p] + 1,
           original |-> entregas[e].original]]
    <3>1. entregas' = [entregas EXCEPT ![e] =
            [entregas[e] EXCEPT !.status = "INTEGRA", !.tentativas = lida[p] + 1]]
      BY <1>1, <1>5 DEF E!Recuperar
    <3> QED
      BY <1>1, <1>2, <3>1, LinhaDaEntrega DEF E!Status
  <2>2. E!Ir(p, "ocioso", Nada) /\ lida' \in [Pedidos -> Nat] /\ pcEntrega[p] = "recuperar"
    BY <1>5, EncerrarOK DEF E!Recuperar
  <2> QED
    BY <1>1, <1>2, <1>3, <2>1, <2>2, EscreverEInv
<1>6. CASE E!Marcar(p)
  <2>1. entregas' = [entregas EXCEPT ![e] =
          [status |-> "FALHA_STORAGE", tentativas |-> entregas[e].tentativas + 1,
           original |-> entregas[e].original]]
    <3>1. entregas' = [entregas EXCEPT ![e] =
            [entregas[e] EXCEPT !.status = "FALHA_STORAGE",
                                !.tentativas = entregas[e].tentativas + 1]]
      BY <1>1, <1>6 DEF E!Marcar
    <3> QED
      BY <1>1, <1>2, <3>1, LinhaDaEntrega DEF E!Status
  <2>2. E!Ir(p, "enfileirar", e) /\ lida' \in [Pedidos -> Nat] /\ pcEntrega[p] = "marcar"
    BY <1>6, CamposDaEntrega DEF E!Marcar, E!Seguir
  <2> QED
    BY <1>1, <1>2, <1>3, <2>1, <2>2, EscreverEInv
<1> QED
  BY <1>4, <1>5, <1>6

(* A request in course ends and writes nothing of its delivery. *)
LEMMA EncerrarEInv ==
  ASSUME EInv, NEW p \in Pedidos, pcEntrega[p] # "ocioso", E!Encerrar(p),
         objetos' \subseteq objetos, jobs' \in [Entregas -> Job],
         posse' \in [Pedidos -> [Entregas -> Posse]],
         falhas' \in 0 .. MaxFalhas, PosseAgendada',
         E!L!Agendados \subseteq E!L!Agendados',
         objetos \subseteq objetos' \cup E!L!Agendados,
         entregas' = entregas, perdas' \subseteq Entregas
  PROVE  EInv'
<1>1. E!Ir(p, "ocioso", Nada) /\ lida' \in [Pedidos -> Nat] /\ "ocioso" \in E!Pontos
  BY EncerrarOK
<1>2. /\ pcEntrega' \in [Pedidos -> E!Pontos] /\ alvo' \in [Pedidos -> Entregas \cup {Nada}]
      /\ pcEntrega'[p] = "ocioso" /\ alvo'[p] = Nada
  BY <1>1, IrOK
<1>3. E!TypeOK'
  BY <1>1, <1>2, CamposDaEntrega, TiposOK
<1>4. \A q \in Pedidos \ {p} : PontoOK(q)'
  <2>1. \A q \in Pedidos \ {p} : pcEntrega[q] \in {"enviar", "contar"} =>
          entregas'[alvo[q]].status = "INTEGRA" /\ alvo[q] # Nada
    BY NoPonto, CamposDaEntrega DEF PontoOK
  <2> QED
    BY <1>1, <2>1, PontosAlheios DEF E!Existe
<1>5. PontoOK(p)'
  BY <1>2 DEF PontoOK
<1>7. E!SemCompensacaoArmazenada' /\ E!RetificacaoDeBase'
  BY ArmazenadaOK
<1> QED
  BY <1>3, <1>4, <1>5, <1>7 DEF EInv

(* The compensation is scheduled. *)
LEMMA EnfileirarEInv ==
  ASSUME EInv, NEW p \in Pedidos, E!Enfileirar(p) PROVE EInv'
<1>1. pcEntrega[p] = "enfileirar" /\ alvo[p] \in Entregas
  BY NoPonto DEF E!Enfileirar
<1>2. FilaOK /\ alvo[p] \in E!L!Agendados'
  BY <1>1, AgendarNaEntrega DEF E!Enfileirar
<1>3. /\ objetos' \subseteq objetos /\ jobs' \in [Entregas -> Job]
      /\ posse' \in [Pedidos -> [Entregas -> Posse]]
      /\ falhas' \in 0 .. MaxFalhas /\ PosseAgendada'
      /\ E!L!Agendados \subseteq E!L!Agendados'
      /\ objetos \subseteq objetos' \cup E!L!Agendados
      /\ entregas' = entregas /\ perdas' = perdas /\ objetos' \subseteq Entregas
  BY <1>2, CamposDaEntrega DEF FilaOK, E!Enfileirar
<1>4. CASE E!Encerrar(p)
  BY <1>1, <1>2, <1>3, <1>4, CamposDaEntrega, EncerrarEInv
<1>5. CASE E!Seguir(p, "limpar")
  <2>1. "limpar" \in E!Pontos \ {"ocioso", "inserir", "enviar"}
    BY DEF E!Pontos
  <2> QED
    BY <1>1, <1>2, <1>3, <1>5, <2>1, SeguirEInv
<1> QED
  BY <1>4, <1>5 DEF E!Enfileirar

(* The compensation cannot be scheduled, or the process falls. *)
LEMMA PerderEInv ==
  ASSUME EInv, NEW p \in Pedidos, E!EnfileirarErro(p) \/ E!Cair(p) PROVE EInv'
<1>1. pcEntrega[p] # "ocioso" /\ alvo[p] \in Entregas /\ E!Encerrar(p)
         /\ entregas' = entregas
  BY NoPonto DEF E!EnfileirarErro, E!Cair
<1>2. /\ objetos' = objetos /\ E!L!Agendados' = E!L!Agendados
      /\ jobs' \in [Entregas -> Job]
      /\ posse' \in [Pedidos -> [Entregas -> Posse]]
      /\ falhas' \in 0 .. MaxFalhas /\ PosseAgendada'
  BY SemFila DEF E!EnfileirarErro, E!Cair
<1>3. perdas' \subseteq Entregas
  BY <1>1, CamposDaEntrega DEF E!EnfileirarErro, E!Cair
<1> QED
  BY <1>1, <1>2, <1>3, EncerrarEInv

(* The cleanup after a failure that could be scheduled. *)
LEMMA LimparEInv ==
  ASSUME EInv, NEW p \in Pedidos, E!Limpar(p) PROVE EInv'
<1>1. pcEntrega[p] = "limpar" /\ alvo[p] \in Entregas /\ alvo[p] \in E!L!Agendados
         /\ E!Encerrar(p)
  BY NoPonto DEF E!Limpar, PontoOK
<1>2. FilaOK
  BY <1>1, ReivindicarNaEntrega DEF E!Limpar
<1> QED
  BY <1>1, <1>2, CamposDaEntrega, EncerrarEInv DEF FilaOK, E!Limpar

(* The original of a rectification is read. *)
LEMMA LerOriginalEInv ==
  ASSUME EInv, NEW p \in Pedidos, E!LerOriginal(p) PROVE EInv'
<1>1. PICK e \in Entregas : E!Existe(e) /\ entregas[e].original = Nada
              /\ E!Ir(p, "inserir", e)
  BY DEF E!LerOriginal
<1>2. "inserir" \in E!Pontos /\ pcEntrega[p] = "ocioso" /\ alvo[p] = Nada
         /\ entregas' = entregas
  BY NoPonto DEF E!Pontos, E!LerOriginal, E!Disponivel
<1>3. /\ objetos' = objetos /\ E!L!Agendados' = E!L!Agendados /\ perdas' = perdas
            /\ lida' = lida
      /\ objetos' \subseteq Entregas /\ jobs' \in [Entregas -> Job]
      /\ posse' \in [Pedidos -> [Entregas -> Posse]]
      /\ falhas' \in 0 .. MaxFalhas /\ PosseAgendada'
  BY SemFila DEF E!LerOriginal
<1>4. /\ pcEntrega' \in [Pedidos -> E!Pontos] /\ alvo' \in [Pedidos -> Entregas \cup {Nada}]
      /\ pcEntrega'[p] = "inserir" /\ alvo'[p] = e
  BY <1>1, <1>2, IrOK
<1>5. E!TypeOK'
  BY <1>2, <1>3, <1>4, CamposDaEntrega, TiposOK
<1>6. \A q \in Pedidos \ {p} : PontoOK(q)'
  <2>1. \A q \in Pedidos \ {p} : pcEntrega[q] \in {"enviar", "contar"} =>
          entregas'[alvo[q]].status = "INTEGRA"
    BY <1>2, NoPonto DEF PontoOK
  <2> QED
    BY <1>1, <1>2, <1>3, <2>1, PontosAlheios DEF E!Existe
<1>7. PontoOK(p)'
  BY <1>1, <1>2, <1>4, CamposDaEntrega DEF PontoOK, E!Existe
<1>9. E!SemCompensacaoArmazenada' /\ E!RetificacaoDeBase'
  BY <1>2, <1>3, ArmazenadaOK
<1> QED
  BY <1>3, <1>5, <1>6, <1>7, <1>9 DEF EInv

(* The rectification of the original that was read is inserted. *)
LEMMA InserirRetificadoraEInv ==
  ASSUME EInv, NEW p \in Pedidos, E!InserirRetificadora(p) PROVE EInv'
<1>1. /\ pcEntrega[p] = "inserir" /\ alvo[p] \in Entregas /\ E!Existe(alvo[p])
      /\ entregas[alvo[p]].original = Nada /\ E!Encerrar(p)
  BY NoPonto DEF E!InserirRetificadora, PontoOK
<1>2. /\ objetos' = objetos /\ E!L!Agendados' = E!L!Agendados /\ perdas' = perdas
      /\ objetos' \subseteq Entregas /\ jobs' \in [Entregas -> Job]
      /\ posse' \in [Pedidos -> [Entregas -> Posse]]
      /\ falhas' \in 0 .. MaxFalhas /\ PosseAgendada'
  BY SemFila DEF E!InserirRetificadora
<1>3. CASE entregas' = entregas
  BY <1>1, <1>2, <1>3, CamposDaEntrega, EncerrarEInv
<1>4. ASSUME NEW e \in Entregas, E!Inserir(e, alvo[p]) PROVE EInv'
  <2>1. E!Ir(p, "ocioso", Nada) /\ lida' \in [Pedidos -> Nat] /\ "ocioso" \in E!Pontos
    BY <1>1, EncerrarOK
  <2>2. /\ pcEntrega' \in [Pedidos -> E!Pontos] /\ alvo' \in [Pedidos -> Entregas
              \cup {Nada}]
        /\ pcEntrega'[p] = "ocioso" /\ alvo'[p] = Nada
    BY <2>1, IrOK
  <2>3. /\ ~E!Existe(e) /\ entregas' \in [Entregas -> Entrega]
        /\ entregas'[e].status = "INTEGRA"
        /\ \A f \in Entregas \ {e} : entregas'[f] = entregas[f]
        /\ \A f \in Entregas : E!Existe(f) => f # e /\ E!Existe(f)'
    BY <1>1, <1>4, InserirOK
  <2>4. E!TypeOK'
    BY <1>2, <2>1, <2>2, <2>3, CamposDaEntrega, TiposOK
  <2>5. \A q \in Pedidos \ {p} : PontoOK(q)'
    <3>1. \A q \in Pedidos \ {p} : pcEntrega[q] \in {"enviar", "contar"} =>
            entregas'[alvo[q]].status = "INTEGRA" /\ alvo[q] # Nada
      BY <2>3, NoPonto, CamposDaEntrega DEF PontoOK
    <3>2. \A f \in Entregas : E!Existe(f) =>
             E!Existe(f)' /\ entregas'[f].original = entregas[f].original
      BY <2>3
    <3> QED
      BY <1>2, <2>1, <3>1, <3>2, PontosAlheios
  <2>6. PontoOK(p)'
    BY <2>2 DEF PontoOK
  <2>8. E!SemCompensacaoArmazenada' /\ E!RetificacaoDeBase'
    BY <1>1, <1>2, <1>4, InseridaOK
  <2> QED
    BY <1>2, <2>4, <2>5, <2>6, <2>8 DEF EInv
<1> QED
  BY <1>3, <1>4 DEF E!InserirRetificadora

(* The calls of processJobs. *)
LEMMA LimpezaEInv ==
  ASSUME EInv, E!ExecutarLimpeza PROVE EInv'
<1>1. FilaOK
  <2>1. ASSUME NEW p \in Pedidos, E!L!ExecutarCron(p) PROVE FilaOK
    <3>1. E!L!Reivindicar(p, Entregas)
      BY <2>1 DEF E!L!ExecutarCron
    <3> QED
      BY <3>1, ReivindicarNaEntrega
  <2> QED
    BY <2>1, TrabalhoNaEntrega, VencerNaEntrega DEF E!ExecutarLimpeza
<1>2. UNCHANGED <<entregas, pcEntrega, alvo, lida, perdas>>
  BY DEF E!ExecutarLimpeza
<1>3. /\ objetos' \subseteq objetos /\ jobs' \in [Entregas -> Job]
      /\ posse' \in [Pedidos -> [Entregas -> Posse]]
      /\ falhas' \in 0 .. MaxFalhas /\ PosseAgendada'
      /\ E!L!Agendados \subseteq E!L!Agendados'
      /\ objetos \subseteq objetos' \cup E!L!Agendados
  BY <1>1 DEF FilaOK
<1>4. E!TypeOK'
  BY <1>2, <1>3, CamposDaEntrega, TiposOK
<1>5. ASSUME NEW q \in Pedidos PROVE PontoOK(q)'
  BY <1>2, <1>3, NoPonto DEF PontoOK, E!Existe
<1>7. E!SemCompensacaoArmazenada' /\ E!RetificacaoDeBase'
  BY <1>2, <1>3, ArmazenadaOK
<1> QED
  BY <1>3, <1>4, <1>5, <1>7 DEF EInv

(* Every step of the module. *)
LEMMA PassoEInv ==
  EInv /\ [E!Next]_(E!vars) => EInv'
<1> SUFFICES ASSUME EInv, [E!Next]_(E!vars) PROVE EInv'
  OBVIOUS
<1>1. CASE UNCHANGED E!vars
  <2>1. UNCHANGED <<E!filaVars, falhas, entregas, pcEntrega, alvo, lida, perdas>>
    BY <1>1 DEF E!vars, E!filaVars
  <2> QED
    BY <2>1 DEF EInv, E!TypeOK, E!L!TypeOK, PosseAgendada, E!L!Agendados, PontoOK, E!Existe,
       E!SemCompensacaoArmazenada, E!RetificacaoDeBase, E!filaVars
<1>2. CASE E!Next
  BY <1>2, RegistrarEInv, RetentarEInv, LerOriginalEInv, EnviarEInv, ContarEInv,
     EnfileirarEInv, PerderEInv, LimparEInv, InserirRetificadoraEInv, LimpezaEInv DEF E!Next
<1> QED
  BY <1>1, <1>2

(* No delivery, empty queue. *)
LEMMA InicioEInv ==
  E!Init => EInv
<1> SUFFICES ASSUME E!Init PROVE EInv
  OBVIOUS
<1>1. /\ objetos = {} /\ jobs = [k \in Entregas |-> E!L!SemJob]
      /\ posse = [w \in Pedidos |-> [k \in Entregas |-> E!L!SemPosse]] /\ falhas = 0
  BY DEF E!Init, E!L!Init
<1>2. E!L!SemJob \in Job /\ E!L!SemPosse \in Posse /\ E!L!SemPosse.fase = "nada"
         /\ E!Ausente \in Entrega
  BY DEF E!L!SemJob, Job, E!L!Status, E!L!SemPosse, Posse, E!L!Fases, E!Ausente, Entrega,
     E!Status
<1>3. 0 \in 0 .. MaxFalhas
  BY LimitesDasEntregas DEF E!L!LimpezaAssumption
<1>4. E!TypeOK
  BY <1>1, <1>2, <1>3 DEF E!Init, E!TypeOK, E!L!TypeOK, Job, Posse, Entrega, E!Pontos
<1>5. PosseAgendada
  BY <1>1, <1>2 DEF PosseAgendada
<1>6. \A p \in Pedidos : PontoOK(p)
  BY DEF E!Init, PontoOK
<1>7. \A e \in Entregas : entregas[e].status = "AUSENTE" /\ entregas[e].original = Nada
  BY DEF E!Init, E!Ausente
<1> QED
  BY <1>4, <1>5, <1>6, <1>7 DEF EInv, E!SemCompensacaoArmazenada, E!RetificacaoDeBase

-----------------------------------------------------------------------------
(* The first failure of a delivery and the job that compensates it.        *)

(* The removal of the object was done: the job says so, or is about to. *)
Removido(e) ==
  jobs[e].status = "CONCLUIDO" \/ \E w \in Pedidos : posse[w][e].fase = "concluir"

(* A retry of the upload that may still store the object, or any upload    *)
(* whose failure is still to be marked. *)
Escreve(p, e) == alvo[p] = e /\ pcEntrega[p] \in {"reenviar", "recuperar", "marcar"}

(* A retry, or a compensation, comes after a counted attempt. *)
ContagemOK(p) ==
  /\ pcEntrega[p] \in {"reenviar", "recuperar"} => lida[p] >= 1
  /\ pcEntrega[p] \in {"reenviar", "recuperar", "enfileirar"} =>
       entregas[alvo[p]].tentativas >= 1

(* No removal is scheduled, and no failure marked, without counting. *)
ContadaOK(e) ==
  /\ ~E!Existe(e) => entregas[e].tentativas = 0
  /\ entregas[e].status = "FALHA_STORAGE" => entregas[e].tentativas >= 1
  /\ entregas[e].tentativas = 0 => e \notin E!L!Agendados

(* The only attempt failed, was marked, and no retry is in course. *)
Primeira(e) ==
  /\ entregas[e].status = "FALHA_STORAGE" /\ entregas[e].tentativas = 1 /\ e \notin perdas
  /\ \A p \in Pedidos : ~Escreve(p, e)

(* Its removal is scheduled, or about to be; once done, the object is gone. *)
PrimeiraOK(e) ==
  Primeira(e) =>
    /\ \/ e \in E!L!Agendados
       \/ \E p \in Pedidos : alvo[p] = e /\ pcEntrega[p] = "enfileirar"
    /\ Removido(e) => e \notin objetos

FInv ==
  /\ \A p \in Pedidos : ContagemOK(p)
  /\ \A e \in Entregas : ContadaOK(e) /\ PrimeiraOK(e)

(* What a step of the queue does to the removals: none ends but by taking  *)
(* the object away, and nothing is scheduled. *)
RemocaoOK ==
  /\ objetos' \subseteq objetos
  /\ E!L!Agendados' = E!L!Agendados
  /\ \A e \in Entregas : Removido(e)' => Removido(e) \/ e \notin objetos'

(* The worker w is left in the place x for the key k; every other stays. *)
FaseDaFila(w, k, x) ==
  /\ posse' \in [Pedidos -> [Entregas -> Posse]]
  /\ posse'[w][k].fase = x
  /\ \A v \in Pedidos, o \in Entregas : v # w \/ o # k => posse'[v][o] = posse[v][o]

(* A worker goes on with one key. *)
LEMMA PassoNaFase ==
  ASSUME EInv, NEW w \in Pedidos, NEW k \in Entregas, NEW f \in E!L!Fases,
         E!L!Passo(w, k, f)
  PROVE  FaseDaFila(w, k, f)
<1>1. posse[w] \in [Entregas -> Posse] /\ posse[w][k] \in Posse
         /\ posse \in [Pedidos -> [Entregas -> Posse]]
  BY CamposDaEntrega
<1>2. PICK x : x = [posse[w][k] EXCEPT !.fase = f]
  OBVIOUS
<1>3. x \in Posse /\ x.fase = f
  BY <1>1, <1>2 DEF Posse
<1>4. posse' = [posse EXCEPT ![w] = [posse[w] EXCEPT ![k] = x]]
  BY <1>1, <1>2 DEF E!L!Passo
<1> QED
  BY <1>1, <1>3, <1>4 DEF FaseDaFila

(* A worker lets go of one key. *)
LEMMA SoltarNaFase ==
  ASSUME EInv, NEW w \in Pedidos, NEW k \in Entregas, E!L!Soltar(w, k)
  PROVE  FaseDaFila(w, k, "nada")
<1>1. posse[w] \in [Entregas -> Posse] /\ posse \in [Pedidos -> [Entregas -> Posse]]
         /\ E!L!SemPosse \in Posse /\ E!L!SemPosse.fase = "nada"
  BY CamposDaEntrega
<1>2. posse' = [posse EXCEPT ![w] = [posse[w] EXCEPT ![k] = E!L!SemPosse]]
  BY <1>1 DEF E!L!Soltar
<1> QED
  BY <1>1, <1>2 DEF FaseDaFila

(* The outcome of a job is recorded for its key only. *)
LEMMA RegistroNaFila ==
  ASSUME EInv, NEW w \in Pedidos, NEW k \in Entregas, NEW s \in {"CONCLUIDO", "FALHOU"},
         jobs' = jobs \/ E!L!Registrar(w, k, s)
  PROVE  \A o \in Entregas : jobs'[o].status = jobs[o].status \/ (o = k /\ jobs'[o].status = s)
<1>1. jobs \in [Entregas -> Job]
  BY CamposDaEntrega
<1>2. CASE jobs' = jobs
  BY <1>2
<1>3. CASE jobs' = [jobs EXCEPT ![k].status = s, ![k].vencido = FALSE]
  <2>1. PICK x : x = [jobs[k] EXCEPT !.status = s, !.vencido = FALSE]
    OBVIOUS
  <2>2. x.status = s
    BY <1>1, <2>1 DEF Job
  <2>3. jobs' = [jobs EXCEPT ![k] = x]
    BY <1>1, <1>3, <2>1 DEF Job
  <2> QED
    BY <1>1, <2>2, <2>3
<1> QED
  BY <1>2, <1>3 DEF E!L!Registrar

(* A worker leaves a key in another place, with its outcome. *)
LEMMA RemocaoDaFase ==
  ASSUME EInv, NEW w \in Pedidos, NEW k \in E!L!Agendados, NEW x \in E!L!Fases,
         FaseDaFila(w, k, x), FilaOK,
         NEW s \in {"CONCLUIDO", "FALHOU"},
         \A o \in Entregas : jobs'[o].status = jobs[o].status
                                \/ (o = k /\ jobs'[o].status = s),
         s = "CONCLUIDO" => posse[w][k].fase = "concluir",
         x = "concluir" => k \notin objetos'
  PROVE  RemocaoOK
<1>1. ASSUME NEW e \in Entregas, Removido(e)' PROVE Removido(e) \/ e \notin objetos'
  <2>1. CASE jobs'[e].status = "CONCLUIDO"
    BY <2>1 DEF Removido
  <2>2. ASSUME NEW v \in Pedidos, posse'[v][e].fase = "concluir"
        PROVE Removido(e) \/ e \notin objetos'
    BY <2>2 DEF Removido, FaseDaFila
  <2> QED
    BY <1>1, <2>1, <2>2 DEF Removido
<1>2. E!L!Agendados' = E!L!Agendados
  BY DEF E!L!Agendados
<1> QED
  BY <1>1, <1>2 DEF RemocaoOK, FilaOK

(* Nothing of a key is concluded by a step that does not touch its job and *)
(* gives it no such place. *)
LEMMA RemocaoSemFim ==
  ASSUME FilaOK,
         \A o \in Entregas : /\ jobs'[o].status = "CONCLUIDO" => jobs[o].status = "CONCLUIDO"
                             /\ jobs[o].status = "SEM_JOB" => jobs'[o].status = "SEM_JOB",
         \A v \in Pedidos, o \in Entregas :
           posse'[v][o].fase = "concluir" => posse[v][o].fase = "concluir"
  PROVE  RemocaoOK
<1>1. \A e \in Entregas : Removido(e)' => Removido(e)
  BY DEF Removido
<1>2. E!L!Agendados' = E!L!Agendados
  BY DEF E!L!Agendados, FilaOK
<1> QED
  BY <1>1, <1>2 DEF RemocaoOK, FilaOK

(* A worker claims a batch. *)
LEMMA ReivindicarRemove ==
  ASSUME EInv, NEW w \in Pedidos, NEW K \in SUBSET Entregas, E!L!Reivindicar(w, K)
  PROVE  RemocaoOK
<1>1. PICK S \in E!L!Candidatos(K) :
        /\ jobs' = [k \in Entregas |-> IF k \in S THEN E!L!Marcar(jobs[k]) ELSE jobs[k]]
        /\ posse' = [posse EXCEPT ![w] =
             [k \in Entregas |-> IF k \in S
                                 THEN [fase |-> "espera",
                                       tentativas |-> jobs'[k].tentativas]
                                 ELSE E!L!SemPosse]]
  BY DEF E!L!Reivindicar
<1>2. \A k \in S : jobs[k].status # "SEM_JOB"
  BY <1>1 DEF E!L!Candidatos, E!L!Elegivel
<1>3. \A k \in Entregas : E!L!Marcar(jobs[k]).status = "PROCESSANDO"
  <2>1. ASSUME NEW j \in Job PROVE E!L!Marcar(j).status = "PROCESSANDO"
    BY DEF E!L!Marcar, Job
  <2> QED
    BY <2>1, CamposDaEntrega
<1>4. \A v \in Pedidos, o \in Entregas :
        posse'[v][o].fase = "concluir" => posse[v][o].fase = "concluir"
  BY <1>1, CamposDaEntrega
<1>5. FilaOK
  BY ReivindicarNaEntrega
<1> QED
  BY <1>1, <1>2, <1>3, <1>4, <1>5, RemocaoSemFim

(* A worker at work. *)
LEMMA TrabalhoRemove ==
  ASSUME EInv, NEW w \in Pedidos, E!L!Trabalhar(w) \/ E!L!Falhar(w)
  PROVE  RemocaoOK
<1>0. FilaOK
  BY TrabalhoNaEntrega
<1>1. \A o \in Entregas : posse[w][o].fase # "nada" => o \in E!L!Agendados
  BY DEF EInv, PosseAgendada
<1>2. posse[w] \in [Entregas -> Posse] /\ posse \in [Pedidos -> [Entregas -> Posse]]
         /\ E!L!SemPosse.fase = "nada"
  BY CamposDaEntrega
<1>3. CASE E!L!IniciarFatia(w)
  <2>1. PICK S \in SUBSET E!L!EmEspera(w) :
          posse' = [posse EXCEPT ![w] =
            [k \in Entregas |-> IF k \in S THEN [posse[w][k] EXCEPT !.fase = "apagar"]
                                ELSE posse[w][k]]]
    BY <1>3 DEF E!L!IniciarFatia
  <2>2. \A k \in Entregas : [posse[w][k] EXCEPT !.fase = "apagar"].fase = "apagar"
    BY <1>2 DEF Posse
  <2>3. \A v \in Pedidos, o \in Entregas :
          posse'[v][o].fase = "concluir" => posse[v][o].fase = "concluir"
    BY <1>2, <2>1, <2>2
  <2>4. jobs' = jobs
    BY <1>3 DEF E!L!IniciarFatia
  <2> QED
    BY <1>0, <2>3, <2>4, RemocaoSemFim
<1>4. ASSUME NEW k \in Entregas, E!L!Apagar(w, k) \/ E!L!ApagarErro(w, k) PROVE RemocaoOK
  <2>1. k \in E!L!Agendados /\ jobs' = jobs
    BY <1>1, <1>4 DEF E!L!Apagar, E!L!ApagarErro
  <2>2. PICK f \in E!L!Fases :
          E!L!Passo(w, k, f) /\ (f = "concluir" => k \notin objetos')
    BY <1>4 DEF E!L!Apagar, E!L!ApagarErro, E!L!Fases
  <2>3. FaseDaFila(w, k, f)
    BY <1>4, <2>2, PassoNaFase
  <2>4. \A o \in Entregas :
          jobs'[o].status = jobs[o].status \/ (o = k /\ jobs'[o].status = "FALHOU")
    BY <2>1
  <2> QED
    BY <1>0, <2>1, <2>2, <2>3, <2>4, RemocaoDaFase
<1>5. ASSUME NEW k \in Entregas,
             E!L!Concluir(w, k) \/ E!L!ConcluirErro(w, k) \/ E!L!RegistrarFalha(w, k)
      PROVE  RemocaoOK
  <2>1. k \in E!L!Agendados
    BY <1>1, <1>5 DEF E!L!Concluir, E!L!ConcluirErro, E!L!RegistrarFalha
  <2>2. PICK s \in {"CONCLUIDO", "FALHOU"} :
          /\ jobs' = jobs \/ E!L!Registrar(w, k, s)
          /\ s = "CONCLUIDO" => posse[w][k].fase = "concluir"
    BY <1>5 DEF E!L!Concluir, E!L!ConcluirErro, E!L!RegistrarFalha
  <2>3. PICK f \in {"falhar", "nada"} : FaseDaFila(w, k, f)
    <3>1. E!L!Passo(w, k, "falhar") \/ E!L!Soltar(w, k)
      BY <1>5 DEF E!L!Concluir, E!L!ConcluirErro, E!L!RegistrarFalha
    <3>2. "falhar" \in E!L!Fases
      BY DEF E!L!Fases
    <3> QED
      BY <1>5, <3>1, <3>2, PassoNaFase, SoltarNaFase
  <2>4. \A o \in Entregas : jobs'[o].status = jobs[o].status \/ (o = k /\ jobs'[o].status = s)
    BY <1>5, <2>2, RegistroNaFila
  <2>5. f \in E!L!Fases /\ f # "concluir"
    BY DEF E!L!Fases
  <2> QED
    BY <1>0, <2>1, <2>2, <2>3, <2>4, <2>5, RemocaoDaFase
<1>6. ASSUME NEW k \in Entregas, E!L!RegistrarFalhaErro(w, k) PROVE RemocaoOK
  <2>1. k \in E!L!Agendados
    BY <1>1, <1>6 DEF E!L!RegistrarFalhaErro
  <2>2. \A o \in Entregas :
          jobs'[o].status = jobs[o].status \/ (o = k /\ jobs'[o].status = "FALHOU")
    BY <1>6, RegistroNaFila DEF E!L!RegistrarFalhaErro
  <2>3. \A v \in Pedidos, o \in Entregas :
          posse'[v][o].fase = "concluir" => posse[v][o].fase = "concluir"
    BY <1>2, <1>6 DEF E!L!RegistrarFalhaErro
  <2> QED
    BY <1>0, <2>1, <2>2, <2>3, RemocaoSemFim DEF E!L!Agendados
<1>7. CASE E!L!Cair(w)
  <2>1. \A v \in Pedidos, o \in Entregas :
          posse'[v][o].fase = "concluir" => posse[v][o].fase = "concluir"
    BY <1>2, <1>7 DEF E!L!Cair
  <2>2. jobs' = jobs
    BY <1>7 DEF E!L!Cair
  <2> QED
    BY <1>0, <2>1, <2>2, RemocaoSemFim
<1> QED
  BY <1>3, <1>4, <1>5, <1>6, <1>7 DEF E!L!Trabalhar, E!L!Falhar

(* A claim expires. *)
LEMMA VencerRemove ==
  ASSUME EInv, NEW k \in Entregas, E!L!Vencer(k) PROVE RemocaoOK
<1>1. jobs \in [Entregas -> Job] /\ jobs' = [jobs EXCEPT ![k].vencido = TRUE]
         /\ posse' = posse
  BY CamposDaEntrega DEF E!L!Vencer
<1>2. \A o \in Entregas : jobs'[o].status = jobs[o].status
  <2>1. [jobs[k] EXCEPT !.vencido = TRUE].status = jobs[k].status
    BY <1>1 DEF Job
  <2>2. \A o \in Entregas : jobs'[o] = IF o = k THEN [jobs[k] EXCEPT !.vencido = TRUE]
           ELSE jobs[o]
    BY <1>1
  <2> QED
    BY <2>1, <2>2
<1> QED
  BY <1>1, <1>2, VencerNaEntrega, RemocaoSemFim

(* A removal is scheduled: the job is new, and to be done. *)
LEMMA AgendarRemove ==
  ASSUME EInv, NEW e \in Entregas, E!L!Agendar({e})
  PROVE  /\ \A o \in Entregas : Removido(o)' => Removido(o)
         /\ E!L!Agendados' = E!L!Agendados \cup {e}
         /\ objetos' = objetos
<1>1. \A k \in Entregas : jobs'[k] = IF k \in {e} \ E!L!Agendados
         THEN [E!L!SemJob EXCEPT
                   !.status = "PENDENTE", !.criado = 1 + E!L!Cardinality(E!L!Agendados)]
         ELSE jobs[k]
  BY DEF E!L!Agendar
<1>2. [E!L!SemJob EXCEPT
          !.status = "PENDENTE", !.criado = 1 + E!L!Cardinality(E!L!Agendados)].status
        = "PENDENTE"
  BY DEF E!L!SemJob
<1>3. \A k \in Entregas : jobs'[k].status = IF k \in {e} \ E!L!Agendados
         THEN "PENDENTE" ELSE jobs[k].status
  BY <1>1, <1>2
<1>4. objetos' = objetos /\ posse' = posse
  BY DEF E!L!Agendar
<1> QED
  BY <1>3, <1>4 DEF Removido, E!L!Agendados

-----------------------------------------------------------------------------
(* The steps, seen from the first failure of a delivery.                   *)

(* A delivery whose row, object and requests a step leaves as they were. *)
LEMMA PrimeiraIntacta ==
  ASSUME FInv, NEW e \in Entregas, entregas'[e] = entregas[e],
         e \in objetos' => e \in objetos, e \in perdas => e \in perdas',
         e \in E!L!Agendados => e \in E!L!Agendados',
         Removido(e)' => Removido(e) \/ e \notin objetos',
         \A q \in Pedidos : Escreve(q, e) => Escreve(q, e)',
         \A q \in Pedidos : alvo[q] = e /\ pcEntrega[q] = "enfileirar" =>
           \/ alvo'[q] = e /\ pcEntrega'[q] = "enfileirar"
           \/ e \in E!L!Agendados'
  PROVE  PrimeiraOK(e)'
<1> SUFFICES ASSUME Primeira(e)'
             PROVE  /\ \/ e \in E!L!Agendados'
                       \/ \E q \in Pedidos : alvo'[q] = e /\ pcEntrega'[q] = "enfileirar"
                    /\ Removido(e)' => e \notin objetos'
  BY DEF PrimeiraOK
<1>1. Primeira(e)
  BY DEF Primeira
<1>2. /\ e \in E!L!Agendados \/ \E q \in Pedidos : alvo[q] = e /\ pcEntrega[q] = "enfileirar"
      /\ Removido(e) => e \notin objetos
  BY <1>1 DEF FInv, PrimeiraOK
<1> QED
  BY <1>2

(* The rows whose count a step leaves as it was. *)
LEMMA ContadaIntacta ==
  ASSUME FInv, NEW e \in Entregas, entregas'[e] = entregas[e],
         e \in E!L!Agendados' => e \in E!L!Agendados \/ entregas[e].tentativas >= 1
  PROVE  ContadaOK(e)'
BY DEF FInv, ContadaOK, E!Existe

(* The requests a step leaves where they were. *)
LEMMA ContagemIntacta ==
  ASSUME EInv, FInv, NEW q \in Pedidos,
         alvo'[q] = alvo[q], pcEntrega'[q] = pcEntrega[q], lida'[q] = lida[q],
         \A f \in Entregas : E!Existe(f) /\ entregas[f].tentativas >= 1 =>
           entregas'[f].tentativas >= 1
  PROVE  ContagemOK(q)'
<1>1. ContagemOK(q) /\ (pcEntrega[q] # "ocioso" => alvo[q] \in Entregas /\ E!Existe(alvo[q]))
  BY NoPonto DEF FInv
<1> QED
  BY <1>1 DEF ContagemOK

(* A request goes on, or ends, and writes no delivery. *)
LEMMA SemEscritaFInv ==
  ASSUME EInv, FInv, NEW p \in Pedidos, NEW ponto \in E!Pontos,
         NEW a \in Entregas \cup {Nada},
         E!Ir(p, ponto, a), \A q \in Pedidos \ {p} : lida'[q] = lida[q],
         entregas' = entregas, perdas \subseteq perdas',
         objetos' \subseteq objetos \cup {alvo[p]},
         E!L!Agendados \subseteq E!L!Agendados',
         \A e \in E!L!Agendados' :
           e \in E!L!Agendados \/ (pcEntrega[p] = "enfileirar" /\ e = alvo[p]),
         \A e \in Entregas : Removido(e)' => Removido(e) \/ e \notin objetos',
         ponto \in {"reenviar", "recuperar"} => lida'[p] >= 1,
         ponto \in {"reenviar", "recuperar", "enfileirar"} => entregas[a].tentativas >= 1,
         \/ /\ pcEntrega[p] \in {"ocioso", "limpar", "inserir"} /\ objetos' \subseteq objetos
         \/ /\ pcEntrega[p] = "enfileirar" /\ objetos' \subseteq objetos
            /\ alvo[p] \in E!L!Agendados'
         \/ ponto \in {"recuperar", "marcar"} /\ a = alvo[p]
         \/ entregas[alvo[p]].status = "INTEGRA"
         \/ alvo[p] \in perdas'
  PROVE  FInv'
<1>1. /\ pcEntrega'[p] = ponto /\ alvo'[p] = a
      /\ \A q \in Pedidos \ {p} : pcEntrega'[q] = pcEntrega[q] /\ alvo'[q] = alvo[q]
  BY IrOK
<1>2. ASSUME NEW q \in Pedidos PROVE ContagemOK(q)'
  <2>1. CASE q = p
    BY <1>1, <2>1 DEF ContagemOK
  <2>2. CASE q # p
    BY <1>1, <2>2, ContagemIntacta
  <2> QED
    BY <2>1, <2>2
<1>3. ASSUME NEW e \in Entregas PROVE ContadaOK(e)'
  <2>1. pcEntrega[p] = "enfileirar" => entregas[alvo[p]].tentativas >= 1
    BY DEF FInv, ContagemOK
  <2> QED
    BY <2>1, ContadaIntacta
<1>4. ASSUME NEW e \in Entregas PROVE PrimeiraOK(e)'
  <2>1. CASE e # alvo[p]
    <3>1. \A q \in Pedidos : alvo[q] = e =>
            q # p /\ alvo'[q] = e /\ pcEntrega'[q] = pcEntrega[q]
      BY <1>1, <2>1
    <3>2. e \in objetos' => e \in objetos
      BY <2>1
    <3>3. \A q \in Pedidos : Escreve(q, e) => Escreve(q, e)'
      BY <3>1 DEF Escreve
    <3>4. \A q \in Pedidos : alvo[q] = e /\ pcEntrega[q] = "enfileirar" =>
            alvo'[q] = e /\ pcEntrega'[q] = "enfileirar"
      BY <3>1
    <3> QED
      BY <3>2, <3>3, <3>4, PrimeiraIntacta
  <2>2. CASE /\ e = alvo[p] /\ objetos' \subseteq objetos
             /\ \/ pcEntrega[p] \in {"ocioso", "limpar", "inserir"}
                \/ pcEntrega[p] = "enfileirar" /\ alvo[p] \in E!L!Agendados'
    <3>1. \A q \in Pedidos : Escreve(q, e) => Escreve(q, e)'
      BY <1>1, <2>2 DEF Escreve
    <3>2. \A q \in Pedidos : alvo[q] = e /\ pcEntrega[q] = "enfileirar" =>
            \/ alvo'[q] = e /\ pcEntrega'[q] = "enfileirar"
            \/ e \in E!L!Agendados'
      BY <1>1, <2>2
    <3> QED
      BY <2>2, <3>1, <3>2, PrimeiraIntacta
  <2>3. CASE e = alvo[p] /\ ponto \in {"recuperar", "marcar"} /\ a = alvo[p]
    BY <1>1, <2>3 DEF PrimeiraOK, Primeira, Escreve
  <2>4. CASE e = alvo[p] /\ (entregas[alvo[p]].status = "INTEGRA" \/ alvo[p] \in perdas')
    BY <2>4 DEF PrimeiraOK, Primeira
  <2> QED
    BY <2>1, <2>2, <2>3, <2>4
<1> QED
  BY <1>2, <1>3, <1>4 DEF FInv

(* The queue is not touched. *)
LEMMA SemRemocao ==
  ASSUME UNCHANGED <<jobs, posse>>
  PROVE  /\ E!L!Agendados' = E!L!Agendados
         /\ \A e \in Entregas : Removido(e)' => Removido(e)
BY DEF E!L!Agendados, Removido

(* A request begins on a delivery: its upload again, or its rectification. *)
LEMMA IniciarFInv ==
  ASSUME EInv, FInv, NEW p \in Pedidos, E!Retentar(p) \/ E!LerOriginal(p) PROVE FInv'
<1>1. /\ pcEntrega[p] = "ocioso" /\ UNCHANGED <<jobs, posse, objetos, entregas, perdas>>
      /\ "reenviar" \in E!Pontos /\ "inserir" \in E!Pontos
  BY DEF E!Retentar, E!LerOriginal, E!Disponivel, E!filaVars, E!Pontos
<1>2. E!L!Agendados' = E!L!Agendados /\ \A e \in Entregas : Removido(e)' => Removido(e)
  BY <1>1, SemRemocao
<1>3. ASSUME NEW e \in Entregas, E!Ir(p, "inserir", e), lida' = lida PROVE FInv'
  BY <1>1, <1>2, <1>3, SemEscritaFInv
<1>4. ASSUME NEW e \in Entregas, entregas[e].status = "FALHA_STORAGE",
             E!Ir(p, "reenviar", e), lida' = [lida EXCEPT ![p] = entregas[e].tentativas]
      PROVE  FInv'
  <2>1. entregas[e].tentativas >= 1
    BY <1>4 DEF FInv, ContadaOK
  <2>2. lida'[p] >= 1 /\ \A q \in Pedidos \ {p} : lida'[q] = lida[q]
    BY <1>4, <2>1, CamposDaEntrega
  <2> QED
    BY <1>1, <1>2, <1>4, <2>1, <2>2, SemEscritaFInv
<1> QED
  BY <1>3, <1>4 DEF E!Retentar, E!LerOriginal

(* The upload, done or failed. *)
LEMMA EnviarFInv ==
  ASSUME EInv, FInv, NEW p \in Pedidos, E!Enviar(p) \/ E!EnviarErro(p) PROVE FInv'
<1>1. /\ pcEntrega[p] \in {"enviar", "reenviar"} /\ alvo[p] \in Entregas
      /\ pcEntrega[p] = "enviar" => entregas[alvo[p]].status = "INTEGRA"
      /\ pcEntrega[p] = "reenviar" => lida[p] >= 1 /\ entregas[alvo[p]].tentativas >= 1
  BY NoPonto DEF E!Enviar, E!EnviarErro, PontoOK, FInv, ContagemOK
<1>2. /\ UNCHANGED <<jobs, posse, entregas, perdas>>
      /\ objetos' \subseteq objetos \cup {alvo[p]}
  BY DEF E!Enviar, E!EnviarErro
<1>3. E!L!Agendados' = E!L!Agendados /\ \A e \in Entregas : Removido(e)' => Removido(e)
  BY <1>2, SemRemocao
<1>4. PICK ponto \in {"contar", "recuperar", "marcar"} :
        /\ E!Ir(p, ponto, alvo[p]) /\ lida' = lida
        /\ ponto = "contar" <=> E!Enviar(p) /\ pcEntrega[p] = "enviar"
        /\ ponto = "recuperar" => pcEntrega[p] = "reenviar"
  <2>1. CASE E!Enviar(p) /\ pcEntrega[p] = "enviar"
    BY <2>1 DEF E!Enviar, E!Seguir
  <2>2. CASE E!Enviar(p) /\ pcEntrega[p] = "reenviar"
    BY <2>2 DEF E!Enviar, E!Seguir
  <2>3. CASE E!EnviarErro(p) /\ ~E!Enviar(p)
    BY <2>3 DEF E!EnviarErro, E!Seguir
  <2> QED
    BY <1>1, <2>1, <2>2, <2>3
<1>5. ponto \in E!Pontos /\ pcEntrega[p] # "enfileirar"
  BY <1>1 DEF E!Pontos
<1> QED
  BY <1>1, <1>2, <1>3, <1>4, <1>5, SemEscritaFInv

(* A request ends, and its count with it. *)
LEMMA EncerrarFInv ==
  ASSUME EInv, FInv, NEW p \in Pedidos, E!Encerrar(p),
         entregas' = entregas, perdas \subseteq perdas', objetos' \subseteq objetos,
         E!L!Agendados \subseteq E!L!Agendados',
         \A e \in E!L!Agendados' :
           e \in E!L!Agendados \/ (pcEntrega[p] = "enfileirar" /\ e = alvo[p]),
         \A e \in Entregas : Removido(e)' => Removido(e) \/ e \notin objetos',
         \/ pcEntrega[p] \in {"limpar", "inserir"}
         \/ pcEntrega[p] = "enfileirar" /\ alvo[p] \in E!L!Agendados'
         \/ alvo[p] \in perdas'
  PROVE  FInv'
<1>1. E!Ir(p, "ocioso", Nada) /\ \A q \in Pedidos \ {p} : lida'[q] = lida[q]
  BY CamposDaEntrega DEF E!Encerrar
<1>2. "ocioso" \in E!Pontos
  BY DEF E!Pontos
<1> QED
  BY <1>1, <1>2, SemEscritaFInv

(* The compensation is scheduled, lost, or carried out. *)
LEMMA CompensarFInv ==
  ASSUME EInv, FInv, NEW p \in Pedidos,
         E!Enfileirar(p) \/ E!EnfileirarErro(p) \/ E!Limpar(p) \/ E!Cair(p)
  PROVE  FInv'
<1>1. CASE E!Enfileirar(p)
  <2>1. pcEntrega[p] = "enfileirar" /\ alvo[p] \in Entregas
           /\ E!L!Agendar({alvo[p]}) /\ entregas' = entregas /\ perdas' = perdas
    BY <1>1, NoPonto DEF E!Enfileirar
  <2>2. /\ \A o \in Entregas : Removido(o)' => Removido(o)
        /\ E!L!Agendados' = E!L!Agendados \cup {alvo[p]} /\ objetos' = objetos
    BY <2>1, AgendarRemove
  <2>3. CASE E!Encerrar(p)
    BY <2>1, <2>2, <2>3, EncerrarFInv
  <2>4. CASE E!Seguir(p, "limpar")
    <3>1. "limpar" \in E!Pontos /\ E!Ir(p, "limpar", alvo[p]) /\ lida' = lida
      BY <2>4 DEF E!Pontos, E!Seguir
    <3> QED
      BY <2>1, <2>2, <3>1, SemEscritaFInv
  <2> QED
    BY <1>1, <2>3, <2>4 DEF E!Enfileirar
<1>2. CASE E!Limpar(p)
  <2>1. pcEntrega[p] = "limpar" /\ alvo[p] \in Entregas /\ E!Encerrar(p)
           /\ E!L!Reivindicar(p, {alvo[p]}) /\ entregas' = entregas /\ perdas' = perdas
    BY <1>2, NoPonto DEF E!Limpar
  <2>2. RemocaoOK
    BY <2>1, ReivindicarRemove
  <2> QED
    BY <2>1, <2>2, EncerrarFInv DEF RemocaoOK
<1>3. CASE E!EnfileirarErro(p) \/ E!Cair(p)
  <2>1. /\ E!Encerrar(p) /\ UNCHANGED <<jobs, posse, objetos, entregas>>
        /\ perdas \subseteq perdas' /\ (pcEntrega[p] = "inserir" \/ alvo[p] \in perdas')
    BY <1>3 DEF E!EnfileirarErro, E!Cair, E!filaVars
  <2>2. E!L!Agendados' = E!L!Agendados /\ \A e \in Entregas : Removido(e)' => Removido(e)
    BY <2>1, SemRemocao
  <2> QED
    BY <2>1, <2>2, EncerrarFInv
<1> QED
  BY <1>1, <1>2, <1>3

(* The row of one delivery is written, its count not taken back to zero    *)
(* unless the row is new; the queue is not touched. *)
LEMMA EscritaFInv ==
  ASSUME EInv, FInv, NEW p \in Pedidos, NEW ponto \in {"ocioso", "enviar", "enfileirar"},
         NEW a \in Entregas \cup {Nada},
         E!Ir(p, ponto, a), \A q \in Pedidos \ {p} : lida'[q] = lida[q],
         UNCHANGED <<jobs, posse, objetos, perdas>>,
         NEW e \in Entregas, alvo[p] \in {e, Nada} \/ pcEntrega[p] = "inserir",
         \A f \in Entregas \ {e} : entregas'[f] = entregas[f],
         entregas'[e].status \in {"INTEGRA", "FALHA_STORAGE"},
         entregas'[e].status = "FALHA_STORAGE" =>
           /\ entregas'[e].tentativas >= 1 /\ a = e /\ ponto = "enfileirar"
           /\ entregas'[e].tentativas = 1 => entregas[e].tentativas = 0,
         entregas'[e].tentativas = 0 => ~E!Existe(e),
         entregas'[e].tentativas \in Nat,
         ponto = "enfileirar" => entregas'[a].tentativas >= 1
  PROVE  FInv'
<1>1. /\ pcEntrega'[p] = ponto /\ alvo'[p] = a
      /\ \A q \in Pedidos \ {p} : pcEntrega'[q] = pcEntrega[q] /\ alvo'[q] = alvo[q]
  <2>1. ponto \in E!Pontos
    BY DEF E!Pontos
  <2> QED
    BY <2>1, IrOK
<1>2. E!L!Agendados' = E!L!Agendados /\ \A f \in Entregas : Removido(f)' => Removido(f)
  BY SemRemocao
<1>3. \A f \in Entregas : E!Existe(f) /\ entregas[f].tentativas >= 1 =>
           entregas'[f].tentativas >= 1
  OBVIOUS
<1>4. ASSUME NEW q \in Pedidos PROVE ContagemOK(q)'
  <2>1. CASE q = p
    BY <1>1, <2>1 DEF ContagemOK
  <2>2. CASE q # p
    BY <1>1, <1>3, <2>2, ContagemIntacta
  <2> QED
    BY <2>1, <2>2
<1>5. ASSUME NEW f \in Entregas PROVE ContadaOK(f)'
  <2>1. CASE f = e
    <3>1. entregas'[e].tentativas = 0 => e \notin E!L!Agendados
      BY DEF FInv, ContadaOK
    <3> QED
      BY <1>2, <2>1, <3>1 DEF ContadaOK, E!Existe
  <2>2. CASE f # e
    BY <1>2, <2>2, ContadaIntacta
  <2> QED
    BY <2>1, <2>2
<1>6. ASSUME NEW f \in Entregas PROVE PrimeiraOK(f)'
  <2>1. CASE f = e
    <3> SUFFICES ASSUME Primeira(e)'
                 PROVE  /\ \E q \in Pedidos : alvo'[q] = e /\ pcEntrega'[q] = "enfileirar"
                        /\ ~Removido(e)'
      BY <2>1 DEF PrimeiraOK
    <3>1. a = e /\ ponto = "enfileirar" /\ entregas[e].tentativas = 0
      BY DEF Primeira
    <3>2. e \notin E!L!Agendados
      BY <3>1 DEF FInv, ContadaOK
    <3>3. ~Removido(e)
      BY <3>2 DEF Removido, E!L!Agendados, EInv, PosseAgendada
    <3> QED
      BY <1>1, <1>2, <3>1, <3>3
  <2>2. CASE f # e
    <3>1. \A q \in Pedidos : Escreve(q, f) => Escreve(q, f)'
      BY <1>1, <2>2, CamposDaEntrega DEF Escreve
    <3>2. \A q \in Pedidos : alvo[q] = f /\ pcEntrega[q] = "enfileirar" =>
            alvo'[q] = f /\ pcEntrega'[q] = "enfileirar"
      BY <1>1, <2>2, CamposDaEntrega
    <3> QED
      BY <1>2, <2>2, <3>1, <3>2, PrimeiraIntacta
  <2> QED
    BY <2>1, <2>2
<1> QED
  BY <1>4, <1>5, <1>6 DEF FInv

(* A row is inserted. *)
LEMMA InserirFInv ==
  ASSUME EInv, FInv, NEW p \in Pedidos, E!Registrar(p) \/ E!InserirRetificadora(p)
  PROVE  FInv'
<1>1. UNCHANGED <<jobs, posse, objetos, perdas>>
  BY DEF E!Registrar, E!InserirRetificadora, E!filaVars
<1>2. \A q \in Pedidos \ {p} : lida'[q] = lida[q]
  BY CamposDaEntrega DEF E!Registrar, E!InserirRetificadora, E!Encerrar
<1>3. alvo[p] = Nada \/ pcEntrega[p] = "inserir"
  BY NoPonto DEF E!Registrar, E!Disponivel, E!InserirRetificadora
<1>4. ASSUME NEW e \in Entregas, NEW o \in Entregas \cup {Nada}, E!Inserir(e, o),
             NEW ponto \in {"ocioso", "enviar"}, NEW a \in Entregas \cup {Nada},
             E!Ir(p, ponto, a)
      PROVE  FInv'
  <2>1. /\ ~E!Existe(e) /\ entregas'[e].status = "INTEGRA" /\ entregas'[e].tentativas = 0
        /\ \A f \in Entregas \ {e} : entregas'[f] = entregas[f]
    BY <1>4, InserirOK
  <2> QED
    BY <1>1, <1>2, <1>3, <1>4, <2>1, EscritaFInv
<1>5. CASE E!Registrar(p)
  BY <1>4, <1>5 DEF E!Registrar
<1>6. CASE E!InserirRetificadora(p) /\ entregas' = entregas
  <2>1. E!L!Agendados' = E!L!Agendados /\ \A e \in Entregas : Removido(e)' => Removido(e)
    BY <1>1, SemRemocao
  <2> QED
    BY <1>1, <1>6, <2>1, EncerrarFInv DEF E!InserirRetificadora
<1>7. CASE E!InserirRetificadora(p) /\ \E e \in Entregas : E!Inserir(e, alvo[p])
  <2>1. alvo[p] \in Entregas \cup {Nada} /\ E!Ir(p, "ocioso", Nada)
    BY <1>7, CamposDaEntrega DEF E!InserirRetificadora, E!Encerrar
  <2> QED
    BY <1>4, <1>7, <2>1
<1> QED
  BY <1>5, <1>6, <1>7 DEF E!InserirRetificadora

(* The attempt is counted, or the failure is marked. *)
LEMMA ContarFInv ==
  ASSUME EInv, FInv, NEW p \in Pedidos, E!Contar(p) \/ E!Recuperar(p) \/ E!Marcar(p)
  PROVE  FInv'
<1> DEFINE e == alvo[p]
<1>1. /\ e \in Entregas /\ PontoOK(p) /\ ContagemOK(p) /\ entregas[e] \in Entrega
      /\ entregas \in [Entregas -> Entrega] /\ lida[p] \in Nat
      /\ UNCHANGED <<jobs, posse, objetos, perdas>>
  BY NoPonto, CamposDaEntrega DEF E!Contar, E!Recuperar, E!Marcar, E!filaVars, FInv
<1>2. \A q \in Pedidos \ {p} : lida'[q] = lida[q]
  BY CamposDaEntrega DEF E!Contar, E!Recuperar, E!Marcar, E!Encerrar, E!Seguir
<1>3. PICK s \in {"INTEGRA", "FALHA_STORAGE"}, n \in Nat :
        /\ entregas' = [entregas EXCEPT ![e] =
             [status |-> s, tentativas |-> n, original |-> entregas[e].original]]
        /\ n >= 1
        /\ s = "FALHA_STORAGE" => E!Marcar(p) /\ n = entregas[e].tentativas + 1
  <2>1. entregas[e].tentativas \in Nat
    BY <1>1 DEF Entrega
  <2>2. CASE E!Contar(p)
    <3>1. entregas[e].status = "INTEGRA"
      BY <1>1, <2>2 DEF PontoOK, E!Contar
    <3>2. [entregas[e] EXCEPT !.tentativas = @ + 1]
            = [status |-> "INTEGRA", tentativas |-> entregas[e].tentativas + 1,
               original |-> entregas[e].original]
      BY <1>1, <3>1 DEF Entrega
    <3>3. entregas' = [entregas EXCEPT ![e] = [entregas[e] EXCEPT !.tentativas = @ + 1]]
      BY <1>1, <2>2 DEF E!Contar
    <3>4. entregas[e].tentativas + 1 \in Nat /\ entregas[e].tentativas + 1 >= 1
      BY <2>1
    <3> QED
      BY <3>2, <3>3, <3>4
  <2>3. CASE E!Recuperar(p)
    <3>1. entregas' = [entregas EXCEPT ![e] =
            [entregas[e] EXCEPT !.status = "INTEGRA", !.tentativas = lida[p] + 1]]
      BY <1>1, <2>3 DEF E!Recuperar
    <3>2. lida[p] + 1 \in Nat /\ lida[p] + 1 >= 1
      BY <1>1
    <3> QED
      BY <1>1, <3>1, <3>2, LinhaDaEntrega DEF E!Status
  <2>4. CASE E!Marcar(p)
    <3>1. entregas' = [entregas EXCEPT ![e] =
            [entregas[e] EXCEPT !.status = "FALHA_STORAGE",
                                !.tentativas = entregas[e].tentativas + 1]]
      BY <1>1, <2>4 DEF E!Marcar
    <3>2. entregas[e].tentativas + 1 \in Nat /\ entregas[e].tentativas + 1 >= 1
      BY <2>1
    <3> QED
      BY <1>1, <2>4, <3>1, <3>2, LinhaDaEntrega DEF E!Status
  <2> QED
    BY <2>2, <2>3, <2>4
<1>4. /\ entregas'[e].status = s /\ entregas'[e].tentativas = n
      /\ \A f \in Entregas \ {e} : entregas'[f] = entregas[f]
  BY <1>1, <1>3
<1>5. PICK ponto \in {"ocioso", "enfileirar"}, a \in {e, Nada} :
        /\ E!Ir(p, ponto, a) /\ (ponto = "enfileirar" => a = e)
        /\ E!Marcar(p) => ponto = "enfileirar"
  <2>1. E!Marcar(p) => E!Ir(p, "enfileirar", e)
    BY DEF E!Marcar, E!Seguir
  <2>2. ~E!Marcar(p) => E!Ir(p, "ocioso", Nada)
    BY DEF E!Contar, E!Recuperar, E!Encerrar
  <2> QED
    BY <2>1, <2>2
<1>6. n = 1 /\ s = "FALHA_STORAGE" => entregas[e].tentativas = 0
  BY <1>1, <1>3 DEF Entrega
<1> HIDE DEF e
<1>7. alvo[p] = e
  BY DEF e
<1> QED
  BY <1>1, <1>2, <1>3, <1>4, <1>5, <1>6, <1>7, EscritaFInv

(* A step of the queue. *)
LEMMA LimpezaFInv ==
  ASSUME EInv, FInv, E!ExecutarLimpeza PROVE FInv'
<1>1. RemocaoOK
  <2>1. ASSUME NEW p \in Pedidos, E!L!ExecutarCron(p) PROVE RemocaoOK
    <3>1. E!L!Reivindicar(p, Entregas)
      BY <2>1 DEF E!L!ExecutarCron
    <3> QED
      BY <3>1, ReivindicarRemove
  <2> QED
    BY <2>1, TrabalhoRemove, VencerRemove DEF E!ExecutarLimpeza
<1>2. UNCHANGED <<entregas, pcEntrega, alvo, lida, perdas>>
  BY DEF E!ExecutarLimpeza
<1>3. \A q \in Pedidos, e \in Entregas : Escreve(q, e) => Escreve(q, e)'
  BY <1>2 DEF Escreve
<1>4. \A e \in Entregas : PrimeiraOK(e)'
  BY <1>1, <1>2, <1>3, PrimeiraIntacta DEF RemocaoOK
<1>5. \A e \in Entregas : ContadaOK(e)'
  BY <1>1, <1>2, ContadaIntacta DEF RemocaoOK
<1>6. \A q \in Pedidos : ContagemOK(q)'
  BY <1>2, ContagemIntacta
<1> QED
  BY <1>4, <1>5, <1>6 DEF FInv

(* Every step of the module. *)
LEMMA PassoFInv ==
  EInv /\ FInv /\ [E!Next]_(E!vars) => FInv'
<1> SUFFICES ASSUME EInv, FInv, [E!Next]_(E!vars) PROVE FInv'
  OBVIOUS
<1>1. CASE UNCHANGED E!vars
  <2>1. UNCHANGED <<objetos, jobs, posse, entregas, pcEntrega, alvo, lida, perdas>>
    BY <1>1 DEF E!vars, E!filaVars
  <2> QED
    BY <2>1 DEF FInv, ContagemOK, ContadaOK, PrimeiraOK, Primeira, Escreve, Removido,
       E!Existe, E!L!Agendados
<1>2. CASE E!Next
  BY <1>2, InserirFInv, IniciarFInv, EnviarFInv, ContarFInv, CompensarFInv, LimpezaFInv
     DEF E!Next
<1> QED
  BY <1>1, <1>2

(* No delivery, empty queue. *)
LEMMA InicioFInv ==
  E!Init => FInv
<1> SUFFICES ASSUME E!Init PROVE FInv
  OBVIOUS
<1>1. /\ objetos = {} /\ \A e \in Entregas : jobs[e].status = "SEM_JOB"
      /\ \A e \in Entregas : entregas[e].status = "AUSENTE" /\ entregas[e].tentativas = 0
      /\ \A p \in Pedidos : pcEntrega[p] = "ocioso"
  BY DEF E!Init, E!L!Init, E!Ausente, E!L!SemJob
<1> QED
  BY <1>1 DEF FInv, ContagemOK, ContadaOK, PrimeiraOK, Primeira, E!Existe, E!L!Agendados

(* A delivery that failed at first, with no request in course, has its     *)
(* removal to be done or done, and then the object is gone. *)
LEMMA FInvCompensa == FInv => E!PrimeiraFalhaCompensada
<1> SUFFICES ASSUME FInv, NEW e \in Entregas, entregas[e].tentativas = 1,
                    E!SemCompensacao(e)
             PROVE  FALSE
  BY DEF E!PrimeiraFalhaCompensada
<1>1. /\ entregas[e].status = "FALHA_STORAGE" /\ e \in objetos /\ e \notin perdas
      /\ jobs[e].status \in {"SEM_JOB", "CONCLUIDO"}
      /\ \A p \in Pedidos : alvo[p] = e => pcEntrega[p] = "inserir"
  BY DEF E!SemCompensacao, E!EmCurso
<1>2. Primeira(e)
  BY <1>1 DEF Primeira, Escreve
<1>3. e \in E!L!Agendados /\ ~Removido(e)
  BY <1>1, <1>2 DEF FInv, PrimeiraOK
<1> QED
  BY <1>1, <1>3 DEF Removido, E!L!Agendados

-----------------------------------------------------------------------------
(* The booking of transport documents. *)

(* The assumptions on the bounds; the pair is finite. *)
LEMMA LimitesDoCte == T!CteAssumption /\ IsFiniteSet(ChavesCte)
<1>1. IsFiniteSet({cte}) /\ ChavesCte = {cte} \cup {outro}
  BY FS_Singleton DEF ChavesCte
<1> QED
  BY <1>1, OperacoesAssumption, FS_AddElement

(* A transaction, with typed writes. *)
Transacao ==
  [passo : {"fora", "ler", "gravar", "confirmar"},
   op : {"nenhuma", "distribuir", "importar", "reprocessar"},
   fila : Seq(ChavesCte), chaves : SUBSET ChavesCte,
   foto : [ChavesCte -> T!Linha \cup {Nada}] \cup {Nada}, lida : T!Linha \cup {Nada},
   escritas : UNION {[S -> T!Linha] : S \in SUBSET ChavesCte}]

Escriturada(l) == l # Nada /\ l.escrituravel

(* The rows once the transaction commits. *)
Depois(p) == T!Aplicadas(tx[p].escritas, linhaCte)

Substitui(s, o) == xml[s].tpCte = "3" /\ xml[s].ref = o /\ s # o

(* A transaction books nothing but its own keys. *)
TransacaoOK(t) ==
  /\ \A i \in DOMAIN t.fila : t.fila[i] \in t.chaves
  /\ t.passo \in {"ler", "gravar"} => t.fila # <<>>
  /\ t.passo = "gravar" => t.lida \in T!Linha
  /\ \A k \in DOMAIN t.escritas : t.escritas[k].escrituravel => k \in t.chaves

(* What a transaction that books the original or the substitution knows of *)
(* the other one, as nobody else books it meanwhile. *)
ParOK(o, s, p) ==
  /\ ~(Escriturada(Depois(p)[o]) /\ Escriturada(Depois(p)[s]))
  /\ tx[p].passo = "gravar" /\ Head(tx[p].fila) = o /\ tx[p].lida.escrituravel
       => ~Escriturada(Depois(p)[s])
  /\ tx[p].foto # Nada /\ o \in tx[p].chaves /\ Escriturada(linhaCte[s])
       => Escriturada(tx[p].foto[s])
  /\ tx[p].foto # Nada /\ s \in tx[p].chaves /\ Escriturada(linhaCte[o])
       => tx[p].foto[o] # Nada

TInv ==
  /\ xml \in Pares
  /\ linhaCte \in [ChavesCte -> T!Linha \cup {Nada}]
  /\ tx \in [Pedidos -> Transacao]
  /\ cruzadas \subseteq SUBSET ChavesCte
  /\ \A p \in Pedidos : TransacaoOK(tx[p])
  /\ \A p, q \in Pedidos : p # q =>
       \A a \in tx[p].chaves, b \in tx[q].chaves : {a, b} \in cruzadas
  /\ T!SubstituicaoExclui
  /\ \A o, s \in ChavesCte : Substitui(s, o) /\ {o, s} \notin cruzadas =>
       \A p \in Pedidos : ParOK(o, s, p)

-----------------------------------------------------------------------------
(* The rows. *)

(* Reversing a row, or changing its status, keeps its type. *)
LEMMA LinhasDeclaradas ==
  ASSUME NEW l \in T!Linha
  PROVE  /\ T!Fora(l) \in T!Linha /\ ~T!Fora(l).escrituravel
         /\ T!ComStatus(l) \in T!Linha
         /\ T!ComStatus(l).escrituravel = l.escrituravel
BY DEF T!Fora, T!ComStatus, T!Linha

(* A row prepared from the XML is of its type. *)
LEMMA PreparadaDeclarada ==
  ASSUME NEW c \in T!Cte
  PROVE  T!Preparada(c) \in T!Linha
<1>1. /\ T!Escrituravel(c) \in BOOLEAN /\ T!Revisao(c) \in BOOLEAN
      /\ c.tpServ \in {"0", "1", "2", "3", "4"}
  BY DEF T!Escrituravel, T!Revisao, T!Cte
<1> QED
  BY <1>1 DEF T!Preparada, T!Linha

(* So is a reversed one. *)
LEMMA EstornadaDeclarada ==
  ASSUME NEW k \in ChavesCte, xml \in [ChavesCte -> T!Cte],
         NEW vistas \in [ChavesCte -> T!Linha \cup {Nada}], NEW l \in T!Linha
  PROVE  T!Estornada(k, vistas, l) \in T!Linha
<1>1. CASE ~T!Anula(k)
  BY <1>1 DEF T!Estornada
<1>2. CASE T!Anula(k) /\ vistas[xml[k].ref] = Nada
  <2>1. [l EXCEPT !.credito = 0, !.revisao = TRUE] \in T!Linha
    BY DEF T!Linha
  <2> QED
    BY <1>2, <2>1 DEF T!Estornada
<1>3. CASE T!Anula(k) /\ vistas[xml[k].ref] # Nada
  <2>1. [l EXCEPT !.credito = 0] \in T!Linha /\ [l EXCEPT !.credito = -1] \in T!Linha
    BY DEF T!Linha
  <2> QED
    BY <1>3, <2>1 DEF T!Estornada
<1> QED
  BY <1>1, <1>2, <1>3

(* A document that is booked in the books has no substitute there. *)
LEMMA LidaSemSubstituto ==
  ASSUME NEW k \in ChavesCte, xml \in [ChavesCte -> T!Cte],
         NEW vistas \in [ChavesCte -> T!Linha \cup {Nada}]
  PROVE  /\ T!Lida(k, vistas) \in T!Linha
         /\ T!Lida(k, vistas).escrituravel =>
              \A s \in ChavesCte : Substitui(s, k) => ~Escriturada(vistas[s])
<1> DEFINE l == T!ComStatus(T!Estornada(k, vistas, T!Preparada(xml[k])))
<1>1. xml[k] \in T!Cte
  OBVIOUS
<1>2. l \in T!Linha
  BY <1>1, PreparadaDeclarada, EstornadaDeclarada, LinhasDeclaradas
<1>3. T!Lida(k, vistas) = IF T!Substitutos(k, vistas) = {} THEN l ELSE T!Fora(l)
  BY DEF T!Lida
<1> HIDE DEF l
<1>4. CASE T!Substitutos(k, vistas) = {}
  BY <1>2, <1>3, <1>4 DEF T!Substitutos, Substitui, Escriturada
<1>5. CASE T!Substitutos(k, vistas) # {}
  BY <1>2, <1>3, <1>5, LinhasDeclaradas
<1> QED
  BY <1>4, <1>5

(* Writes apply to their keys only. *)
LEMMA RestoAplicado ==
  ASSUME NEW S \in SUBSET ChavesCte, NEW R \in SUBSET ChavesCte, NEW f \in [S -> T!Linha],
         NEW g \in [R -> T!Linha \cup {Nada}]
  PROVE  /\ DOMAIN T!Aplicadas(f, g) = S \cup R
         /\ T!Aplicadas(f, g) \in [S \cup R -> T!Linha \cup {Nada}]
         /\ g \in [R -> T!Linha] => T!Aplicadas(f, g) \in [S \cup R -> T!Linha]
         /\ \A k \in S : T!Aplicadas(f, g)[k] = f[k]
         /\ \A k \in R \ S : T!Aplicadas(f, g)[k] = g[k]
BY DEF T!Aplicadas

(* The types of the fields, by name. *)
LEMMA CamposDaTransacao ==
  ASSUME TInv, NEW p \in Pedidos
  PROVE  /\ tx[p] \in Transacao
         /\ DOMAIN tx[p].escritas \subseteq ChavesCte
         /\ tx[p].escritas \in [DOMAIN tx[p].escritas -> T!Linha]
         /\ tx[p].passo \in {"fora", "ler", "gravar", "confirmar"}
         /\ tx[p].fila \in Seq(ChavesCte) /\ tx[p].chaves \subseteq ChavesCte
         /\ tx[p].foto \in [ChavesCte -> T!Linha \cup {Nada}] \cup {Nada}
         /\ tx[p].lida \in T!Linha \cup {Nada}
<1>1. tx[p] \in Transacao
  BY DEF TInv
<1>2. PICK S \in SUBSET ChavesCte : tx[p].escritas \in [S -> T!Linha]
  BY <1>1 DEF Transacao
<1>3. DOMAIN tx[p].escritas = S
  BY <1>2
<1> QED
  BY <1>1, <1>2, <1>3 DEF Transacao

(* A transaction sees rows of their type. *)
LEMMA LinhasVistas ==
  ASSUME TInv, NEW p \in Pedidos
  PROVE  /\ Depois(p) \in [ChavesCte -> T!Linha \cup {Nada}]
         /\ T!Vistas(p) \in [ChavesCte -> T!Linha \cup {Nada}]
         /\ \A k \in DOMAIN tx[p].escritas :
              Depois(p)[k] = tx[p].escritas[k] /\ T!Vistas(p)[k] = tx[p].escritas[k]
         /\ \A k \in ChavesCte \ DOMAIN tx[p].escritas :
              /\ Depois(p)[k] = linhaCte[k]
              /\ T!Vistas(p)[k] = IF tx[p].foto = Nada THEN linhaCte[k] ELSE tx[p].foto[k]
<1> DEFINE W == tx[p].escritas
           S == DOMAIN tx[p].escritas
           V == IF tx[p].foto = Nada THEN linhaCte ELSE tx[p].foto
<1>1. S \in SUBSET ChavesCte /\ W \in [S -> T!Linha] /\ S \cup ChavesCte = ChavesCte
  BY CamposDaTransacao
<1>2. linhaCte \in [ChavesCte -> T!Linha \cup {Nada}]
  BY DEF TInv
<1>3. V \in [ChavesCte -> T!Linha \cup {Nada}]
  BY <1>2, CamposDaTransacao
<1>4. Depois(p) = T!Aplicadas(W, linhaCte) /\ T!Vistas(p) = T!Aplicadas(W, V)
  BY DEF Depois, T!Vistas
<1> HIDE DEF W, S, V
<1>5. /\ T!Aplicadas(W, linhaCte) \in [S \cup ChavesCte -> T!Linha \cup {Nada}]
      /\ \A k \in S : T!Aplicadas(W, linhaCte)[k] = W[k]
      /\ \A k \in ChavesCte \ S : T!Aplicadas(W, linhaCte)[k] = linhaCte[k]
  BY <1>1, <1>2, RestoAplicado
<1>6. /\ T!Aplicadas(W, V) \in [S \cup ChavesCte -> T!Linha \cup {Nada}]
      /\ \A k \in S : T!Aplicadas(W, V)[k] = W[k]
      /\ \A k \in ChavesCte \ S : T!Aplicadas(W, V)[k] = V[k]
  <2> SUFFICES ASSUME NEW v \in [ChavesCte -> T!Linha \cup {Nada}], v = V
               PROVE  /\ T!Aplicadas(W, v) \in [S \cup ChavesCte -> T!Linha \cup {Nada}]
                      /\ \A k \in S : T!Aplicadas(W, v)[k] = W[k]
                      /\ \A k \in ChavesCte \ S : T!Aplicadas(W, v)[k] = v[k]
    BY <1>3
  <2> QED
    BY <1>1, RestoAplicado
<1>7. /\ Depois(p) \in [ChavesCte -> T!Linha \cup {Nada}]
      /\ T!Vistas(p) \in [ChavesCte -> T!Linha \cup {Nada}]
      /\ \A k \in S : Depois(p)[k] = W[k] /\ T!Vistas(p)[k] = W[k]
      /\ \A k \in ChavesCte \ S : Depois(p)[k] = linhaCte[k] /\ T!Vistas(p)[k] = V[k]
  BY <1>1, <1>4, <1>5, <1>6
<1> QED
  BY <1>7 DEF W, S, V

-----------------------------------------------------------------------------
(* A step that commits nothing changes one transaction. *)
LEMMA SoUmaTransacao ==
  ASSUME TInv, NEW p \in Pedidos, NEW t \in Transacao, tx' = [tx EXCEPT ![p] = t],
         xml' = xml, linhaCte' = linhaCte, cruzadas \subseteq cruzadas',
         cruzadas' \subseteq SUBSET ChavesCte, TransacaoOK(t),
         \A q \in Pedidos \ {p} :
           \A a \in t.chaves, b \in tx[q].chaves : {a, b} \in cruzadas',
         \A o, s \in ChavesCte : Substitui(s, o) /\ {o, s} \notin cruzadas'
            => ParOK(o, s, p)'
  PROVE  TInv'
<1>1. tx'[p] = t /\ \A q \in Pedidos \ {p} : tx'[q] = tx[q]
  BY DEF TInv
<1>2. /\ xml' \in Pares /\ linhaCte' \in [ChavesCte -> T!Linha \cup {Nada}]
      /\ tx' \in [Pedidos -> Transacao]
  BY DEF TInv
<1>3. \A q \in Pedidos : TransacaoOK(tx'[q])
  BY <1>1 DEF TInv
<1>4. \A q, r \in Pedidos : q # r =>
        \A a \in tx'[q].chaves, b \in tx'[r].chaves : {a, b} \in cruzadas'
  <2> SUFFICES ASSUME NEW q \in Pedidos, NEW r \in Pedidos, q # r,
                      NEW a \in tx'[q].chaves, NEW b \in tx'[r].chaves
               PROVE  {a, b} \in cruzadas'
    OBVIOUS
  <2>1. CASE q = p
    BY <1>1, <2>1
  <2>2. CASE r = p
    <3>1. {b, a} \in cruzadas'
      BY <1>1, <2>2
    <3>2. {a, b} = {b, a}
      OBVIOUS
    <3> QED
      BY <3>1, <3>2
  <2>3. CASE q # p /\ r # p
    BY <1>1, <2>3 DEF TInv
  <2> QED
    BY <2>1, <2>2, <2>3
<1>5. T!SubstituicaoExclui'
  BY DEF TInv, T!SubstituicaoExclui
<1>6. ASSUME NEW o \in ChavesCte, NEW s \in ChavesCte, Substitui(s, o)',
             {o, s} \notin cruzadas',
             NEW q \in Pedidos
      PROVE  ParOK(o, s, q)'
  <2>1. Substitui(s, o)
    BY <1>6 DEF Substitui
  <2>2. CASE q = p
    BY <1>6, <2>1, <2>2
  <2>3. CASE q # p
    <3>1. ParOK(o, s, q)
      BY <1>6, <2>1 DEF TInv
    <3> QED
      BY <1>1, <2>3, <3>1 DEF ParOK, Depois
  <2> QED
    BY <2>2, <2>3
<1> QED
  BY <1>2, <1>3, <1>4, <1>5, <1>6 DEF TInv

(* The transaction that ended is of its type. *)
LEMMA LivreDeclarada ==
  /\ T!Livre \in Transacao /\ TransacaoOK(T!Livre)
  /\ T!Livre.chaves = {} /\ T!Livre.passo = "fora" /\ T!Livre.foto = Nada
  /\ T!Livre.escritas \in [{} -> T!Linha] /\ DOMAIN T!Livre.escritas = {}
  /\ \A linhas \in [ChavesCte -> T!Linha \cup {Nada}] :
       T!Aplicadas(T!Livre.escritas, linhas) = linhas
<1>1. <<>> \in [{} -> T!Linha] /\ DOMAIN <<>> = {} /\ <<>> \in Seq(ChavesCte)
  OBVIOUS
<1>2. <<>> \in UNION {[S -> T!Linha] : S \in SUBSET ChavesCte}
  BY <1>1
<1>3. T!Livre \in Transacao
  BY <1>1, <1>2 DEF T!Livre, Transacao
<1>4. ASSUME NEW linhas \in [ChavesCte -> T!Linha \cup {Nada}]
      PROVE T!Aplicadas(<<>>, linhas) = linhas
  <2>1. T!Aplicadas(<<>>, linhas) = [k \in {} \cup ChavesCte |-> linhas[k]]
    BY <1>1 DEF T!Aplicadas
  <2> QED
    BY <2>1
<1> QED
  BY <1>1, <1>3, <1>4 DEF T!Livre, TransacaoOK

(* A transaction that fails leaves nothing. *)
LEMMA PassoFalhar ==
  ASSUME TInv, NEW p \in Pedidos, T!Falhar(p)
  PROVE  TInv'
<1>1. /\ tx' = [tx EXCEPT ![p] = T!Livre] /\ xml' = xml /\ linhaCte' = linhaCte
      /\ cruzadas' = cruzadas
  BY DEF T!Falhar
<1>2. tx'[p] = T!Livre
  BY <1>1 DEF TInv
<1>3. ASSUME NEW o \in ChavesCte, NEW s \in ChavesCte, Substitui(s, o),
             {o, s} \notin cruzadas'
      PROVE  ParOK(o, s, p)'
  <2>1. Depois(p)' = linhaCte
    BY <1>1, <1>2, LivreDeclarada DEF Depois, TInv
  <2>2. ~(Escriturada(linhaCte[o]) /\ Escriturada(linhaCte[s]))
    BY <1>1, <1>3 DEF TInv, T!SubstituicaoExclui, Substitui, Escriturada
  <2> QED
    BY <1>2, <2>1, <2>2, LivreDeclarada DEF ParOK
<1>4. \A q \in Pedidos \ {p} :
        \A a \in T!Livre.chaves, b \in tx[q].chaves : {a, b} \in cruzadas'
  BY LivreDeclarada
<1> QED
  BY <1>1, <1>3, <1>4, LivreDeclarada, SoUmaTransacao DEF TInv

(* A transaction starts: those under way are concurrent with it. *)
LEMMA PassoIniciar ==
  ASSUME TInv, NEW p \in Pedidos, NEW op \in {"distribuir", "importar", "reprocessar"},
         NEW fila \in Seq(ChavesCte), NEW foto \in {Nada, linhaCte}, T!Iniciar(p, op,
         fila, foto)
  PROVE  TInv'
<1> DEFINE chaves == {fila[i] : i \in DOMAIN fila}
           outras == UNION {tx[q].chaves : q \in Pedidos \ {p}}
           t == [T!Livre EXCEPT !.passo = "ler", !.op = op, !.fila = fila,
                              !.chaves = chaves, !.foto = foto]
<1>1. /\ tx' = [tx EXCEPT ![p] = t] /\ xml' = xml /\ linhaCte' = linhaCte
      /\ cruzadas' = cruzadas \cup {{a, b} : a \in chaves, b \in outras}
      /\ fila # <<>>
  BY DEF T!Iniciar
<1>2. chaves \subseteq ChavesCte
  OBVIOUS
<1>3. outras \subseteq ChavesCte
  BY CamposDaTransacao
<1>4. /\ t \in Transacao /\ t.fila = fila /\ t.chaves = chaves /\ t.foto = foto
      /\ t.passo = "ler" /\ t.escritas = T!Livre.escritas
  <2>1. foto \in [ChavesCte -> T!Linha \cup {Nada}] \cup {Nada}
    BY DEF TInv
  <2> HIDE DEF chaves
  <2> QED
    BY <1>2, <2>1, LivreDeclarada DEF Transacao
<1> HIDE DEF t
<1>5. tx'[p] = t
  BY <1>1 DEF TInv
<1>6. cruzadas \subseteq cruzadas' /\ cruzadas' \subseteq SUBSET ChavesCte
  <2> HIDE DEF chaves, outras
  <2> QED
    BY <1>1, <1>2, <1>3 DEF TInv
<1>7. ASSUME NEW q \in Pedidos \ {p}, NEW a \in t.chaves, NEW b \in tx[q].chaves
      PROVE  {a, b} \in cruzadas'
  <2>1. a \in chaves /\ b \in outras
    BY <1>4
  <2> HIDE DEF chaves, outras
  <2> QED
    BY <1>1, <2>1
<1>8. TransacaoOK(t)
  <2>1. \A i \in DOMAIN fila : fila[i] \in chaves
    OBVIOUS
  <2> HIDE DEF chaves
  <2> QED
    BY <1>1, <1>4, <2>1, LivreDeclarada DEF TransacaoOK
<1>9. ASSUME NEW o \in ChavesCte, NEW s \in ChavesCte, Substitui(s, o),
             {o, s} \notin cruzadas'
      PROVE  ParOK(o, s, p)'
  <2>1. Depois(p)' = linhaCte
    BY <1>1, <1>4, <1>5, LivreDeclarada DEF Depois, TInv
  <2>2. ~(Escriturada(linhaCte[o]) /\ Escriturada(linhaCte[s]))
    BY <1>6, <1>9 DEF TInv, T!SubstituicaoExclui, Substitui, Escriturada
  <2>3. Escriturada(linhaCte[o]) => linhaCte[o] # Nada
    BY DEF Escriturada
  <2> QED
    BY <1>1, <1>4, <1>5, <2>1, <2>2, <2>3 DEF ParOK
<1> QED
  BY <1>1, <1>4, <1>6, <1>7, <1>8, <1>9, SoUmaTransacao

-----------------------------------------------------------------------------
(* Looking for the substitutes, writing and committing. *)

(* Nobody else books a key of the pair while a transaction books the other. *)
LEMMA SemConcorrente ==
  ASSUME TInv, NEW a, NEW b, {a, b} \notin cruzadas,
         NEW p \in Pedidos, NEW q \in Pedidos, p # q, a \in tx[p].chaves
  PROVE  b \notin tx[q].chaves
BY DEF TInv

(* A document and its substitutions are read. *)
LEMMA PassoLer ==
  ASSUME TInv, NEW p \in Pedidos, T!Ler(p)
  PROVE  TInv'
<1> DEFINE k == Head(tx[p].fila)
           t == [tx[p] EXCEPT !.passo = "gravar", !.lida = T!Lida(k, T!Vistas(p))]
<1>1. /\ tx' = [tx EXCEPT ![p] = t] /\ xml' = xml /\ linhaCte' = linhaCte
      /\ cruzadas' = cruzadas /\ tx[p].passo = "ler"
  BY DEF T!Ler, TInv
<1>2. /\ tx[p] \in Transacao /\ tx[p].fila \in Seq(ChavesCte) /\ tx[p].fila # <<>>
      /\ TransacaoOK(tx[p])
  BY <1>1, CamposDaTransacao DEF TInv, TransacaoOK
<1>3. k \in ChavesCte /\ k \in tx[p].chaves
  <2>1. 1 \in DOMAIN tx[p].fila /\ k = tx[p].fila[1]
    BY <1>2
  <2> QED
    BY <1>2, <2>1 DEF TransacaoOK
<1>4. /\ T!Lida(k, T!Vistas(p)) \in T!Linha
      /\ T!Lida(k, T!Vistas(p)).escrituravel =>
           \A s \in ChavesCte : Substitui(s, k) => ~Escriturada(T!Vistas(p)[s])
  <2>1. xml \in [ChavesCte -> T!Cte]
    BY LimitesDoCte DEF T!CteAssumption, TInv
  <2>2. T!Vistas(p) \in [ChavesCte -> T!Linha \cup {Nada}]
    BY LinhasVistas
  <2> HIDE DEF k
  <2> QED
    BY <1>3, <2>1, <2>2, LidaSemSubstituto
<1>5. PICK l \in T!Linha : l = T!Lida(k, T!Vistas(p))
  BY <1>4
<1>6. /\ t \in Transacao /\ t.fila = tx[p].fila /\ t.chaves = tx[p].chaves
      /\ t.foto = tx[p].foto /\ t.passo = "gravar" /\ t.lida = l
      /\ t.escritas = tx[p].escritas
  <2> HIDE DEF k
  <2>1. t = [tx[p] EXCEPT !.passo = "gravar", !.lida = l]
    BY <1>5
  <2> HIDE DEF t
  <2> QED
    BY <1>2, <2>1 DEF Transacao
<1> HIDE DEF t
<1>7. tx'[p] = t
  BY <1>1 DEF TInv
<1>8. TransacaoOK(t)
  BY <1>2, <1>6 DEF TransacaoOK
<1>9. \A q \in Pedidos \ {p} :
        \A a \in t.chaves, b \in tx[q].chaves : {a, b} \in cruzadas'
  BY <1>1, <1>6 DEF TInv
<1>10. ASSUME NEW o \in ChavesCte, NEW s \in ChavesCte, Substitui(s, o),
              {o, s} \notin cruzadas'
       PROVE  ParOK(o, s, p)'
  <2>1. ParOK(o, s, p)
    BY <1>1, <1>10 DEF TInv
  <2>2. Depois(p)' = Depois(p)
    BY <1>1, <1>6, <1>7 DEF Depois
  <2>3. ASSUME k = o, l.escrituravel PROVE ~Escriturada(Depois(p)[s])
    <3>1. ~Escriturada(T!Vistas(p)[s])
      BY <1>4, <1>5, <1>10, <2>3
    <3>2. CASE s \in DOMAIN tx[p].escritas
      BY <3>1, <3>2, LinhasVistas
    <3>3. CASE s \notin DOMAIN tx[p].escritas /\ tx[p].foto = Nada
      BY <3>1, <3>3, LinhasVistas
    <3>4. CASE s \notin DOMAIN tx[p].escritas /\ tx[p].foto # Nada
      <4>1. ~Escriturada(tx[p].foto[s])
        BY <3>1, <3>4, LinhasVistas
      <4>2. o \in tx[p].chaves
        BY <1>3, <2>3
      <4>3. ~Escriturada(linhaCte[s])
        BY <2>1, <3>4, <4>1, <4>2 DEF ParOK
      <4> QED
        BY <3>4, <4>3, LinhasVistas
    <3> QED
      BY <3>2, <3>3, <3>4
  <2> HIDE DEF k
  <2>4. Head(t.fila) = k
    BY <1>6 DEF k
  <2> QED
    BY <1>1, <1>6, <1>7, <2>1, <2>2, <2>3, <2>4 DEF ParOK
<1>11. cruzadas \subseteq cruzadas' /\ cruzadas' \subseteq SUBSET ChavesCte
  BY <1>1 DEF TInv
<1> QED
  BY <1>1, <1>6, <1>8, <1>9, <1>10, <1>11, SoUmaTransacao

(* The row is written, and the original reversed with it. *)
LEMMA PassoGravar ==
  ASSUME TInv, NEW p \in Pedidos, T!Gravar(p)
  PROVE  TInv'
<1> DEFINE k == Head(tx[p].fila)
           l == tx[p].lida
           R == T!Referido(k, l, T!Vistas(p))
           resto == Tail(tx[p].fila)
           W == [r \in {k} \cup R |-> IF r = k THEN l ELSE T!Fora(T!Vistas(p)[r])]
           t == [tx[p] EXCEPT !.escritas = T!Aplicadas(W, tx[p].escritas), !.fila = resto,
                              !.lida = Nada,
                              !.passo = IF resto = <<>> THEN "confirmar" ELSE "ler"]
<1>0. /\ k = Head(tx[p].fila) /\ l = tx[p].lida /\ resto = Tail(tx[p].fila)
      /\ \A r \in ChavesCte : r \in R <=> /\ xml[k].tpCte = "3" /\ l.escrituravel
                                      /\ xml[k].ref = r /\ T!Vistas(p)[r] # Nada
      /\ R \subseteq ChavesCte
      /\ W = [r \in {k} \cup R |-> IF r = k THEN l ELSE T!Fora(T!Vistas(p)[r])]
  BY DEF T!Referido
<1>1. /\ t = [tx[p] EXCEPT !.escritas = T!Aplicadas(W, tx[p].escritas), !.fila = resto,
                           !.lida = Nada,
                           !.passo = IF resto = <<>> THEN "confirmar" ELSE "ler"]
      /\ tx' = [tx EXCEPT ![p] = t]
  BY DEF T!Gravar, TInv
<1> HIDE DEF k, l, R, resto, W, t
<1>2. xml' = xml /\ linhaCte' = linhaCte /\ cruzadas' = cruzadas /\ tx[p].passo = "gravar"
  BY DEF T!Gravar
<1>3. /\ tx[p] \in Transacao /\ tx[p].fila \in Seq(ChavesCte) /\ tx[p].fila # <<>>
      /\ TransacaoOK(tx[p]) /\ l \in T!Linha
      /\ DOMAIN tx[p].escritas \in SUBSET ChavesCte
      /\ tx[p].escritas \in [DOMAIN tx[p].escritas -> T!Linha]
  BY <1>0, <1>2, CamposDaTransacao DEF TInv, TransacaoOK
<1>4. /\ k \in ChavesCte /\ k \in tx[p].chaves /\ resto \in Seq(ChavesCte)
      /\ \A i \in DOMAIN resto : resto[i] \in tx[p].chaves
  <2>1. 1 \in DOMAIN tx[p].fila /\ k = tx[p].fila[1]
    BY <1>0, <1>3
  <2>2. /\ resto \in Seq(ChavesCte)
        /\ \A i \in DOMAIN resto : i + 1 \in DOMAIN tx[p].fila
              /\ resto[i] = tx[p].fila[i + 1]
    BY <1>0, <1>3
  <2> QED
    BY <1>3, <2>1, <2>2 DEF TransacaoOK
<1>v. T!Vistas(p) \in [ChavesCte -> T!Linha \cup {Nada}]
  BY LinhasVistas
<1>5. \A r \in R : r \in ChavesCte /\ T!Vistas(p)[r] \in T!Linha
  BY <1>0, <1>v
<1>f. \A r \in R : T!Fora(T!Vistas(p)[r]) \in T!Linha
         /\ ~T!Fora(T!Vistas(p)[r]).escrituravel
  BY <1>5, LinhasDeclaradas
<1>6. W \in [{k} \cup R -> T!Linha] /\ W[k] = l /\ \A r \in R \ {k} : ~W[r].escrituravel
  BY <1>0, <1>3, <1>f
<1> DEFINE Novas == T!Aplicadas(W, tx[p].escritas)
           S == ({k} \cup R) \cup DOMAIN tx[p].escritas
<1>7. /\ S \subseteq ChavesCte /\ Novas \in [S -> T!Linha] /\ DOMAIN Novas = S
      /\ \A r \in {k} \cup R : Novas[r] = W[r]
      /\ \A r \in S \ ({k} \cup R) : Novas[r] = tx[p].escritas[r]
  <2>1. /\ {k} \cup R \subseteq ChavesCte /\ DOMAIN W = {k} \cup R
        /\ \A r \in {k} \cup R : W[r] \in T!Linha
        /\ \A r \in DOMAIN tx[p].escritas : tx[p].escritas[r] \in T!Linha
    BY <1>3, <1>4, <1>5, <1>6
  <2>2. Novas = [r \in S |-> IF r \in {k} \cup R THEN W[r] ELSE tx[p].escritas[r]]
    BY <2>1 DEF T!Aplicadas
  <2>3. S \subseteq ChavesCte
    BY <1>3, <2>1
  <2> HIDE DEF Novas
  <2> QED
    BY <2>1, <2>2, <2>3
<1> HIDE DEF Novas, S
<1>8. /\ t \in Transacao /\ t.fila = resto /\ t.chaves = tx[p].chaves
      /\ t.foto = tx[p].foto /\ t.passo = (IF resto = <<>> THEN "confirmar" ELSE "ler")
      /\ t.lida = Nada /\ t.escritas = Novas
  <2>1. Novas \in UNION {[U -> T!Linha] : U \in SUBSET ChavesCte}
    BY <1>7
  <2>2. t = [tx[p] EXCEPT !.escritas = Novas, !.fila = resto, !.lida = Nada,
                          !.passo = IF resto = <<>> THEN "confirmar" ELSE "ler"]
    BY <1>1 DEF Novas
  <2> QED
    BY <1>3, <1>4, <2>1, <2>2 DEF Transacao
<1>9. tx'[p] = t
  BY <1>1 DEF TInv
<1>10. TransacaoOK(t)
  <2>1. ASSUME NEW r \in S, Novas[r].escrituravel PROVE r \in tx[p].chaves
    BY <1>3, <1>4, <1>6, <1>7, <2>1 DEF S, TransacaoOK
  <2> QED
    BY <1>4, <1>7, <1>8, <2>1 DEF TransacaoOK
<1>11. \A q \in Pedidos \ {p} :
         \A a \in t.chaves, b \in tx[q].chaves : {a, b} \in cruzadas'
  BY <1>2, <1>8 DEF TInv
<1>12. /\ \A r \in S : Depois(p)'[r] = Novas[r]
       /\ \A r \in ChavesCte \ S : Depois(p)'[r] = linhaCte[r]
  <2>1. Depois(p)' = T!Aplicadas(Novas, linhaCte)
    BY <1>2, <1>8, <1>9 DEF Depois
  <2>2. linhaCte \in [ChavesCte -> T!Linha \cup {Nada}] /\ ChavesCte \in SUBSET ChavesCte
    BY DEF TInv
  <2>3. T!Aplicadas(Novas, linhaCte) =
          [r \in S \cup ChavesCte |-> IF r \in S THEN Novas[r] ELSE linhaCte[r]]
    BY <1>7, <2>2 DEF T!Aplicadas
  <2> QED
    BY <1>7, <2>1, <2>3
<1>13. /\ Depois(p)'[k] = l
       /\ \A r \in R \ {k} : ~Escriturada(Depois(p)'[r])
       /\ \A r \in ChavesCte \ ({k} \cup R) : Depois(p)'[r] = Depois(p)[r]
  <2>1. k \in S /\ R \subseteq S
    BY DEF S
  <2>2. Depois(p)'[k] = l
    BY <1>6, <1>7, <1>12, <2>1
  <2>3. \A r \in R \ {k} : ~Escriturada(Depois(p)'[r])
    BY <1>6, <1>7, <1>12, <2>1 DEF Escriturada
  <2>4. ASSUME NEW r \in ChavesCte \ ({k} \cup R) PROVE Depois(p)'[r] = Depois(p)[r]
    <3>1. CASE r \in S
      <4>1. r \in DOMAIN tx[p].escritas /\ Depois(p)'[r] = tx[p].escritas[r]
        BY <1>7, <1>12, <2>4, <3>1 DEF S
      <4> QED
        BY <4>1, LinhasVistas
    <3>2. CASE r \notin S
      <4>1. r \notin DOMAIN tx[p].escritas /\ Depois(p)'[r] = linhaCte[r]
        BY <1>12, <2>4, <3>2 DEF S
      <4> QED
        BY <4>1, <2>4, LinhasVistas
    <3> QED
      BY <3>1, <3>2
  <2> QED
    BY <2>2, <2>3, <2>4
<1>14. ASSUME NEW o \in ChavesCte, NEW s \in ChavesCte, Substitui(s, o),
              {o, s} \notin cruzadas'
       PROVE  ParOK(o, s, p)'
  <2>1. ParOK(o, s, p) /\ o # s
    BY <1>2, <1>14 DEF TInv, Substitui
  <2>2. ~(Escriturada(Depois(p)'[o]) /\ Escriturada(Depois(p)'[s]))
    <3>1. CASE k = o
      <4>1. l.escrituravel => ~Escriturada(Depois(p)[s])
        BY <1>0, <1>2, <2>1, <3>1 DEF ParOK
      <4>2. l.escrituravel => R \ {k} = {} \/ ~Escriturada(Depois(p)'[s]) \/ s \notin R
        BY <1>13, <2>1, <3>1
      <4> QED
        BY <1>13, <2>1, <3>1, <4>1, <4>2 DEF Escriturada
    <3>2. CASE k = s /\ o \in R
      BY <1>13, <2>1, <3>2
    <3>3. CASE k = s /\ o \notin R
      <4>1. l.escrituravel => T!Vistas(p)[o] = Nada
        BY <1>0, <1>14, <3>3 DEF Substitui
      <4>2. Depois(p)'[o] = Depois(p)[o]
        BY <1>13, <2>1, <3>3
      <4>3. l.escrituravel => ~Escriturada(Depois(p)[o])
        <5> SUFFICES ASSUME T!Vistas(p)[o] = Nada PROVE ~Escriturada(Depois(p)[o])
          BY <4>1
        <5>1. CASE o \in DOMAIN tx[p].escritas
          BY <5>1, LinhasVistas DEF Escriturada
        <5>2. CASE o \notin DOMAIN tx[p].escritas /\ tx[p].foto = Nada
          BY <5>2, LinhasVistas DEF Escriturada
        <5>3. CASE o \notin DOMAIN tx[p].escritas /\ tx[p].foto # Nada
          <6>1. tx[p].foto[o] = Nada
            BY <5>3, LinhasVistas
          <6>2. ~Escriturada(linhaCte[o])
            BY <1>4, <2>1, <3>3, <5>3, <6>1 DEF ParOK
          <6> QED
            BY <5>3, <6>2, LinhasVistas
        <5> QED
          BY <5>1, <5>2, <5>3
      <4> QED
        BY <1>13, <3>3, <4>2, <4>3 DEF Escriturada
    <3>4. CASE k # o /\ k # s
      BY <1>13, <2>1, <3>4 DEF ParOK
    <3> QED
      BY <3>1, <3>2, <3>3, <3>4
  <2> QED
    BY <1>2, <1>8, <1>9, <2>1, <2>2 DEF ParOK
<1>15. cruzadas \subseteq cruzadas' /\ cruzadas' \subseteq SUBSET ChavesCte
  BY <1>2 DEF TInv
<1> QED
  BY <1>1, <1>2, <1>8, <1>10, <1>11, <1>14, <1>15, SoUmaTransacao

(* A transaction commits what it wrote. *)
LEMMA PassoConfirmar ==
  ASSUME TInv, NEW p \in Pedidos, T!Confirmar(p)
  PROVE  TInv'
<1>1. /\ tx' = [tx EXCEPT ![p] = T!Livre] /\ xml' = xml /\ cruzadas' = cruzadas
      /\ linhaCte' = Depois(p)
  BY DEF T!Confirmar, Depois
<1>2. tx'[p] = T!Livre /\ \A q \in Pedidos \ {p} : tx'[q] = tx[q]
  BY <1>1 DEF TInv
<1>3. /\ linhaCte' \in [ChavesCte -> T!Linha \cup {Nada}]
      /\ tx' \in [Pedidos -> Transacao]
  BY <1>1, LinhasVistas, LivreDeclarada DEF TInv
<1>4. \A q \in Pedidos : TransacaoOK(tx'[q])
  BY <1>2, LivreDeclarada DEF TInv
<1>5. \A q, r \in Pedidos : q # r =>
        \A a \in tx'[q].chaves, b \in tx'[r].chaves : {a, b} \in cruzadas'
  <2>1. \A q \in Pedidos : tx'[q].chaves \subseteq tx[q].chaves
    BY <1>2, LivreDeclarada
  <2> QED
    BY <1>1, <2>1 DEF TInv
<1>6. T!SubstituicaoExclui'
  <2> SUFFICES ASSUME NEW o \in ChavesCte, NEW s \in ChavesCte, xml[s].tpCte = "3",
                      xml[s].ref = o, s # o, {o, s} \notin cruzadas
               PROVE  ~(Escriturada(linhaCte'[o]) /\ Escriturada(linhaCte'[s]))
    BY <1>1 DEF T!SubstituicaoExclui, Escriturada
  <2>1. ParOK(o, s, p)
    BY DEF TInv, Substitui
  <2> QED
    BY <1>1, <2>1 DEF ParOK
(* The row of a key that p does not book can only have left the books.     *)
<1>7. ASSUME NEW k \in ChavesCte, k \notin tx[p].chaves, Escriturada(linhaCte'[k])
      PROVE  Escriturada(linhaCte[k]) /\ linhaCte'[k] = linhaCte[k]
  <2>1. k \notin DOMAIN tx[p].escritas
    BY <1>1, <1>7, LinhasVistas DEF TInv, TransacaoOK, Escriturada
  <2> QED
    BY <1>1, <1>7, <2>1, LinhasVistas
<1>8. ASSUME NEW o \in ChavesCte, NEW s \in ChavesCte, Substitui(s, o)',
             {o, s} \notin cruzadas',
             NEW q \in Pedidos
      PROVE  ParOK(o, s, q)'
  <2>1. Substitui(s, o) /\ {o, s} \notin cruzadas /\ {s, o} \notin cruzadas
    <3>1. {o, s} = {s, o}
      OBVIOUS
    <3> QED
      BY <1>1, <1>8, <3>1 DEF Substitui
  <2>2. ~(Escriturada(linhaCte'[o]) /\ Escriturada(linhaCte'[s]))
    BY <1>1, <1>6, <2>1 DEF T!SubstituicaoExclui, Substitui, Escriturada
  <2>3. CASE q = p
    <3>1. Depois(p)' = linhaCte'
      BY <1>2, <1>3, LivreDeclarada DEF Depois
    <3> QED
      BY <1>2, <2>2, <2>3, <3>1, LivreDeclarada DEF ParOK
  <2>4. CASE q # p
    <3>1. ParOK(o, s, q) /\ tx'[q] = tx[q]
      BY <1>2, <2>1, <2>4 DEF TInv
    <3>2. o \in tx[q].chaves => s \notin tx[p].chaves
      BY <2>1, <2>4, SemConcorrente
    <3>3. s \in tx[q].chaves => o \notin tx[p].chaves
      BY <2>1, <2>4, SemConcorrente
    <3>4. /\ \A k \in DOMAIN tx[q].escritas :
               Depois(q)'[k] = tx[q].escritas[k] /\ Depois(q)[k] = tx[q].escritas[k]
          /\ \A k \in ChavesCte \ DOMAIN tx[q].escritas :
               Depois(q)'[k] = linhaCte'[k] /\ Depois(q)[k] = linhaCte[k]
      <4>1. Depois(q)' = T!Aplicadas(tx[q].escritas, linhaCte')
        BY <3>1 DEF Depois
      <4>2. DOMAIN tx[q].escritas \subseteq ChavesCte
        BY CamposDaTransacao
      <4>3. T!Aplicadas(tx[q].escritas, linhaCte') =
              [k \in ChavesCte |-> IF k \in DOMAIN tx[q].escritas THEN tx[q].escritas[k]
                                                              ELSE linhaCte'[k]]
        BY <1>3, <4>2 DEF T!Aplicadas
      <4> QED
        BY <1>3, <4>1, <4>2, <4>3, LinhasVistas
    <3>5. \A k \in DOMAIN tx[q].escritas :
            Escriturada(tx[q].escritas[k]) => k \in tx[q].chaves
      BY DEF TInv, TransacaoOK, Escriturada
    <3>6. /\ o \in tx[q].chaves /\ Escriturada(linhaCte'[s]) => Escriturada(linhaCte[s])
          /\ s \in tx[q].chaves /\ Escriturada(linhaCte'[o]) => Escriturada(linhaCte[o])
      BY <1>7, <3>2, <3>3
    <3>7. o \in tx[q].chaves /\ Escriturada(Depois(q)'[s]) => Escriturada(Depois(q)[s])
      BY <3>4, <3>6
    <3>8. s \in tx[q].chaves /\ Escriturada(Depois(q)'[o]) => Escriturada(Depois(q)[o])
      BY <3>4, <3>6
    <3>9. ~(Escriturada(Depois(q)'[o]) /\ Escriturada(Depois(q)'[s]))
      <4>1. CASE o \in DOMAIN tx[q].escritas
        BY <3>1, <3>4, <3>5, <3>7, <4>1 DEF ParOK
      <4>2. CASE s \in DOMAIN tx[q].escritas
        BY <3>1, <3>4, <3>5, <3>8, <4>2 DEF ParOK
      <4>3. CASE o \notin DOMAIN tx[q].escritas /\ s \notin DOMAIN tx[q].escritas
        BY <2>2, <3>4, <4>3
      <4> QED
        BY <4>1, <4>2, <4>3
    <3>10. tx[q].passo = "gravar" => Head(tx[q].fila) \in tx[q].chaves
      <4> SUFFICES ASSUME tx[q].passo = "gravar" PROVE Head(tx[q].fila) \in tx[q].chaves
        OBVIOUS
      <4>1. tx[q].fila \in Seq(ChavesCte) /\ TransacaoOK(tx[q])
        BY CamposDaTransacao DEF TInv
      <4>2. 1 \in DOMAIN tx[q].fila /\ Head(tx[q].fila) = tx[q].fila[1]
        BY <4>1 DEF TransacaoOK
      <4> QED
        BY <4>1, <4>2 DEF TransacaoOK
    <3> QED
      BY <3>1, <3>6, <3>7, <3>9, <3>10 DEF ParOK
  <2> QED
    BY <2>3, <2>4
<1> QED
  BY <1>1, <1>3, <1>4, <1>5, <1>6, <1>8 DEF TInv

(* Every step of the module. *)
LEMMA PassoTInv == TInv /\ [T!Next]_(T!vars) => TInv'
<1> SUFFICES ASSUME TInv, [T!Next]_(T!vars) PROVE TInv'
  OBVIOUS
<1>1. linhaCte \in [ChavesCte -> T!Linha \cup {Nada}]
  BY DEF TInv
<1>2. ASSUME NEW p \in Pedidos, NEW k \in ChavesCte, T!Distribuir(p, k) PROVE TInv'
  <2>1. <<k>> \in Seq(ChavesCte) /\ Nada \in {Nada, linhaCte}
    OBVIOUS
  <2>2. T!Iniciar(p, "distribuir", <<k>>, Nada)
    BY <1>2 DEF T!Distribuir
  <2> QED
    BY <2>1, <2>2, PassoIniciar
<1>3. ASSUME NEW p \in Pedidos, NEW k \in ChavesCte, T!Importar(p, k) PROVE TInv'
  <2>1. <<k>> \in Seq(ChavesCte) /\ linhaCte \in {Nada, linhaCte}
    OBVIOUS
  <2>2. T!Iniciar(p, "importar", <<k>>, linhaCte)
    BY <1>3 DEF T!Importar
  <2> QED
    BY <2>1, <2>2, PassoIniciar
<1>4. ASSUME NEW p \in Pedidos, T!Reprocessar(p) PROVE TInv'
  <2> DEFINE existentes == {k \in ChavesCte : linhaCte[k] # Nada}
  <2>1. T!Cardinality(existentes) \in Nat
    <3>1. IsFiniteSet(existentes)
      BY LimitesDoCte, FS_Subset
    <3>2. T!Cardinality(existentes) = Cardinality(existentes)
      BY DEF T!Cardinality, Cardinality, T!IsFiniteSet, IsFiniteSet
    <3> QED
      BY <3>1, <3>2, FS_CardinalityType
  <2>2. PICK fila \in [1 .. T!Cardinality(existentes) -> existentes] :
          T!Iniciar(p, "reprocessar", fila, Nada)
    BY <1>4 DEF T!Reprocessar
  <2>3. fila \in Seq(ChavesCte)
    <3>1. PICK n \in Nat : n = T!Cardinality(existentes)
      BY <2>1
    <3>2. fila \in [1 .. n -> ChavesCte]
      BY <3>1
    <3> QED
      BY <3>2
  <2> QED
    BY <2>2, <2>3, PassoIniciar
<1>5. CASE UNCHANGED T!vars
  <2>1. xml' = xml /\ linhaCte' = linhaCte /\ tx' = tx /\ cruzadas' = cruzadas
    BY <1>5 DEF T!vars
  <2>2. T!SubstituicaoExclui' <=> T!SubstituicaoExclui
    BY <2>1 DEF T!SubstituicaoExclui
  <2>3. \A o, s \in ChavesCte, p \in Pedidos :
          (ParOK(o, s, p)' <=> ParOK(o, s, p)) /\ (Substitui(s, o)' <=> Substitui(s, o))
    BY <2>1 DEF ParOK, Depois, Substitui
  <2> QED
    BY <2>1, <2>2, <2>3 DEF TInv
<1> QED
  BY <1>2, <1>3, <1>4, <1>5, PassoLer, PassoGravar, PassoConfirmar, PassoFalhar
     DEF T!Next, T!Passo

(* Nothing booked, no transaction. *)
LEMMA InicioTInv == T!Init => TInv
<1> SUFFICES ASSUME T!Init PROVE TInv
  OBVIOUS
<1>1. /\ xml \in Pares /\ linhaCte = [k \in ChavesCte |-> Nada]
      /\ tx = [p \in Pedidos |-> T!Livre] /\ cruzadas = {}
  BY DEF T!Init
<1>2. linhaCte \in [ChavesCte -> T!Linha \cup {Nada}]
         /\ \A k \in ChavesCte : ~Escriturada(linhaCte[k])
  BY <1>1 DEF Escriturada
<1>3. T!SubstituicaoExclui
  BY <1>1 DEF T!SubstituicaoExclui
<1>4. ASSUME NEW o \in ChavesCte, NEW s \in ChavesCte, NEW p \in Pedidos
      PROVE ParOK(o, s, p)
  <2>1. tx[p] = T!Livre
    BY <1>1
  <2>2. Depois(p) = linhaCte
    BY <1>2, <2>1, LivreDeclarada DEF Depois
  <2> QED
    BY <1>2, <2>1, <2>2, LivreDeclarada DEF ParOK
<1> QED
  BY <1>1, <1>2, <1>3, <1>4, LivreDeclarada DEF TInv

(* The invariant gives the types. *)
LEMMA TiposDoCte == TInv => T!TypeOK
<1> SUFFICES ASSUME TInv PROVE T!TypeOK
  OBVIOUS
<1>1. ASSUME NEW p \in Pedidos
      PROVE  /\ tx[p].passo \in {"fora", "ler", "gravar", "confirmar"}
             /\ tx[p].op \in {"nenhuma", "distribuir", "importar", "reprocessar"}
             /\ tx[p].fila \in Seq(ChavesCte) /\ tx[p].chaves \subseteq ChavesCte
             /\ tx[p].foto # Nada => tx[p].foto \in [ChavesCte -> T!Linha \cup {Nada}]
             /\ tx[p].lida \in T!Linha \cup {Nada}
             /\ DOMAIN tx[p].escritas \subseteq ChavesCte
  <2>1. tx[p].op \in {"nenhuma", "distribuir", "importar", "reprocessar"}
    BY CamposDaTransacao DEF Transacao
  <2> QED
    BY <2>1, CamposDaTransacao
<1>2. /\ xml \in Pares /\ linhaCte \in [ChavesCte -> T!Linha \cup {Nada}]
      /\ cruzadas \subseteq SUBSET ChavesCte
  BY DEF TInv
<1> QED
  BY <1>1, <1>2 DEF T!TypeOK

-----------------------------------------------------------------------------
(* The parts share no variable, and a behaviour is about one of them: a    *)
(* behaviour of MCOperacoes is one of each module. *)

(* A step of the whole, as the module of the document sees it. *)
LEMMA PassoDoDocumento == [OperacoesNext]_todas => [D!Next]_(D!vars)
<1>1. ASSUME OperacoesNext PROVE D!Next \/ UNCHANGED doDocumento
  BY <1>1 DEF OperacoesNext, PassoDocumento, PassoConsulta, PassoEntrega, PassoCiap,
     PassoCte,
     FimDoTempo, NoDocumento, NaConsulta, NaEntrega, NoCiap, NoCte, todas, D!Next
<1>2. UNCHANGED todas => UNCHANGED doDocumento
  BY DEF todas
<1> QED
  BY <1>1, <1>2 DEF doDocumento, D!vars

(* As the module of the consultations sees it. *)
LEMMA PassoDaConsulta == [OperacoesNext]_todas => [C!Next]_(C!vars)
<1>1. ASSUME OperacoesNext PROVE C!Next \/ UNCHANGED daConsulta
  BY <1>1 DEF OperacoesNext, PassoDocumento, PassoConsulta, PassoEntrega, PassoCiap,
     PassoCte,
     FimDoTempo, NoDocumento, NaConsulta, NaEntrega, NoCiap, NoCte, todas, C!Next
<1>2. UNCHANGED todas => UNCHANGED daConsulta
  BY DEF todas
<1> QED
  BY <1>1, <1>2 DEF daConsulta, C!vars

(* As the module of the deliveries sees it. *)
LEMMA PassoDaEntrega == [OperacoesNext]_todas => [E!Next]_(E!vars)
<1>1. ASSUME OperacoesNext PROVE E!Next \/ UNCHANGED daEntrega
  BY <1>1 DEF OperacoesNext, PassoDocumento, PassoConsulta, PassoEntrega, PassoCiap,
     PassoCte,
     FimDoTempo, NoDocumento, NaConsulta, NaEntrega, NoCiap, NoCte, todas, E!Next
<1>2. UNCHANGED todas => UNCHANGED daEntrega
  BY DEF todas
<1> QED
  BY <1>1, <1>2 DEF daEntrega, E!vars

(* As the module of the CIAP sees it. *)
LEMMA PassoDoCiap == [OperacoesNext]_todas => [Next]_vars
<1>1. ASSUME OperacoesNext PROVE Next \/ UNCHANGED vars
  BY <1>1 DEF OperacoesNext, PassoDocumento, PassoConsulta, PassoEntrega, PassoCiap,
     PassoCte,
     FimDoTempo, NoDocumento, NaConsulta, NaEntrega, NoCiap, NoCte, todas, Next
<1>2. UNCHANGED todas => UNCHANGED vars
  BY DEF todas
<1> QED
  BY <1>1, <1>2

(* As the module of the CT-es sees it. *)
LEMMA PassoDoCte == [OperacoesNext]_todas => [T!Next]_(T!vars)
<1>1. ASSUME OperacoesNext PROVE T!Next \/ UNCHANGED doCte
  BY <1>1 DEF OperacoesNext, PassoDocumento, PassoConsulta, PassoEntrega, PassoCiap,
     PassoCte,
     FimDoTempo, NoDocumento, NaConsulta, NaEntrega, NoCiap, NoCte, todas, T!Next, T!Passo
<1>2. UNCHANGED todas => UNCHANGED doCte
  BY DEF todas
<1> QED
  BY <1>1, <1>2 DEF doCte, T!vars

(* A behaviour of the whole is one of each module. *)
LEMMA CincoPartes ==
  OperacoesSpec => /\ D!Init /\ [][D!Next]_(D!vars)
                   /\ C!Init /\ [][C!Next]_(C!vars)
                   /\ E!Init /\ [][E!Next]_(E!vars)
                   /\ Init /\ [][Next]_vars
                   /\ T!Init /\ [][T!Next]_(T!vars)
<1>1. OperacoesInit => D!Init /\ C!Init /\ E!Init /\ Init /\ T!Init
  BY DEF OperacoesInit
<1> QED
  BY <1>1, PassoDoDocumento, PassoDaConsulta, PassoDaEntrega, PassoDoCiap, PassoDoCte, PTL
     DEF OperacoesSpec

-----------------------------------------------------------------------------
(* The invariants of the parts, in every behaviour of the whole. *)

(* The document. *)
LEMMA DocumentoInvariante == OperacoesSpec => []DInv
BY CincoPartes, InicioDInv, PassoDInv, PTL

(* The consultations. *)
LEMMA ConsultaInvariante == OperacoesSpec => []CInv
BY CincoPartes, InicioCInv, PassoCInv, PTL

(* The deliveries. *)
LEMMA EntregasInvariante == OperacoesSpec => []EInv
BY CincoPartes, InicioEInv, PassoEInv, PTL

(* The first failures of the deliveries. *)
LEMMA FalhasInvariante == OperacoesSpec => []FInv
BY CincoPartes, InicioFInv, PassoFInv, EntregasInvariante, PTL

(* The transport documents. *)
LEMMA CteInvariante == OperacoesSpec => []TInv
BY CincoPartes, InicioTInv, PassoTInv, PTL

(* finalizarDocumento, importar, manifestar: whatever fails in between, a  *)
(* complete document keeps naming the XML that is stored. *)
THEOREM DocumentoCompleto == OperacoesSpec => []CompletaTemXml
<1>1. DInv => CompletaTemXml
  BY DEF DInv, LinhaOK, CompletaTemXml
<1> QED
  BY <1>1, DocumentoInvariante, PTL

(* salvarDocumento, registrarCancelamento: no rewriting of the row revives *)
(* a cancelled document. *)
THEOREM CancelamentoDefinitivo == OperacoesSpec => CanceladaFica
<1> QED
  BY PassoCancelada, DocumentoInvariante, CincoPartes, PTL DEF CanceladaFica,
     D!CanceladaFica

(* editarCfop against the reprocessing and the distribution: a confirmed   *)
(* CFOP survives the booking of a document that was read before. *)
THEOREM DecisaoDoUsuario == OperacoesSpec => []DecisaoPreservada
<1>1. DInv => DecisaoPreservada
  BY DEF DInv, LinhaOK, DecisaoPreservada
<1> QED
  BY <1>1, DocumentoInvariante, PTL

(* reservarConsultaChave and the automatic Ciência: whatever the processes *)
(* and their restarts, the windows of SEFAZ are respected. *)
THEOREM JanelasRespeitadas == OperacoesSpec => []JanelaRespeitada
<1>1. DInv => D!CienciaUnica
  BY DEF DInv, CienciaOK
<1>2. CInv => C!JanelaRespeitada
  BY JanelaDaConsulta
<1>3. DInv /\ CInv => JanelaRespeitada
  BY <1>1, <1>2 DEF JanelaRespeitada
<1> QED
  BY <1>3, DocumentoInvariante, ConsultaInvariante, PTL

(* bloquear, assertNaoSuspenso: a suspension that was recorded stops the   *)
(* consultations of every process until it ends. *)
THEOREM SuspensaoVale == OperacoesSpec => SuspensaoRespeitada
<1> DEFINE SoDepois == (reservas' # reservas
                         \/ (sinc.passo = "ocioso" /\ sinc'.passo = "chamada"))
                           => agora >= registrado
<1>1. CInv /\ [C!Next]_(C!vars) => [SoDepois]_(C!vars)
  BY PassoSuspensao
<1> QED
  BY <1>1, ConsultaInvariante, CincoPartes, PTL
     DEF SuspensaoRespeitada, C!SuspensaoRespeitada

(* executar: a lot that was told to stop, by a 656, by the control or by a *)
(* failure, in whatever phase of a key, makes no other call; but for a 656 *)
(* whose block could not be written after Ciência, of which it says        *)
(* nothing. *)
THEOREM InterrupcaoVale == OperacoesSpec => InterrupcaoDefinitiva
<1> DEFINE SemOutra == \A l \in Pedidos : lote[l].recusa = "dita" => C!Parado(lote'[l])
<1>1. CInv /\ [C!Next]_(C!vars) => [SemOutra]_(C!vars)
  BY PassoSuspensao
<1> QED
  BY <1>1, ConsultaInvariante, CincoPartes, PTL
     DEF InterrupcaoDefinitiva, C!InterrupcaoDefinitiva

(* queueByClient: one call at a time in a process, and no call left behind *)
(* a promise that nobody resolves, whatever the order in which lots start, *)
(* end and die. *)
THEOREM CadeiaRespeitada == OperacoesSpec => []CadeiaDePromessas
<1>1. CInv => CadeiaDePromessas
  BY CadeiaDaConsulta DEF CadeiaDePromessas
<1> QED
  BY <1>1, ConsultaInvariante, PTL

(* registrarEntregaComUpload, retentarUpload and processJobs: the object   *)
(* that the first, failed upload of a delivery may have left has a job     *)
(* still to remove it, unless an error of the compensation itself lost it; *)
(* no file of a whole delivery is taken away but by such a job; and what a *)
(* rectification names is an original. Nothing is said of a LATER failure, *)
(* whose object nobody may be left to remove. *)
THEOREM EntregasRespaldadas == OperacoesSpec => []EntregasCoerentes
<1>1. EInv /\ FInv => EntregasCoerentes
  BY FInvCompensa DEF EInv, EntregasCoerentes
<1> QED
  BY <1>1, EntregasInvariante, FalhasInvariante, PTL

(* persistirEscrituracao: in whatever order a document and its substitution*)
(* arrive, and however often either is booked again, they are never both   *)
(* in the books, unless transactions that overlapped booked them. *)
THEOREM SubstituicaoVale == OperacoesSpec => []SubstituicaoExclui
<1>1. TInv => SubstituicaoExclui
  BY DEF TInv, SubstituicaoExclui
<1> QED
  BY <1>1, CteInvariante, PTL

(* Every variable of every part stays in its set. *)
THEOREM TiposDasOperacoes == OperacoesSpec => []OperacoesTypeOK
<1> DEFINE ParteOK == parte \in {"documento", "consulta", "entrega", "ciap", "cte"}
<1>1. OperacoesSpec => []ParteOK
  <2>1. OperacoesInit => ParteOK
    BY DEF OperacoesInit
  <2>2. ParteOK /\ [OperacoesNext]_todas => ParteOK'
    BY DEF OperacoesNext, PassoDocumento, PassoConsulta, PassoEntrega, PassoCiap, PassoCte,
       FimDoTempo, NoDocumento, NaConsulta, NaEntrega, NoCiap, NoCte, todas
  <2> HIDE DEF ParteOK
  <2> QED
    BY <2>1, <2>2, PTL DEF OperacoesSpec
<1>2. OperacoesSpec => []TypeOK
  <2>1. Spec => []TypeOK
    BY OperacoesAssumption, TiposDoCiap DEF OperacoesAssumption
  <2> QED
    BY <2>1, CincoPartes, PTL DEF Spec
<1>3. DInv => D!TypeOK
  BY DEF DInv
<1>4. EInv => E!TypeOK
  BY DEF EInv
<1>5. ParteOK /\ DInv /\ CInv /\ EInv /\ TypeOK /\ TInv => OperacoesTypeOK
  <2> SUFFICES ASSUME ParteOK, D!TypeOK, C!TypeOK, E!TypeOK, TypeOK, T!TypeOK
               PROVE  OperacoesTypeOK
    BY <1>3, <1>4, DaConsulta, TiposDoCte
  <2>1. CASE parte = "documento"
    BY <2>1 DEF OperacoesTypeOK
  <2>2. CASE parte = "consulta"
    BY <2>2 DEF OperacoesTypeOK
  <2>3. CASE parte = "entrega"
    BY <2>3 DEF OperacoesTypeOK
  <2>4. CASE parte = "ciap"
    BY <2>4 DEF OperacoesTypeOK
  <2>5. CASE parte = "cte"
    BY <2>5 DEF OperacoesTypeOK
  <2> QED
    BY <2>1, <2>2, <2>3, <2>4, <2>5
<1> HIDE DEF ParteOK
<1> QED
  BY <1>1, <1>2, <1>5, DocumentoInvariante, ConsultaInvariante, EntregasInvariante,
     CteInvariante, PTL
=============================================================================
