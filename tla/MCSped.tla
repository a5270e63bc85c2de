------------------------------- MODULE MCSped ---------------------------------
(***************************************************************************)
(* Sped on months of one or two documents, months of taxes of one or two   *)
(* sales, and two generations of files.                                    *)
(***************************************************************************)
EXTENDS Sped, TLC

CONSTANTS g1, g2

-----------------------------------------------------------------------------
(* Months of documents: every deviation of one purchase and of one sale by  *)
(* NFC-e, every kind of transport, and pairs of purchases whose units are   *)
(* written alike, with and without the stored codes and the inventory.     *)

Situacoes == {"AUTORIZADA", "CANCELADA", "DENEGADA", "RESUMIDA"}
un(b) == <<b, "MAIUSCULA">>
nota == [id |-> "", tipo |-> "NFE", situacao |-> "AUTORIZADA", status |-> "ESCRITURADO",
         integridade |-> "OK", cte |-> "AUSENTE", itens |-> <<>>, propria |-> FALSE,
         saida |-> FALSE, outro |-> "F1", cadastro |-> TRUE, refs |-> TRUE, cstCte |-> TRUE]
item == [produto |-> "X", unidade |-> un("UN"), tributavel |-> <<>>, revisao |-> FALSE,
         cst |-> "CST", ncm |-> TRUE]
conhecimento == [nota EXCEPT !.tipo = "CTE", !.cte = "PRONTO"]

Produtos == {item, [item EXCEPT !.unidade = <<"UN", "minuscula">>],
          [item EXCEPT !.unidade = <<"UN", "pontuada">>, !.tributavel = un("UN")],
          [item EXCEPT !.produto = "Y", !.tributavel = un("CX")],
          [item EXCEPT !.unidade = <<"CX", "minuscula">>, !.tributavel = un("CX")]}

Compras == {[nota EXCEPT !.itens = <<i>>, !.outro = o] : i \in Produtos, o \in {"F1", "F2"}}
           \cup {[nota EXCEPT !.itens = <<i, j>>] : i \in Produtos, j \in Produtos}
Vendas == {[nota EXCEPT !.itens = <<i>>, !.propria = TRUE, !.saida = TRUE] : i \in Produtos}
Desvios(d) ==
    {[d EXCEPT !.situacao = s] : s \in Situacoes}
    \cup {[d EXCEPT !.status = s] :
             s \in {"ESCRITURADO", "NAO_ESCRITURAVEL", "PENDENTE_REVISAO"}}
    \cup {[d EXCEPT !.integridade = s] : s \in {"OK", "DIVERGENTE", "NAO_CONFERIDA"}}
    \cup {[d EXCEPT !.outro = o] : o \in {"", "CLIENTE"}}
    \cup {[d EXCEPT !.cadastro = FALSE]}
    \cup {[d EXCEPT !.itens = <<[item EXCEPT !.cst = c]>>] :
             c \in {"CST", "CSOSN", "INVALIDO", "AUSENTE"}}
    \cup {[d EXCEPT !.itens = <<[item EXCEPT !.revisao = TRUE]>>],
          [d EXCEPT !.itens = <<>>],
          [d EXCEPT !.itens = <<[item EXCEPT !.ncm = FALSE]>>]}
DesviosCte ==
    {[conhecimento EXCEPT !.situacao = s, !.cte = c] :
        s \in Situacoes, c \in {"AUSENTE", "PENDENTE", "PRONTO"}}
    \cup {[conhecimento EXCEPT !.outro = o] : o \in {"", "CLIENTE", "F2"}}
    \cup {[conhecimento EXCEPT !.cstCte = FALSE],
          [conhecimento EXCEPT !.integridade = "DIVERGENTE"]}
Comuns == {[nota EXCEPT !.itens = <<item>>, !.tipo = t, !.propria = p, !.saida = p,
                        !.outro = o] :
             t \in {"NFCE", "NFSE"}, p \in BOOLEAN, o \in {"", "F1"}}
Docs == Compras \cup Vendas \cup DesviosCte \cup Comuns
        \cup Desvios([nota EXCEPT !.itens = <<item>>])
        \cup Desvios([nota EXCEPT !.itens = <<item>>, !.tipo = "NFCE", !.propria = TRUE])

Primeiras == {[nota EXCEPT !.itens = <<i>>, !.outro = o] : i \in Produtos, o \in {"F1"}}
Com(d, n) == [d EXCEPT !.id = n]
Meses == {<<Com(d, "d1")>> : d \in Docs}
         \cup {<<Com(d, "d1"), Com(e, "d2")>> : d \in Primeiras, e \in Compras \cup Vendas}
vazia == [aceita |-> TRUE, cadastro |-> TRUE, perfil |-> "A", codigos |-> <<>>,
         documentos |-> <<>>, exigeInventario |-> FALSE, fechado |-> FALSE,
         linhas |-> {}, bens |-> {}, homologado |-> FALSE]
contada == [produto |-> "X", cadastrada |-> <<"UN">>, unidade |-> <<"UN">>,
            participante |-> "", conta |-> TRUE]
Antigos == "F1" :> <<"L1">> @@ "F3" :> <<"P", "F3">>
MesesDeDocumentos ==
    {[vazia EXCEPT !.documentos = m, !.perfil = p] : m \in Meses, p \in {"A", "C"}}
    \cup {[vazia EXCEPT !.documentos = <<Com(d, "d1")>>,
                       !.exigeInventario = TRUE, !.fechado = f,
                       !.codigos = Antigos, !.bens = b, !.homologado = h,
                       !.linhas = l] :
            d \in Compras, f \in BOOLEAN, b \in SUBSET {"b1"}, h \in BOOLEAN,
            l \in {{}, {contada}, {contada, [contada EXCEPT !.participante = "F3"]},
                   {[contada EXCEPT !.unidade = <<"CX">>]},
                   {[contada EXCEPT !.conta = FALSE]}}}
    \cup {[vazia EXCEPT !.aceita = FALSE], [vazia EXCEPT !.cadastro = FALSE]}
-----------------------------------------------------------------------------
(* Months of taxes: sales of one or two items, with and without UF, with a  *)
(* purchase, a transport, an adjustment, and obligations around the amount  *)
(* computed.                                                                *)

zero == [icms |-> 0, creditoSn |-> 0, csosnPermite |-> FALSE, cfopVeda |-> FALSE,
         cst |-> "AUTORIZA", cstIpi |-> "", ipi |-> 0, st |-> 0, fcp |-> 0, fcpSt |-> 0,
         difal |-> 0, fcpDestino |-> 0, grupo |-> "5102"]
Vendidos == {[zero EXCEPT !.icms = 100], [zero EXCEPT !.icms = 20, !.grupo = "6102"],
             [zero EXCEPT !.st = 50], [zero EXCEPT !.difal = 30, !.fcpDestino = 10],
             [zero EXCEPT !.fcp = 20], [zero EXCEPT !.fcpSt = 20],
             [zero EXCEPT !.ipi = 10, !.cstIpi = "50"],
             [zero EXCEPT !.ipi = 10, !.cstIpi = "XX"]}
Comprados == {[zero EXCEPT !.icms = 60], [zero EXCEPT !.icms = 60, !.cfopVeda = TRUE],
              [zero EXCEPT !.icms = 60, !.cst = "OUTRO"],
              [zero EXCEPT !.creditoSn = 30, !.csosnPermite = TRUE],
              [zero EXCEPT !.creditoSn = 30], [zero EXCEPT !.ipi = 5, !.cstIpi = "00"],
              [zero EXCEPT !.ipi = 5, !.cstIpi = "01"]}
Nota(saida, uf, itens) == [saida |-> saida, uf |-> uf, itens |-> itens]
Vendas1 == {<<Nota(TRUE, u, <<i>>)>> : u \in {"", "BA"}, i \in Vendidos}
Vendas2 == {<<Nota(TRUE, u, <<i, j>>)>> : u \in {"", "BA"}, i \in Vendidos, j \in Vendidos}
Compras1 == {<<>>} \cup {<<Nota(FALSE, "BA", <<i>>)>> : i \in Comprados}
transporte == [saida |-> TRUE, regular |-> TRUE, tpCte |-> "0", icms |-> 40,
               creditavel |-> 0, temCst |-> TRUE]
Transportes == {<<>>, <<transporte>>, <<[transporte EXCEPT !.regular = FALSE]>>,
                <<[transporte EXCEPT !.tpCte = "2"]>>,
                <<[transporte EXCEPT !.temCst = FALSE]>>,
                <<[transporte EXCEPT !.saida = FALSE, !.creditavel = 15]>>}
Ajuste(r, u, i) == [registro |-> r, uf |-> u, indicador |-> i, valor |-> 20]
AjustesDoMes ==
    {<<>>}
    \cup {<<Ajuste("E111", "", i)>> : i \in {"DEBITO", "CREDITO", "ESTORNO_DEBITO",
             "ESTORNO_CREDITO", "DEDUCAO", "DEBITO_ESPECIAL"}}
    \cup {<<Ajuste("E220", "BA", i)>> : i \in {"DEBITO", "CREDITO", "DEBITO_ESPECIAL"}}
    \cup {<<Ajuste("E220", "", "DEBITO")>>}
    \cup {<<Ajuste("E311_3", "BA", "DEBITO")>>, <<Ajuste("E530", "", "CREDITO")>>}
Responsaveis == {<<"ICMS_ST", "BA">>, <<"DIFAL_FCP", "BA">>}
Mensal(notas, ctes, ajustes) ==
    [simples |-> FALSE, industrial |-> TRUE, notas |-> notas, ctes |-> ctes,
     ajustes |-> ajustes,
     saldos |-> <<>>, obrigacoes |-> <<>>, responsabilidades |-> Responsaveis]
Meses1 == {Mensal(v \o c, t, <<>>) : v \in Vendas1, c \in Compras1, t \in Transportes}
Meses2 == {Mensal(v, <<>>, a) : v \in Vendas2, a \in AjustesDoMes}

P == INSTANCE EfdApuracao WITH Casos <- Meses1 \cup Meses2
\* The obligations of a month, all exact but one that is d cents away.
Devidos(c) ==
    (<<"ICMS_PROPRIO", "">> :> P!E110(c).recolher)
    @@ (<<"ICMS_ST", "BA">> :> P!E210(c, "BA").recolher)
    @@ (<<"DIFAL_FCP", "BA">> :> P!RecolherDifal(c, "BA"))
Informadas(c) ==
    {<<>>, Devidos(c)}
    \cup {[Devidos(c) EXCEPT ![o] = @ + d] : o \in DOMAIN Devidos(c), d \in {2, 3}}
Variados(c) ==
    {[c EXCEPT !.saldos = <<"ICMS_PROPRIO", "">> :> 30 @@ <<"ICMS_ST", "BA">> :> 10],
     [c EXCEPT !.simples = TRUE, !.industrial = FALSE], [c EXCEPT !.responsabilidades = {}]}
Meses3 == UNION {Variados(Mensal(v, t, <<>>)) : v \in Vendas1, t \in Transportes}
MesesDeTributos ==
    (UNION {{[c EXCEPT !.obrigacoes = o] : o \in Informadas(c)} : c \in Meses1 \cup Meses3})
    \cup (UNION {{[c EXCEPT !.obrigacoes = o] : o \in {<<>>, Devidos(c)}} : c \in Meses2})

ASSUME MesesValidos == SpedAssumption

Simetria == Permutations(Geracoes)
=============================================================================
