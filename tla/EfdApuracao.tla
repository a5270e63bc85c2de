----------------------------- MODULE EfdApuracao -----------------------------
(***************************************************************************)
(* Block E of the EFD ICMS/IPI (efd-icms-ipi.builder.ts): the taxes of the *)
(* month computed from the items of the invoices, the CT-es, the           *)
(* adjustments, the balances and the obligations the accountant informs,   *)
(* and the checks that let the file go (validarApuracao).  Amounts are     *)
(* cents.  The computation is pure: a behaviour takes one case and         *)
(* computes it.                                                            *)
(***************************************************************************)
EXTENDS Integers, Sequences, FiniteSets, Functions

CONSTANTS Casos         \* the inputs of the builder that are computed

VARIABLES caso, apuracao

apuracaoVars == <<caso, apuracao>>

SemApuracao == <<>>
SemUf == ""             \* a party without UF, or a tax that has none
Tolerancia == 2         \* differenceWithinTolerance

\* Amounts and what tells the items apart.  The signs are those the parsers,
\* the DTOs and the checks of the tables admit.
CasoValido(c) ==
    /\ c.simples \in BOOLEAN /\ c.industrial \in BOOLEAN
    /\ IsFiniteSet(DOMAIN c.notas) /\ IsFiniteSet(DOMAIN c.ctes)
    /\ IsFiniteSet(DOMAIN c.ajustes) /\ IsFiniteSet(c.responsabilidades)
    /\ \A n \in DOMAIN c.notas :
          /\ c.notas[n].saida \in BOOLEAN /\ IsFiniteSet(DOMAIN c.notas[n].itens)
          /\ \A k \in DOMAIN c.notas[n].itens :
                LET i == c.notas[n].itens[k]
                IN  /\ {i.icms, i.creditoSn, i.st, i.fcp, i.fcpSt, i.difal,
                        i.fcpDestino, i.ipi} \subseteq Nat
                    /\ i.cst \in {"AUTORIZA", "OUTRO"}
                    /\ i.cstIpi \in {"", "00", "01", "02", "50", "51", "XX"}
    /\ \A t \in DOMAIN c.ctes : {c.ctes[t].icms, c.ctes[t].creditavel} \subseteq Nat
    /\ \A j \in DOMAIN c.ajustes : c.ajustes[j].valor \in Nat
    /\ \A x \in c.responsabilidades : x[2] # SemUf
    /\ \A s \in DOMAIN c.saldos : c.saldos[s] \in Nat
    /\ \A o \in DOMAIN c.obrigacoes : c.obrigacoes[o] \in Nat

ApuracaoAssumption == \A c \in Casos : CasoValido(c)

Positivo(n) == IF n > 0 THEN n ELSE 0

-----------------------------------------------------------------------------
(* Items and transports. *)

Notas(c, saida) == {n \in DOMAIN c.notas : c.notas[n].saida = saida}
ItensDe(c, saida) ==
    UNION {{<<n, k>> : k \in DOMAIN c.notas[n].itens} : n \in Notas(c, saida)}
ItensDaUf(c, uf) == {p \in ItensDe(c, TRUE) : c.notas[p[1]].uf = uf}
ItemDe(c, p) == c.notas[p[1]].itens[p[2]]

\* decidirCreditoIcms, without the rule, which the builder does not pass.
Decisao(i) ==
    CASE i.creditoSn > 0 -> IF i.csosnPermite THEN "ADMITIDO_SN" ELSE "EXIGE_REVISAO"
      [] i.creditoSn = 0 /\ i.icms > 0 -> IF i.cfopVeda THEN "VEDADO"
                                          ELSE IF i.cst = "AUTORIZA" THEN "ADMITIDO"
                                          ELSE "EXIGE_REVISAO"
      [] OTHER -> "ADMITIDO"
Admitido(i) == CASE Decisao(i) = "ADMITIDO_SN" -> i.creditoSn
                 [] Decisao(i) = "ADMITIDO" -> i.icms
                 [] OTHER -> 0

\* debitoIcmsCtePrestacao: a cancelled CT-e and an annulment owe nothing.
DebitoCte(t) == IF t.saida /\ t.regular /\ t.tpCte # "2" THEN t.icms ELSE 0

EmD190(t) == t.regular /\ t.temCst

\* aggregateC190Analitico: the lines of one document, by CST, CFOP and rate.
C190(c, n) ==
    LET itens == c.notas[n].itens
        grupos == {itens[k].grupo : k \in DOMAIN itens}
    IN  [g \in grupos |->
            SumFunction([k \in {j \in DOMAIN itens : itens[j].grupo = g} |->
                            itens[k].icms])]

-----------------------------------------------------------------------------
(* The computations.  Each closes the same way: what is owed less what is   *)
(* credited is a debit, from which deductions are taken, or a credit.       *)

Fechar(devido, creditado, deducoes) ==
    [apurado |-> Positivo(devido - creditado),
     recolher |-> Positivo(Positivo(devido - creditado) - deducoes),
     credor |-> Positivo(creditado - devido)]

Ajustes(c, registro, uf, indicadores) ==
    SumFunction([j \in {k \in DOMAIN c.ajustes : /\ c.ajustes[k].registro = registro
                                                 /\ c.ajustes[k].uf = uf
                                                 /\ c.ajustes[k].indicador \in indicadores}
                   |-> c.ajustes[j].valor])
Saldo(c, tipo, uf) ==
    IF <<tipo, uf>> \in DOMAIN c.saldos THEN c.saldos[<<tipo, uf>>] ELSE 0

Debitos(c) ==
    IF c.simples THEN 0
    ELSE SumFunction([p \in ItensDe(c, TRUE) |-> ItemDe(c, p).icms])
         + SumFunction([t \in DOMAIN c.ctes |-> DebitoCte(c.ctes[t])])
CreditosMercadorias(c) ==
    IF c.simples THEN 0
    ELSE SumFunction([p \in ItensDe(c, FALSE) |-> Admitido(ItemDe(c, p))])
CreditosFrete(c) ==
    IF c.simples THEN 0 ELSE SumFunction([t \in DOMAIN c.ctes |-> c.ctes[t].creditavel])

\* An adjustment E111 of a company of the Simples is not read.
AjustesE111(c, indicadores) ==
    IF c.simples THEN 0 ELSE Ajustes(c, "E111", SemUf, indicadores)

E110(c) ==
    Fechar(Debitos(c) + AjustesE111(c, {"DEBITO", "ESTORNO_CREDITO"}),
           CreditosMercadorias(c) + CreditosFrete(c)
             + AjustesE111(c, {"CREDITO", "ESTORNO_DEBITO"})
             + Saldo(c, "ICMS_PROPRIO", SemUf),
           AjustesE111(c, {"DEDUCAO"}))

\* buildIcmsSt: by UF of the party; an invoice whose party has none is passed over.
StDaUf(c, uf) ==
    SumFunction([p \in ItensDaUf(c, uf) |-> ItemDe(c, p).st])
UfsDe(c, tipo, registro, valor(_, _)) ==
    {u \in {c.notas[n].uf : n \in Notas(c, TRUE)} \ {SemUf} : valor(c, u) > 0}
    \cup {r[2] : r \in {x \in c.responsabilidades : x[1] = tipo}}
    \cup {c.ajustes[j].uf :
             j \in {k \in DOMAIN c.ajustes : c.ajustes[k].registro = registro
                                             /\ c.ajustes[k].uf # SemUf}}
UfsSt(c) == UfsDe(c, "ICMS_ST", "E220", StDaUf)
E210(c, uf) ==
    Fechar(StDaUf(c, uf) + Ajustes(c, "E220", uf, {"DEBITO", "ESTORNO_CREDITO"}),
           Ajustes(c, "E220", uf, {"CREDITO", "ESTORNO_DEBITO"}) + Saldo(c, "ICMS_ST", uf),
           Ajustes(c, "E220", uf, {"DEDUCAO"}))

\* buildDifalFcp: DIFAL and FCP of each UF are closed apart; E311 of each bears
\* its kind in its code, here in its record name.  Balances are not read.
DifalDaUf(c, uf) ==
    SumFunction([p \in ItensDaUf(c, uf) |-> ItemDe(c, p).difal])
FcpDaUf(c, uf) ==
    SumFunction([p \in ItensDaUf(c, uf) |-> ItemDe(c, p).fcpDestino])
DifalFcpDaUf(c, uf) == DifalDaUf(c, uf) + FcpDaUf(c, uf)
UfsDifal(c) == UfsDe(c, "DIFAL_FCP", "E311_2", DifalFcpDaUf)
               \cup UfsDe(c, "DIFAL_FCP", "E311_3", DifalFcpDaUf)
Componente(c, registro, uf, base) ==
    Fechar(base + Ajustes(c, registro, uf, {"DEBITO", "ESTORNO_CREDITO"}),
           Ajustes(c, registro, uf, {"CREDITO", "ESTORNO_DEBITO"}),
           Ajustes(c, registro, uf, {"DEDUCAO"}))
RecolherDifal(c, uf) ==
    Componente(c, "E311_2", uf, DifalDaUf(c, uf)).recolher
    + Componente(c, "E311_3", uf, FcpDaUf(c, uf)).recolher

\* buildIpi: a purchase credits under CST 00, a sale owes under CST 50.
IpiSob(c, saida, cst) ==
    SumFunction([p \in {q \in ItensDe(c, saida) : ItemDe(c, q).cstIpi = cst} |->
                   ItemDe(c, p).ipi])
E520(c) ==
    Fechar(IpiSob(c, TRUE, "50") + Ajustes(c, "E530", SemUf, {"DEBITO"}),
           Saldo(c, "IPI", SemUf) + IpiSob(c, FALSE, "00")
             + Ajustes(c, "E530", SemUf, {"CREDITO"}),
           0)

-----------------------------------------------------------------------------
(* The findings that stop the file. *)

IpiFora(c, i, csts) == c.industrial /\ i.ipi > 0 /\ i.cstIpi \notin csts

QueixasDeItens(c) ==
    {<<"ICMS_CREDITO_EXIGE_REVISAO", p>> : p \in {q \in ItensDe(c, FALSE) :
                                ~c.simples /\ Decisao(ItemDe(c, q)) = "EXIGE_REVISAO"}}
    \cup {<<"IPI_DEBITO_EXIGE_REVISAO", p>> : p \in {q \in ItensDe(c, TRUE) :
             IpiFora(c, ItemDe(c, q), {"", "50", "51"})}}
    \cup {<<"IPI_CREDITO_RECUSADO", p>> : p \in {q \in ItensDe(c, FALSE) :
             IpiFora(c, ItemDe(c, q), {"", "00", "02"})}}

\* conciliarD190CteSaida.
QueixaD190(c) ==
    LET saidas == {t \in DOMAIN c.ctes : c.ctes[t].saida}
    IN  IF ~c.simples
           /\ SumFunction([t \in {x \in saidas : EmD190(c.ctes[x])} |-> c.ctes[t].icms])
                # SumFunction([t \in saidas |-> DebitoCte(c.ctes[t])])
        THEN {<<"CTE_SAIDA_D190_E110_DIVERGENTE", SemUf>>} ELSE {}

Perto(a, b) == a - b \in -Tolerancia..Tolerancia

\* Variant for mutation: an obligation is only looked at when there is tax to pay.
QueixaDeObrigacaoDevida(c, tipo, uf, recolher) ==
    IF recolher > 0 /\ <<tipo, uf>> \notin DOMAIN c.obrigacoes
    THEN {<<"OBRIGACAO_AUSENTE", tipo, uf>>} ELSE {}

\* validarObrigacao.
QueixaDeObrigacao(c, tipo, uf, recolher) ==
    LET informada == <<tipo, uf>> \in DOMAIN c.obrigacoes
        valor == c.obrigacoes[<<tipo, uf>>]
    IN  IF recolher > 0
        THEN (IF ~informada THEN {<<"OBRIGACAO_AUSENTE", tipo, uf>>}
              ELSE IF Perto(valor, recolher) THEN {}
              ELSE {<<"OBRIGACAO_VALOR_DIVERGENTE", tipo, uf>>})
        ELSE IF informada /\ valor > 0 THEN {<<"OBRIGACAO_SEM_SALDO_APURADO", tipo, uf>>}
        ELSE {}

Responde(c, tipo, uf) == <<tipo, uf>> \in c.responsabilidades
Especiais(c, registros, uf) ==
    \E r \in registros : Ajustes(c, r, uf, {"DEBITO_ESPECIAL"}) > 0

\* validateFcpAdjustments: the FCP of the month must be one debit adjustment.
FcpStDaUf(c, uf) ==
    SumFunction([p \in ItensDaUf(c, uf) |-> ItemDe(c, p).fcpSt])
Conciliado(c, registro, uf, valor) ==
    \E j \in DOMAIN c.ajustes :
        LET a == c.ajustes[j]
        IN  /\ a.registro = registro /\ a.indicador = "DEBITO" /\ a.uf = uf
            /\ Perto(a.valor, valor)
QueixasDeFcp(c) ==
    LET proprio == SumFunction([p \in ItensDe(c, TRUE) |-> ItemDe(c, p).fcp])
        ufs == {u \in {c.notas[n].uf : n \in Notas(c, TRUE)} : FcpStDaUf(c, u) > 0}
    IN  (IF proprio > 0 /\ ~Conciliado(c, "E111", SemUf, proprio)
         THEN {<<"FCP_PROPRIO_AJUSTE_NAO_CONCILIADO", SemUf>>} ELSE {})
        \cup {<<"FCP_ST_NAO_CONCILIADO", u>> : u \in
                {x \in ufs : x = SemUf \/ ~Conciliado(c, "E220", x, FcpStDaUf(c, x))}}

\* validarApuracao.
Queixas(c) ==
    QueixasDeItens(c) \cup QueixaD190(c) \cup QueixasDeFcp(c)
    \cup QueixaDeObrigacao(c, "ICMS_PROPRIO", SemUf, E110(c).recolher)
    \cup (UNION {QueixaDeObrigacao(c, "ICMS_ST", u, E210(c, u).recolher) : u \in UfsSt(c)})
    \cup (UNION {QueixaDeObrigacao(c, "DIFAL_FCP", u, RecolherDifal(c, u)) :
                    u \in UfsDifal(c)})
    \cup {<<"RESPONSABILIDADE_ICMS_ST_NAO_CONFIGURADA", u>> : u \in {x \in UfsSt(c) :
            /\ StDaUf(c, x) > 0 \/ E210(c, x).recolher > 0 \/ Especiais(c, {"E220"}, x)
            /\ ~Responde(c, "ICMS_ST", x)}}
    \cup {<<"RESPONSABILIDADE_DIFAL_NAO_CONFIGURADA", u>> : u \in {x \in UfsDifal(c) :
            /\ \/ DifalFcpDaUf(c, x) > 0 \/ RecolherDifal(c, x) > 0
               \/ Especiais(c, {"E311_2", "E311_3"}, x)
            /\ ~Responde(c, "DIFAL_FCP", x)}}

-----------------------------------------------------------------------------
ApuracaoInit == caso \in Casos /\ apuracao = SemApuracao

Apurar ==
    /\ apuracao = SemApuracao
    /\ apuracao' = [debitos |-> Debitos(caso),
                    creditos |-> CreditosMercadorias(caso) + CreditosFrete(caso),
                    e110 |-> E110(caso), st |-> [u \in UfsSt(caso) |-> E210(caso, u)],
                    difal |-> [u \in UfsDifal(caso) |-> RecolherDifal(caso, u)],
                    ipi |-> IF caso.industrial THEN E520(caso) ELSE SemApuracao,
                    queixas |-> Queixas(caso)]
    /\ UNCHANGED caso

ApuracaoNext == Apurar
ApuracaoSpec == ApuracaoInit /\ [][ApuracaoNext]_apuracaoVars

-----------------------------------------------------------------------------
(* Properties *)

PodeEntregar == apuracao # SemApuracao /\ apuracao.queixas = {}

\* What the analytic registers of the file add up to.
AnaliticoSaidas ==
    SumFunction([n \in Notas(caso, TRUE) |-> SumFunction(C190(caso, n))])
    + SumFunction([t \in {x \in DOMAIN caso.ctes : /\ caso.ctes[x].saida
                                                  /\ EmD190(caso.ctes[x])}
                     |-> caso.ctes[t].icms])
StDeSaidas ==
    SumFunction([p \in {q \in ItensDe(caso, TRUE) : caso.notas[q[1]].uf # SemUf} |->
                   ItemDe(caso, p).st])

\* What each computation of the month comes to, by tax and UF.
Recolhidos ==
    {<<"ICMS_PROPRIO", SemUf, apuracao.e110.recolher>>}
    \cup {<<"ICMS_ST", u, apuracao.st[u].recolher>> : u \in DOMAIN apuracao.st}
    \cup {<<"DIFAL_FCP", u, apuracao.difal[u]>> : u \in DOMAIN apuracao.difal}

\* A file that goes out closes: the debits of E110 are those of C190 and D190 of
\* the sales; each computation has its obligation, to two cents, and none where
\* nothing is owed; every ICMS-ST of a sale to a party with UF is in a computation
\* its company answers for; and what the month does not owe is carried over.
ApuracaoConfere ==
    PodeEntregar =>
       /\ ~caso.simples => apuracao.debitos = AnaliticoSaidas
       /\ \A r \in Recolhidos :
             LET o == <<r[1], r[2]>>
             IN  IF r[3] > 0
                 THEN o \in DOMAIN caso.obrigacoes /\ Perto(caso.obrigacoes[o], r[3])
                 ELSE o \in DOMAIN caso.obrigacoes => caso.obrigacoes[o] = 0
       /\ \A u \in DOMAIN apuracao.st :
             apuracao.st[u].recolher > 0 => Responde(caso, "ICMS_ST", u)
       /\ SumFunction([u \in DOMAIN apuracao.st |-> StDaUf(caso, u)]) = StDeSaidas
       /\ apuracao.e110.credor > 0 => apuracao.e110.recolher = 0
=============================================================================
