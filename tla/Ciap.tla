------------------------------- MODULE Ciap --------------------------------
(***************************************************************************)
(* The permanent assets of one client (CiapService) and what their credit  *)
(* becomes: the register of the assets, the versioned ledger of the        *)
(* monthly instalments (ciap_apropriacoes), the corrections, the disposal  *)
(* of an asset, and the adjustment E111 of each month, which the           *)
(* assessment context (SpedApuracaoContextoService) replaces as a whole.   *)
(*                                                                         *)
(* Appropriation and correction hold an advisory lock of client and month  *)
(* until they commit; the disposal holds the lock of the closing, another  *)
(* key, and the context none. Their transactions are READ COMMITTED: the   *)
(* DELETE of the adjustments sees what was committed when it started, and  *)
(* what the transaction inserts after it is seen by nobody until its       *)
(* commit. So each is two actions: the DELETE, and the INSERT with the     *)
(* commit, with which all the transaction wrote appears. Months are        *)
(* numbered; every asset has Parcelas instalments.                         *)
(***************************************************************************)
EXTENDS Integers, Sequences, FiniteSetsExt

CONSTANTS
  Bens,          \* assets, by codigoBem
  Pedidos,       \* requests that may run at the same time
  Meses,         \* bound: the months are 1 .. Meses
  Parcelas,      \* quantidadeParcelas
  Bases,         \* values of ICMS an asset may be registered with
  Escala,        \* scale of the coefficient
  Coeficientes,  \* scaled coefficients of a month
  MaxVersao,     \* bound: versions of an appropriation
  Ajustes        \* what a saved context may hold for the code of the CIAP

CiapAssumption ==
  /\ Meses \in Nat \ {0}
  /\ Parcelas \in Nat \ {0}
  /\ Escala \in Nat \ {0}
  /\ Bases \subseteq Nat
  /\ Coeficientes \subseteq 0 .. Escala
  /\ MaxVersao \in Nat \ {0}
  /\ Ajustes \subseteq SUBSET Nat
  /\ IsFiniteSet(Bens)

VARIABLES
  bem,        \* ciap_ativo_permanente
  razao,      \* ciap_apropriacoes: the versions of each asset and month
  correcoes,  \* sum of the movements of correction, by asset and month
  residuos,   \* sum of the balances the movements of disposal cancelled
  e111,       \* committed E111 of the CIAP of each month: the values each request inserted
  fonte,      \* for the properties: what the E111 of the month comes from
  trava,      \* who holds the advisory lock of each month
  pedido      \* each request

vars == <<bem, razao, correcoes, residuos, e111, fonte, trava, pedido>>

Competencias == 1 .. Meses

Chaves == Bens \X Competencias

(* entrada and baixa are months (0: none). *)
Bem == [status : {"AUSENTE", "ATIVO", "CONCLUIDO", "BAIXADO"},
        entrada : 0 .. Meses, base : Nat, saldo : Nat,
        parcela : 0 .. Parcelas, baixa : 0 .. Meses]

SemFicha == [status |-> "AUSENTE", entrada |-> 0, base |-> 0, saldo |-> 0,
             parcela |-> 0, baixa |-> 0]

Versao == [versao : Nat \ {0}, ativa : BOOLEAN, passivel : Nat, admitida : Nat]

(* passo: with the assets read, or with the DELETE of its operation done.  *)
(* lidos: the assets as the appropriation selected them. vistos: the       *)
(* requests whose rows the DELETE removes. cruzado, for the properties: a  *)
(* context was saved between the DELETE and the INSERT of a regravação.    *)
Pedido == [passo : {"ocioso", "lido", "apropriar", "corrigir", "contexto"},
           mes : 0 .. Meses, lidos : [Bens -> Bem],
           vistos : SUBSET Pedidos, cruzado : BOOLEAN]

Ocioso == [passo |-> "ocioso", mes |-> 0, lidos |-> [b \in Bens |-> SemFicha],
           vistos |-> {}, cruzado |-> FALSE]

(* The steps under the advisory lock, and those of a regravação. *)
ComTrava == {"lido", "apropriar", "corrigir"}

Regravacoes == {"apropriar", "corrigir"}

SemAjuste == [p \in Pedidos |-> {}]

Positivo(n) == IF n > 0 THEN n ELSE 0

Ativas(versoes) == {i \in DOMAIN versoes : versoes[i].ativa}

(* The versions of a month, by asset. *)
DoMes(r, c) == [b \in Bens |-> r[<<b, c>>]]

LinhasAtivas(m) == UNION {{<<b, i>> : i \in Ativas(m[b])} : b \in Bens}

(* What the rows of a month that are active add up to. *)
SomaAtiva(m) == MapThenSumSet(LAMBDA l : m[l[1]][l[2]].admitida, LinhasAtivas(m))

CreditoDaRazao(r, c) == SomaAtiva(DoMes(r, c))

Init ==
  /\ bem = [b \in Bens |-> SemFicha]
  /\ razao = [k \in Chaves |-> <<>>]
  /\ correcoes = [k \in Chaves |-> 0]
  /\ residuos = [b \in Bens |-> 0]
  /\ e111 = [c \in Competencias |-> SemAjuste]
  /\ fonte = [c \in Competencias |-> "razao"]
  /\ trava = [c \in Competencias |-> "livre"]
  /\ pedido = [p \in Pedidos |-> Ocioso]

-----------------------------------------------------------------------------
(* The register.                                                           *)

(* registrarBem, and importarBensDoPeriodo for what it did not find: the   *)
(* conflict keeps the balance, the instalments and the status. *)
RegistrarBem(b) ==
  /\ \E c \in Competencias, v \in Bases :
       bem' = [bem EXCEPT ![b] =
                 IF @.status = "AUSENTE"
                 THEN [SemFicha EXCEPT !.status = "ATIVO", !.entrada = c, !.base = v, !.saldo = v]
                 ELSE [@ EXCEPT !.entrada = c, !.base = v]]
  /\ UNCHANGED <<razao, correcoes, residuos, e111, fonte, trava, pedido>>

(* baixarBem: the transaction is repeatable read, so that an update of the *)
(* row by another that commits first only makes it fail. It may be         *)
(* repeated: nothing looks at the status. *)
BaixarBem(b) ==
  /\ bem[b].status # "AUSENTE"
  /\ bem[b].baixa = 0  \* bound: one disposal of each asset
  /\ \E c \in Competencias :
       bem' = [bem EXCEPT ![b].status = "BAIXADO", ![b].baixa = c]
  /\ residuos' = [residuos EXCEPT ![b] = @ + Positivo(bem[b].saldo)]
  /\ UNCHANGED <<razao, correcoes, e111, fonte, trava, pedido>>

-----------------------------------------------------------------------------
(* sped_ajustes_apuracao: no unique index keeps two rows of a code apart.  *)

Donos(c) == {p \in Pedidos : e111[c][p] # {}}

(* The DELETE of a request. Of two that meet on a row one waits for the    *)
(* other to end: that only says which commits first. *)
Apagado(p, passo, c) ==
  [pedido[p] EXCEPT !.passo = passo, !.mes = c, !.vistos = Donos(c)]

(* What a commit of p leaves of another request of its month: the rows p   *)
(* deleted are gone from what the other will delete. *)
Cruzado(q, p) ==
  IF pedido[q].mes # pedido[p].mes THEN pedido[q]
  ELSE [pedido[q] EXCEPT
          !.vistos = @ \ pedido[p].vistos,
          !.cruzado = @ \/ (/\ pedido[p].passo = "contexto"
                            /\ pedido[q].passo \in Regravacoes)]

(* The INSERT and the commit: the rows the DELETE saw go, those of p       *)
(* come. *)
Gravado(p, linhas) ==
  /\ e111' = [e111 EXCEPT ![pedido[p].mes] =
                [q \in Pedidos |-> (IF q \in pedido[p].vistos THEN {} ELSE @[q])
                                      \cup (IF q = p THEN linhas ELSE {})]]
  /\ pedido' = [q \in Pedidos |-> IF q = p THEN Ocioso ELSE Cruzado(q, p)]

LinhaDoCredito(v) == IF v > 0 THEN {v} ELSE {}

DaRazao(p) ==
  fonte' = [fonte EXCEPT ![pedido[p].mes] = IF pedido[p].cruzado THEN "ambas" ELSE "razao"]

(* Variant for mutation: the ledger is summed before the run writes it.    *)
RegravarAntes(p, r) ==
  /\ Gravado(p, LinhaDoCredito(CreditoDaRazao(razao, pedido[p].mes)))
  /\ DaRazao(p)

(* regravarAjusteE111, of the ledger r as the transaction leaves it.       *)
Regravar(p, r) ==
  /\ Gravado(p, LinhaDoCredito(CreditoDaRazao(r, pedido[p].mes)))
  /\ DaRazao(p)

-----------------------------------------------------------------------------
(* apropriarCompetencia                                                    *)

(* Variant for mutation: no advisory lock. *)
SemTrava(c) == TRUE

Destravada(c) == trava[c] = "livre"

(* mesesDesdeEntrada + 1 *)
NumeroParcela(f, c) == (c - f.entrada) + 1

(* Entered by the end of the month, not disposed of by then, and within    *)
(* the calendar of its instalments. *)
Elegivel(f, c) ==
  /\ f.status # "AUSENTE"
  /\ f.entrada <= c
  /\ f.baixa = 0 \/ f.baixa > c
  /\ NumeroParcela(f, c) \in 1 .. Parcelas

Apropriaveis(c) == {b \in Bens : Elegivel(bem[b], c) /\ Ativas(razao[<<b, c>>]) = {}}

(* The lock is obtained; the assets are selected, as they stand, and those *)
(* that already have an active row for the month are left out. *)
LerBens(p) ==
  /\ pedido[p].passo = "ocioso"
  /\ \E c \in Competencias :
       /\ Destravada(c)
       /\ trava' = [trava EXCEPT ![c] = "presa"]
       /\ pedido' = [pedido EXCEPT ![p].passo = "lido", ![p].mes = c,
                                  ![p].lidos = [b \in Bens |->
                                    IF b \in Apropriaveis(c) THEN bem[b] ELSE SemFicha]]
  /\ UNCHANGED <<bem, razao, correcoes, residuos, e111, fonte>>

(* The assets are updated and the versions inserted, seen by nobody yet,   *)
(* and the adjustment is deleted. *)
ApagarE111(p) ==
  /\ pedido[p].passo = "lido"
  /\ pedido' = [pedido EXCEPT ![p] = Apagado(p, "apropriar", pedido[p].mes)]
  /\ UNCHANGED <<bem, razao, correcoes, residuos, e111, fonte, trava>>

ParcelaPassivel(f) == f.base \div Parcelas

ParcelaAdmitida(passivel, coef) == (passivel * coef) \div Escala

(* Only the columns the update sets; all of them come from what was read.  *)
Apropriado(b, f, c) ==
  [bem[b] EXCEPT
     !.parcela = NumeroParcela(f, c),
     !.saldo = Positivo(f.saldo - ParcelaPassivel(f)),
     !.status = IF f.status = "BAIXADO" THEN "BAIXADO"
                ELSE IF NumeroParcela(f, c) >= Parcelas THEN "CONCLUIDO" ELSE "ATIVO"]

(* The commit. coef: the coefficient computed before the transaction, any  *)
(* of them. *)
Apropriar(p, coef) ==
  LET c == pedido[p].mes
      f == pedido[p].lidos
      novos == {b \in Bens : f[b] # SemFicha}
      nova(b) == [versao |-> 1, ativa |-> TRUE, passivel |-> ParcelaPassivel(f[b]),
                  admitida |-> ParcelaAdmitida(ParcelaPassivel(f[b]), coef)]
      r == [k \in Chaves |-> IF k[1] \in novos /\ k[2] = c
                             THEN Append(razao[k], nova(k[1])) ELSE razao[k]]
  IN  /\ pedido[p].passo = "apropriar"
      /\ bem' = [b \in Bens |-> IF b \in novos THEN Apropriado(b, f[b], c) ELSE bem[b]]
      /\ razao' = r
      /\ Regravar(p, r)
      /\ trava' = [trava EXCEPT ![c] = "livre"]
      /\ UNCHANGED <<correcoes, residuos>>

(* No code of adjustment in the catalogue, a deadlock of the updates or a  *)
(* crash: the transaction leaves nothing. *)
Falhar(p) ==
  /\ pedido[p].passo # "ocioso"
  /\ pedido' = [pedido EXCEPT ![p] = Ocioso]
  /\ trava' = IF pedido[p].passo \in ComTrava
              THEN [trava EXCEPT ![pedido[p].mes] = "livre"] ELSE trava
  /\ UNCHANGED <<bem, razao, correcoes, residuos, e111, fonte>>

-----------------------------------------------------------------------------
(* corrigirApropriacao, under the lock of the month, which reads nothing   *)
(* that others write outside it. *)

Corrigiveis(c) ==
  {b \in Bens : /\ Ativas(razao[<<b, c>>]) # {}
                /\ Len(razao[<<b, c>>]) < MaxVersao}  \* bound

(* The lock is obtained, and the adjustment deleted. *)
ApagarParaCorrigir(p) ==
  /\ pedido[p].passo = "ocioso"
  /\ \E c \in Competencias :
       /\ Destravada(c) /\ Corrigiveis(c) # {}
       /\ trava' = [trava EXCEPT ![c] = "presa"]
       /\ pedido' = [pedido EXCEPT ![p] = Apagado(p, "corrigir", c)]
  /\ UNCHANGED <<bem, razao, correcoes, residuos, e111, fonte>>

(* The active version is deactivated, never changed or deleted. *)
Corrigida(versoes, i, nova) == Append([versoes EXCEPT ![i].ativa = FALSE], nova)

Delta(nova, atual) == nova - atual.admitida

(* The commit. *)
Corrigir(p) ==
  /\ pedido[p].passo = "corrigir"
  /\ \E b \in Corrigiveis(pedido[p].mes), i \in 1 .. MaxVersao, coef \in Coeficientes :
       LET k == <<b, pedido[p].mes>>
           atual == razao[k][i]
           admitida == ParcelaAdmitida(atual.passivel, coef)
           r == [razao EXCEPT ![k] =
                   Corrigida(@, i, [atual EXCEPT !.versao = @ + 1, !.admitida = admitida])]
       IN  /\ i \in Ativas(razao[k])
           /\ razao' = r
           /\ correcoes' = [correcoes EXCEPT ![k] = @ + Delta(admitida, atual)]
           /\ Regravar(p, r)
           /\ trava' = [trava EXCEPT ![pedido[p].mes] = "livre"]
  /\ UNCHANGED <<bem, residuos>>

-----------------------------------------------------------------------------
(* The assessment context: atualizar deletes every adjustment of the month *)
(* and inserts those sent, under no lock. *)

ApagarAjustes(p) ==
  /\ pedido[p].passo = "ocioso"
  /\ \E c \in Competencias :
       pedido' = [pedido EXCEPT ![p] = Apagado(p, "contexto", c)]
  /\ UNCHANGED <<bem, razao, correcoes, residuos, e111, fonte, trava>>

(* The commit. What is sent is the user's, or what a screen had read: any  *)
(* rows, more than one of a code included. *)
AtualizarContexto(p) ==
  /\ pedido[p].passo = "contexto"
  /\ \E linhas \in Ajustes : Gravado(p, linhas)
  /\ fonte' = [fonte EXCEPT ![pedido[p].mes] = "tela"]
  /\ UNCHANGED <<bem, razao, correcoes, residuos, trava>>

-----------------------------------------------------------------------------
Next ==
  \/ \E b \in Bens : RegistrarBem(b) \/ BaixarBem(b)
  \/ \E p \in Pedidos :
       \/ LerBens(p) \/ ApagarE111(p) \/ (\E coef \in Coeficientes : Apropriar(p, coef))
       \/ ApagarParaCorrigir(p) \/ Corrigir(p)
       \/ ApagarAjustes(p) \/ AtualizarContexto(p) \/ Falhar(p)

Spec == Init /\ [][Next]_vars

-----------------------------------------------------------------------------
(* Properties.                                                             *)

(* Every variable stays in its set. *)
TypeOK ==
  /\ bem \in [Bens -> Bem]
  /\ razao \in [Chaves -> Seq(Versao)]
  /\ correcoes \in [Chaves -> Int]
  /\ residuos \in [Bens -> Nat]
  /\ e111 \in [Competencias -> [Pedidos -> SUBSET Nat]]
  /\ fonte \in [Competencias -> {"razao", "tela", "ambas"}]
  /\ trava \in [Competencias -> {"livre", "presa"}]
  /\ pedido \in [Pedidos -> Pedido]

(* However many appropriations and corrections of a month run, retries and *)
(* failures included, an asset has one instalment in it: one active        *)
(* version, the last, and versions numbered without gap, so that the       *)
(* unique indexes of the ledger never have to refuse a row. *)
UmaAtiva ==
  \A k \in Chaves :
    /\ Ativas(razao[k]) = IF razao[k] = <<>> THEN {} ELSE {Len(razao[k])}
    /\ \A i \in DOMAIN razao[k] : razao[k][i].versao = i

(* The ledger is a history: a row is never changed or deleted, only        *)
(* deactivated, and what one correction deactivated stays so. *)
RazaoSoCresce ==
  [][\A k \in Chaves :
       /\ Len(razao[k]) <= Len(razao'[k])
       /\ \A i \in DOMAIN razao[k] :
            razao'[k][i] \in {razao[k][i], [razao[k][i] EXCEPT !.ativa = FALSE]}]_vars

(* The E111 of the month is one row of value v, or none when v is zero.    *)
Conferido(c, v) ==
  IF v > 0 THEN \E p \in Pedidos : e111[c] = [SemAjuste EXCEPT ![p] = {v}]
  ELSE e111[c] = SemAjuste

(* After a regravação, whatever appropriations and corrections interleave  *)
(* with it, and whatever saves of the context before it, the E111 of the   *)
(* month is one row with what the active rows add up to. Not claimed of a  *)
(* month whose context was saved since the regravação, which replaces the  *)
(* E111, or while it ran, which leaves both (AjusteUnico). *)
E111Confere ==
  \A c \in Competencias : fonte[c] = "razao" => Conferido(c, CreditoDaRazao(razao, c))


(* The movements of correction explain the ledger: the first instalment    *)
(* and the deltas since make the active one, correction after correction.  *)
CorrecoesFecham ==
  \A k \in Chaves :
    razao[k] # <<>> =>
      razao[k][Len(razao[k])].admitida = razao[k][1].admitida + correcoes[k]

(* The ledger is consistent with itself and with its movements. *)
RazaoConsistente == UmaAtiva /\ CorrecoesFecham

(* ciap.service.ts:549-551: the disposal stays; an appropriation never     *)
(* overwrites it. *)
BaixaPermanece == \A b \in Bens : bem[b].baixa # 0 => bem[b].status = "BAIXADO"
=============================================================================
