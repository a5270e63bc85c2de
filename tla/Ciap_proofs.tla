----------------------------- MODULE Ciap_proofs -----------------------------
(***************************************************************************)
(* Proofs about Ciap, for any number of assets, months, instalments,       *)
(* requests and corrections: the ledger of the instalments and the         *)
(* adjustment E111 that follows it.                                        *)
(*                                                                         *)
(* UmaAtiva is not inductive: an appropriation inserts first versions into *)
(* rows it found empty some time ago. The invariant adds what the advisory *)
(* lock of the month gives it: that nobody else is inserting in the month, *)
(* so that those rows are still empty when it writes.                      *)
(*                                                                         *)
(* E111Confere needs the types (AInv): the sum of the active rows is only  *)
(* known to be one when the rows are finite and their amounts natural, and *)
(* the instalment an appropriation writes is within its calendar because   *)
(* the assets it read were, whatever the register says of them since. And  *)
(* it needs that the DELETE of a regravação saw every row of its month     *)
(* that is committed when it inserts its own, unless a save of the context *)
(* crossed it (Visto): that is what the lock gives, by keeping the other   *)
(* regravações of the month away.                                          *)
(***************************************************************************)
EXTENDS Ciap, WellFoundedInduction, FiniteSetTheorems, TLAPS

(* The types the arithmetic needs; the bounds of TypeOK play no part. *)
Ficha == [status : {"AUSENTE", "ATIVO", "CONCLUIDO", "BAIXADO"},
          entrada : Int, base : Nat, saldo : Int, parcela : Int, baixa : Int]
Registro == [versao : Nat, ativa : BOOLEAN, passivel : Int, admitida : Int]

Requisicao == [passo : {"ocioso", "lido", "apropriar", "corrigir", "contexto"},
               mes : Int, lidos : [Bens -> Ficha],
               vistos : SUBSET Pedidos, cruzado : BOOLEAN]

TiposDaRazao ==
  /\ bem \in [Bens -> Ficha]
  /\ razao \in [Chaves -> Seq(Registro)]
  /\ correcoes \in [Chaves -> Int]
  /\ trava \in [Competencias -> {"livre", "presa"}]
  /\ pedido \in [Pedidos -> Requisicao]

SemCorrecao == \A k \in Chaves : razao[k] = <<>> => correcoes[k] = 0

(* An appropriation or a correction under way has the lock of its month to *)
(* itself, and the rows an appropriation is to insert are still missing.   *)
Reservado(p) ==
  pedido[p].passo \in ComTrava =>
    /\ pedido[p].mes \in Competencias
    /\ trava[pedido[p].mes] = "presa"
    /\ \A q \in Pedidos \ {p} :
         pedido[q].passo \in ComTrava => pedido[q].mes # pedido[p].mes
    /\ pedido[p].passo # "corrigir" =>
         \A b \in Bens :
           pedido[p].lidos[b] # SemFicha => razao[<<b, pedido[p].mes>>] = <<>>

IInv == TiposDaRazao /\ RazaoConsistente /\ SemCorrecao /\ \A p \in Pedidos : Reservado(p)

-----------------------------------------------------------------------------
(* One row of the ledger. *)

Boa(s) ==
  /\ Ativas(s) = IF s = <<>> THEN {} ELSE {Len(s)}
  /\ \A i \in DOMAIN s : s[i].versao = i

LEMMA BoaEmCadaChave == UmaAtiva <=> \A k \in Chaves : Boa(razao[k])
  BY DEF UmaAtiva, Boa

(* The first version of an instalment. *)
LEMMA PrimeiraVersao ==
  ASSUME NEW n \in Registro, n.versao = 1, n.ativa = TRUE
  PROVE  /\ Boa(Append(<<>>, n))
         /\ Append(<<>>, n) \in Seq(Registro) /\ Append(<<>>, n) # <<>>
         /\ Len(Append(<<>>, n)) = 1 /\ Append(<<>>, n)[1] = n
<1>1. Append(<<>>, n) = <<n>>
  OBVIOUS
<1>2. /\ Len(<<n>>) = 1 /\ DOMAIN <<n>> = {1} /\ <<n>>[1] = n
      /\ <<n>> \in Seq(Registro) /\ <<n>> # <<>>
  OBVIOUS
<1>3. Ativas(<<n>>) = {1}
  BY <1>2 DEF Ativas
<1>4. QED
  BY <1>1, <1>2, <1>3 DEF Boa

Desativada(r) == [r EXCEPT !.ativa = FALSE]

(* A correction deactivates the active version and appends the next. *)
LEMMA VersaoSeguinte ==
  ASSUME NEW s \in Seq(Registro), Boa(s), NEW i \in Ativas(s),
         NEW n \in Registro, n.versao = s[i].versao + 1, n.ativa = TRUE,
         NEW c, c = Corrigida(s, i, n)
  PROVE  /\ i = Len(s) /\ i \in DOMAIN s /\ s # <<>>
         /\ c \in Seq(Registro) /\ Len(c) = Len(s) + 1 /\ c # <<>>
         /\ \A j \in DOMAIN s : c[j] \in {s[j], Desativada(s[j])}
         /\ Boa(c)
<1> DEFINE d == [s EXCEPT ![i].ativa = FALSE]
           t == Append(d, n)
<1>1. i = Len(s) /\ i \in DOMAIN s /\ s # <<>> /\ Len(s) \in Nat
  BY DEF Boa, Ativas
<1>2. /\ d \in Seq(Registro) /\ Len(d) = Len(s) /\ DOMAIN d = DOMAIN s
      /\ \A j \in DOMAIN s : d[j] = IF j = i THEN [s[j] EXCEPT !.ativa = FALSE] ELSE s[j]
  <2> DEFINE r == [s[i] EXCEPT !.ativa = FALSE]
  <2>1. r \in Registro
    <3>1. s[i] \in Registro
      BY <1>1
    <3>2. QED
      BY <3>1 DEF Registro
  <2>2. d = [s EXCEPT ![i] = r]
    OBVIOUS
  <2> HIDE DEF r
  <2>3. /\ [s EXCEPT ![i] = r] \in Seq(Registro)
        /\ Len([s EXCEPT ![i] = r]) = Len(s)
        /\ DOMAIN [s EXCEPT ![i] = r] = DOMAIN s
    BY <1>1, <2>1
  <2>4. \A j \in DOMAIN s : [s EXCEPT ![i] = r][j] = IF j = i THEN r ELSE s[j]
    BY <1>1
  <2>5. QED
    BY <2>2, <2>3, <2>4 DEF r
<1>3. /\ t \in Seq(Registro) /\ Len(t) = Len(s) + 1 /\ t # <<>>
      /\ DOMAIN t = 1 .. Len(s) + 1
      /\ \A j \in DOMAIN s : t[j] = d[j]
      /\ t[Len(s) + 1] = n
  BY <1>1, <1>2
<1>4. \A j \in DOMAIN s : s[j] \in Registro /\ j \in 1 .. Len(s)
  BY <1>1
<1>5. \A j \in DOMAIN s : /\ t[j].versao = s[j].versao
                          /\ t[j].ativa = TRUE => j # i /\ s[j].ativa = TRUE
  BY <1>2, <1>3, <1>4 DEF Registro
<1>6. \A j \in DOMAIN s : s[j].ativa = TRUE => j = i
  BY <1>1 DEF Boa, Ativas
<1>7. \A j \in DOMAIN t : t[j].ativa = TRUE <=> j = Len(s) + 1
  BY <1>1, <1>3, <1>4, <1>5, <1>6
<1>8. Ativas(t) = {Len(t)}
  <2>1. \A j \in DOMAIN t : t[j] \in Registro
    BY <1>3
  <2>2. \A j \in DOMAIN t : t[j].ativa <=> t[j].ativa = TRUE
    BY <2>1 DEF Registro
  <2>3. QED
    BY <1>1, <1>3, <1>7, <2>2 DEF Ativas
<1>9. \A j \in DOMAIN t : t[j].versao = j
  BY <1>1, <1>3, <1>4, <1>5 DEF Boa
<1>10. QED
  <2>1. c = t
    BY DEF Corrigida
  <2>2. Boa(t)
    BY <1>1, <1>3, <1>8, <1>9 DEF Boa
  <2>3. \A j \in DOMAIN s : t[j] \in {s[j], Desativada(s[j])}
    BY <1>2, <1>3 DEF Desativada
  <2> HIDE DEF t
  <2>4. QED
    BY <1>1, <1>3, <2>1, <2>2, <2>3

(* Stated apart, with the new version on the left: so the provers use it. *)
LEMMA UltimaVersao ==
  ASSUME NEW s \in Seq(Registro), NEW i \in DOMAIN s, NEW n \in Registro,
         NEW c, c = Corrigida(s, i, n)
  PROVE  n = c[Len(c)]
<1> DEFINE r == [s[i] EXCEPT !.ativa = FALSE]
<1>1. r \in Registro
  <2>1. s[i] \in Registro
    OBVIOUS
  <2>2. QED
    BY <2>1 DEF Registro
<1>2. c = Append([s EXCEPT ![i] = r], n)
  BY DEF Corrigida
<1> HIDE DEF r
<1>3. [s EXCEPT ![i] = r] \in Seq(Registro)
  BY <1>1
<1>4. QED
  BY <1>2, <1>3

-----------------------------------------------------------------------------
(* The requests. *)

(* What a commit of another leaves of a request. *)
Mantida(q) ==
  /\ pedido'[q].passo = pedido[q].passo
  /\ pedido'[q].mes = pedido[q].mes
  /\ pedido'[q].lidos = pedido[q].lidos

LEMMA FichaVazia == SemFicha \in Ficha /\ Ocioso \in Requisicao /\ Ocioso.passo = "ocioso"
<1>1. SemFicha \in Ficha
  BY DEF SemFicha, Ficha
<1>2. [b \in Bens |-> SemFicha] \in [Bens -> Ficha]
  BY <1>1
<1>3. QED
  BY <1>1, <1>2 DEF Requisicao, Ocioso

LEMMA NovaRequisicao ==
  ASSUME pedido \in [Pedidos -> Requisicao], NEW p \in Pedidos, NEW r \in Requisicao,
         pedido' = [pedido EXCEPT ![p] = r]
  PROVE  /\ pedido' \in [Pedidos -> Requisicao]
         /\ pedido'[p] = r
         /\ \A q \in Pedidos \ {p} : pedido'[q] = pedido[q] /\ Mantida(q)
BY DEF Mantida

(* The request that commits is over; the others keep all but what they     *)
(* still delete. *)
LEMMA RequisicoesGravadas ==
  ASSUME pedido \in [Pedidos -> Requisicao], NEW p \in Pedidos,
         pedido' = [q \in Pedidos |-> IF q = p THEN Ocioso ELSE Cruzado(q, p)]
  PROVE  /\ pedido' \in [Pedidos -> Requisicao]
         /\ pedido'[p] = Ocioso
         /\ \A q \in Pedidos \ {p} : Mantida(q)
<1>1. ASSUME NEW q \in Pedidos
      PROVE  /\ Cruzado(q, p) \in Requisicao
             /\ Cruzado(q, p).passo = pedido[q].passo
             /\ Cruzado(q, p).mes = pedido[q].mes
             /\ Cruzado(q, p).lidos = pedido[q].lidos
  <2>1. ASSUME NEW a \in Requisicao, NEW v \in SUBSET Pedidos, NEW x \in BOOLEAN
        PROVE  /\ [a EXCEPT !.vistos = v, !.cruzado = x] \in Requisicao
               /\ [a EXCEPT !.vistos = v, !.cruzado = x].passo = a.passo
               /\ [a EXCEPT !.vistos = v, !.cruzado = x].mes = a.mes
               /\ [a EXCEPT !.vistos = v, !.cruzado = x].lidos = a.lidos
    BY DEF Requisicao
  <2>2. pedido[q] \in Requisicao
    OBVIOUS
  <2> DEFINE v == pedido[q].vistos \ pedido[p].vistos
             x == pedido[q].cruzado \/ (/\ pedido[p].passo = "contexto"
                                        /\ pedido[q].passo \in Regravacoes)
  <2>3. v \in SUBSET Pedidos /\ x \in BOOLEAN
    BY <2>2 DEF Requisicao
  <2>4. Cruzado(q, p) = IF pedido[q].mes # pedido[p].mes THEN pedido[q]
                        ELSE [pedido[q] EXCEPT !.vistos = v, !.cruzado = x]
    BY DEF Cruzado
  <2> HIDE DEF v, x
  <2>5. CASE pedido[q].mes # pedido[p].mes
    BY <2>2, <2>4, <2>5
  <2>6. CASE pedido[q].mes = pedido[p].mes
    <3> DEFINE a == pedido[q]
               n == [a EXCEPT !.vistos = v, !.cruzado = x]
    <3>1. Cruzado(q, p) = n
      BY <2>4, <2>6
    <3>2. a \in Requisicao
      BY <2>2
    <3> HIDE DEF a
    <3>3. n \in Requisicao /\ n.passo = a.passo /\ n.mes = a.mes /\ n.lidos = a.lidos
      BY <2>1, <2>3, <3>2
    <3> HIDE DEF n
    <3>4. QED
      BY <3>1, <3>3 DEF a
  <2>7. QED
    BY <2>5, <2>6
<1>2. QED
  BY <1>1, FichaVazia DEF Mantida

(* What the others have reserved survives a step that leaves their months *)
(* alone. *)
LEMMA OutrosReservados ==
  ASSUME \A q \in Pedidos : Reservado(q), NEW p \in Pedidos,
         \A q \in Pedidos \ {p} : Mantida(q),
         ASSUME NEW q \in Pedidos \ {p}, pedido[q].passo \in ComTrava
         PROVE  /\ trava'[pedido[q].mes] = trava[pedido[q].mes]
                /\ \A b \in Bens :
                     razao'[<<b, pedido[q].mes>>] = razao[<<b, pedido[q].mes>>]
                /\ pedido'[p].passo \in ComTrava => pedido'[p].mes # pedido[q].mes
  PROVE  \A q \in Pedidos \ {p} : Reservado(q)'
<1>1. SUFFICES ASSUME NEW q \in Pedidos \ {p}, pedido[q].passo \in ComTrava
               PROVE  /\ pedido[q].mes \in Competencias
                      /\ trava'[pedido[q].mes] = "presa"
                      /\ \A t \in Pedidos \ {q} :
                           pedido'[t].passo \in ComTrava => pedido'[t].mes # pedido[q].mes
                      /\ pedido[q].passo # "corrigir" =>
                           \A b \in Bens : pedido[q].lidos[b] # SemFicha =>
                                             razao'[<<b, pedido[q].mes>>] = <<>>
  BY DEF Reservado, Competencias, Mantida
<1>2. /\ pedido[q].mes \in Competencias
      /\ trava[pedido[q].mes] = "presa"
      /\ \A t \in Pedidos \ {q} :
           pedido[t].passo \in ComTrava => pedido[t].mes # pedido[q].mes
      /\ pedido[q].passo # "corrigir" =>
           \A b \in Bens : pedido[q].lidos[b] # SemFicha =>
                             razao[<<b, pedido[q].mes>>] = <<>>
  BY <1>1 DEF Reservado
<1>3. /\ trava'[pedido[q].mes] = trava[pedido[q].mes]
      /\ \A b \in Bens : razao'[<<b, pedido[q].mes>>] = razao[<<b, pedido[q].mes>>]
      /\ pedido'[p].passo \in ComTrava => pedido'[p].mes # pedido[q].mes
  BY <1>1
<1>4. ASSUME NEW t \in Pedidos \ {q}, pedido'[t].passo \in ComTrava
      PROVE  pedido'[t].mes # pedido[q].mes
  <2>1. CASE t = p
    BY <1>3, <1>4, <2>1
  <2>2. CASE t # p
    BY <1>2, <1>4, <2>2 DEF Mantida
  <2>3. QED
    BY <2>1, <2>2
<1>5. QED
  BY <1>2, <1>3, <1>4

(* The lock of a month is obtained. *)
LEMMA TravaObtida ==
  ASSUME TiposDaRazao, \A q \in Pedidos : Reservado(q), NEW p \in Pedidos,
         NEW c \in Competencias, trava[c] = "livre",
         trava' = [trava EXCEPT ![c] = "presa"], razao' = razao,
         pedido'[p].passo \in ComTrava, pedido'[p].mes = c,
         \A q \in Pedidos \ {p} : Mantida(q),
         pedido'[p].passo # "corrigir" =>
           \A b \in Bens : pedido'[p].lidos[b] # SemFicha => razao[<<b, c>>] = <<>>
  PROVE  \A q \in Pedidos : Reservado(q)'
<1>1. \A q \in Pedidos \ {p} : pedido[q].passo \in ComTrava => pedido[q].mes # c
  BY DEF Reservado
<1>2. \A q \in Pedidos \ {p} : Reservado(q)'
  <2>1. ASSUME NEW q \in Pedidos \ {p}, pedido[q].passo \in ComTrava
        PROVE  trava'[pedido[q].mes] = trava[pedido[q].mes]
    <3>1. pedido[q].mes \in Competencias
      BY <2>1 DEF Reservado
    <3>2. QED
      BY <1>1, <2>1, <3>1 DEF TiposDaRazao
  <2>2. QED
    BY <1>1, <2>1, OutrosReservados
<1>3. Reservado(p)'
  <2>1. trava'[c] = "presa"
    BY DEF TiposDaRazao
  <2>2. \A q \in Pedidos \ {p} : pedido'[q].passo \in ComTrava => pedido'[q].mes # c
    BY <1>1 DEF Mantida
  <2>3. QED
    BY <2>1, <2>2 DEF Reservado
<1>4. QED
  BY <1>2, <1>3

(* It is let go, by a commit that wrote only its month, or by a failure.   *)
LEMMA TravaLiberada ==
  ASSUME TiposDaRazao, \A q \in Pedidos : Reservado(q), NEW p \in Pedidos,
         pedido[p].passo \in ComTrava,
         \A k \in Chaves : k[2] # pedido[p].mes => razao'[k] = razao[k],
         trava' = [trava EXCEPT ![pedido[p].mes] = "livre"],
         pedido'[p] = Ocioso, \A q \in Pedidos \ {p} : Mantida(q)
  PROVE  \A q \in Pedidos : Reservado(q)'
<1> DEFINE c == pedido[p].mes
<1>1. pedido'[p].passo \notin ComTrava
  BY FichaVazia DEF ComTrava
<1>2. ASSUME NEW q \in Pedidos \ {p}, pedido[q].passo \in ComTrava
      PROVE  /\ trava'[pedido[q].mes] = trava[pedido[q].mes]
             /\ \A b \in Bens : razao'[<<b, pedido[q].mes>>] = razao[<<b, pedido[q].mes>>]
  <2>1. pedido[q].mes \in Competencias /\ pedido[q].mes # c
    BY <1>2 DEF Reservado
  <2>2. trava'[pedido[q].mes] = trava[pedido[q].mes]
    BY <2>1 DEF TiposDaRazao
  <2>3. \A b \in Bens : <<b, pedido[q].mes>> \in Chaves /\ <<b, pedido[q].mes>>[2] # c
    BY <2>1 DEF Chaves
  <2>4. QED
    BY <2>2, <2>3
<1>3. \A q \in Pedidos \ {p} : Reservado(q)'
  BY <1>1, <1>2, OutrosReservados
<1>4. QED
  BY <1>1, <1>3 DEF Reservado

-----------------------------------------------------------------------------
LEMMA InicioIInv == Init => IInv
<1> SUFFICES ASSUME Init PROVE IInv
  OBVIOUS
<1>1. TiposDaRazao
  BY FichaVazia DEF Init, TiposDaRazao
<1>2. \A k \in Chaves : razao[k] = <<>> /\ correcoes[k] = 0
  BY DEF Init
<1>3. \A k \in Chaves : Boa(razao[k])
  BY <1>2 DEF Boa, Ativas
<1>4. \A p \in Pedidos : pedido[p].passo \notin ComTrava
  BY FichaVazia DEF Init, ComTrava
<1>5. QED
  BY <1>1, <1>2, <1>3, <1>4, BoaEmCadaChave
     DEF IInv, RazaoConsistente, CorrecoesFecham, SemCorrecao, Reservado

(* Steps that leave the ledger, the locks and the requests alone. *)
LEMMA CadastroIInv ==
  ASSUME CiapAssumption, IInv, NEW b \in Bens, RegistrarBem(b) \/ BaixarBem(b)
  PROVE  IInv' /\ razao' = razao
<1>1. UNCHANGED <<razao, correcoes, trava, pedido>>
  BY DEF RegistrarBem, BaixarBem
<1>2. bem' \in [Bens -> Ficha]
  <2>1. bem \in [Bens -> Ficha] /\ Bases \subseteq Nat /\ Competencias \subseteq Int
    BY DEF IInv, TiposDaRazao, CiapAssumption, Competencias
  <2>2. CASE RegistrarBem(b)
    <3>1. PICK c \in Competencias, v \in Bases :
            bem' = [bem EXCEPT ![b] =
                      IF @.status = "AUSENTE"
                      THEN [SemFicha EXCEPT !.status = "ATIVO", !.entrada = c,
                                            !.base = v, !.saldo = v]
                      ELSE [@ EXCEPT !.entrada = c, !.base = v]]
      BY <2>2 DEF RegistrarBem
    <3>2. c \in Int /\ v \in Nat /\ v \in Int
      BY <2>1
    <3>3. [SemFicha EXCEPT !.status = "ATIVO", !.entrada = c,
                           !.base = v, !.saldo = v] \in Ficha
      BY <3>2, FichaVazia DEF Ficha
    <3>4. [bem[b] EXCEPT !.entrada = c, !.base = v] \in Ficha
      BY <2>1, <3>2 DEF Ficha
    <3>5. QED
      BY <2>1, <3>1, <3>3, <3>4
  <2>3. CASE BaixarBem(b)
    <3>1. PICK c \in Competencias :
            bem' = [bem EXCEPT ![b].status = "BAIXADO", ![b].baixa = c]
      BY <2>3 DEF BaixarBem
    <3>2. QED
      BY <2>1, <3>1 DEF Ficha
  <2>4. QED
    BY <2>2, <2>3
<1>3. QED
  BY <1>1, <1>2
     DEF IInv, TiposDaRazao, RazaoConsistente, UmaAtiva, CorrecoesFecham,
         SemCorrecao, Reservado

(* The lock of the month is obtained: the rows found missing are its own. *)
LEMMA LerBensIInv ==
  ASSUME CiapAssumption, IInv, NEW p \in Pedidos, LerBens(p)
  PROVE  IInv' /\ razao' = razao
<1>1. PICK c \in Competencias :
        /\ trava[c] = "livre"
        /\ trava' = [trava EXCEPT ![c] = "presa"]
        /\ pedido' = [pedido EXCEPT ![p].passo = "lido", ![p].mes = c,
                                   ![p].lidos = [b \in Bens |->
                                     IF b \in Apropriaveis(c) THEN bem[b] ELSE SemFicha]]
  BY DEF LerBens, Destravada
<1>2. UNCHANGED <<bem, razao, correcoes>>
  BY DEF LerBens
<1>4. c \in Int /\ bem \in [Bens -> Ficha]
  BY DEF IInv, TiposDaRazao, Competencias, CiapAssumption
<1> DEFINE L == [b \in Bens |-> IF b \in Apropriaveis(c) THEN bem[b] ELSE SemFicha]
<1>5. L \in [Bens -> Ficha]
  BY <1>4, FichaVazia
<1>6. \A b \in Bens : L[b] # SemFicha => razao[<<b, c>>] = <<>>
  <2>1. SUFFICES ASSUME NEW b \in Bens, L[b] # SemFicha PROVE razao[<<b, c>>] = <<>>
    OBVIOUS
  <2>2. Ativas(razao[<<b, c>>]) = {}
    BY <2>1 DEF Apropriaveis
  <2>3. <<b, c>> \in Chaves
    BY DEF Chaves
  <2>4. razao[<<b, c>>] \in Seq(Registro)
    BY <2>3 DEF IInv, TiposDaRazao
  <2>5. razao[<<b, c>>] # <<>> => Ativas(razao[<<b, c>>]) = {Len(razao[<<b, c>>])}
    BY <2>3 DEF IInv, RazaoConsistente, UmaAtiva
  <2>6. QED
    BY <2>2, <2>5
<1> HIDE DEF L
<1> DEFINE r == [pedido[p] EXCEPT !.passo = "lido", !.mes = c, !.lidos = L]
<1>7. r \in Requisicao /\ r.passo = "lido" /\ r.mes = c /\ r.lidos = L
  <2>1. pedido[p] \in Requisicao
    BY DEF IInv, TiposDaRazao
  <2>2. QED
    BY <1>4, <1>5, <2>1 DEF Requisicao
<1>8. pedido' = [pedido EXCEPT ![p] = r]
  BY <1>1 DEF IInv, TiposDaRazao, L
<1> HIDE DEF r
<1>9. /\ pedido' \in [Pedidos -> Requisicao] /\ pedido'[p] = r
      /\ \A q \in Pedidos \ {p} : Mantida(q)
  BY <1>7, <1>8, NovaRequisicao DEF IInv, TiposDaRazao
<1>10. TiposDaRazao'
  BY <1>1, <1>2, <1>9 DEF IInv, TiposDaRazao
<1>11. \A q \in Pedidos : Reservado(q)'
  <2>1. pedido'[p].passo \in ComTrava /\ pedido'[p].mes = c /\ pedido'[p].lidos = L
    BY <1>7, <1>9 DEF ComTrava
  <2>2. TiposDaRazao /\ \A q \in Pedidos : Reservado(q)
    BY DEF IInv
  <2>3. QED
    BY <1>1, <1>2, <1>6, <1>9, <2>1, <2>2, TravaObtida
<1>12. QED
  BY <1>2, <1>10, <1>11
     DEF IInv, RazaoConsistente, UmaAtiva, CorrecoesFecham, SemCorrecao

(* The record of a request whose DELETE is done. *)
LEMMA RequisicaoApagada ==
  ASSUME NEW p \in Pedidos, pedido[p] \in Requisicao, NEW c \in Int,
         NEW x \in {"apropriar", "corrigir", "contexto"}
  PROVE  /\ Apagado(p, x, c) \in Requisicao
         /\ Apagado(p, x, c).passo = x /\ Apagado(p, x, c).mes = c
         /\ Apagado(p, x, c).lidos = pedido[p].lidos
         /\ Apagado(p, x, c).vistos = Donos(c)
<1>1. Donos(c) \in SUBSET Pedidos
  BY DEF Donos
<1>2. ASSUME NEW a \in Requisicao, NEW v \in SUBSET Pedidos
      PROVE  /\ [a EXCEPT !.passo = x, !.mes = c, !.vistos = v] \in Requisicao
             /\ [a EXCEPT !.passo = x, !.mes = c, !.vistos = v].passo = x
             /\ [a EXCEPT !.passo = x, !.mes = c, !.vistos = v].mes = c
             /\ [a EXCEPT !.passo = x, !.mes = c, !.vistos = v].lidos = a.lidos
             /\ [a EXCEPT !.passo = x, !.mes = c, !.vistos = v].vistos = v
  BY DEF Requisicao
<1>3. QED
  BY <1>1, <1>2 DEF Apagado

(* The DELETE of an appropriation: its reservation stands. *)
LEMMA ApagarE111IInv ==
  ASSUME CiapAssumption, IInv, NEW p \in Pedidos, ApagarE111(p)
  PROVE  IInv' /\ razao' = razao
<1> DEFINE r == Apagado(p, "apropriar", pedido[p].mes)
<1>1. /\ pedido[p].passo = "lido"
      /\ pedido' = [pedido EXCEPT ![p] = r]
      /\ UNCHANGED <<bem, razao, correcoes, trava>>
  BY DEF ApagarE111
<1>2. /\ r \in Requisicao /\ r.passo = "apropriar"
      /\ r.mes = pedido[p].mes /\ r.lidos = pedido[p].lidos
  <2>1. pedido[p] \in Requisicao /\ pedido[p].mes \in Int
    BY DEF IInv, TiposDaRazao, Requisicao
  <2>2. QED
    BY <2>1, RequisicaoApagada
<1> HIDE DEF r
<1>3. /\ pedido' \in [Pedidos -> Requisicao] /\ pedido'[p] = r
      /\ \A q \in Pedidos \ {p} : Mantida(q)
  BY <1>1, <1>2, NovaRequisicao DEF IInv, TiposDaRazao
<1>4. \A q \in Pedidos : Reservado(q)
  BY DEF IInv
<1>5. /\ pedido[p].mes \in Competencias /\ trava[pedido[p].mes] = "presa"
      /\ \A q \in Pedidos \ {p} :
           pedido[q].passo \in ComTrava => pedido[q].mes # pedido[p].mes
      /\ \A b \in Bens : pedido[p].lidos[b] # SemFicha =>
                           razao[<<b, pedido[p].mes>>] = <<>>
  BY <1>1, <1>4 DEF Reservado, ComTrava
<1>6. \A q \in Pedidos \ {p} : Reservado(q)'
  BY <1>1, <1>2, <1>3, <1>4, <1>5, OutrosReservados
<1>7. Reservado(p)'
  <2>1. \A q \in Pedidos \ {p} :
          pedido'[q].passo \in ComTrava => pedido'[q].mes # pedido[p].mes
    BY <1>3, <1>5 DEF Mantida
  <2>2. QED
    BY <1>1, <1>2, <1>3, <1>5, <2>1 DEF Reservado
<1>8. QED
  BY <1>1, <1>3, <1>6, <1>7
     DEF IInv, TiposDaRazao, RazaoConsistente, UmaAtiva, CorrecoesFecham, SemCorrecao

(* The lock of the month is obtained by a correction. *)
LEMMA ApagarParaCorrigirIInv ==
  ASSUME CiapAssumption, IInv, NEW p \in Pedidos, ApagarParaCorrigir(p)
  PROVE  IInv' /\ razao' = razao
<1>1. PICK c \in Competencias :
        /\ trava[c] = "livre"
        /\ trava' = [trava EXCEPT ![c] = "presa"]
        /\ pedido' = [pedido EXCEPT ![p] = Apagado(p, "corrigir", c)]
  BY DEF ApagarParaCorrigir, Destravada
<1>2. UNCHANGED <<bem, razao, correcoes>>
  BY DEF ApagarParaCorrigir
<1> DEFINE r == Apagado(p, "corrigir", c)
<1>3. r \in Requisicao /\ r.passo = "corrigir" /\ r.mes = c
  <2>1. pedido[p] \in Requisicao /\ c \in Int
    BY DEF IInv, TiposDaRazao, Competencias, CiapAssumption
  <2>2. QED
    BY <2>1, RequisicaoApagada
<1> HIDE DEF r
<1>4. /\ pedido' \in [Pedidos -> Requisicao] /\ pedido'[p] = r
      /\ \A q \in Pedidos \ {p} : Mantida(q)
  <2>1. pedido' = [pedido EXCEPT ![p] = r]
    BY <1>1 DEF r
  <2>2. QED
    BY <1>3, <2>1, NovaRequisicao DEF IInv, TiposDaRazao
<1>5. TiposDaRazao'
  BY <1>1, <1>2, <1>4 DEF IInv, TiposDaRazao
<1>6. \A q \in Pedidos : Reservado(q)'
  <2>1. /\ pedido'[p].passo \in ComTrava /\ pedido'[p].mes = c
        /\ pedido'[p].passo = "corrigir"
    BY <1>3, <1>4 DEF ComTrava
  <2>2. TiposDaRazao /\ \A q \in Pedidos : Reservado(q)
    BY DEF IInv
  <2>3. QED
    BY <1>1, <1>2, <1>4, <2>1, <2>2, TravaObtida
<1>7. QED
  BY <1>2, <1>5, <1>6
     DEF IInv, RazaoConsistente, UmaAtiva, CorrecoesFecham, SemCorrecao

(* The appropriation writes and lets the lock go. *)
LEMMA ApropriarIInv ==
  ASSUME CiapAssumption, IInv, NEW p \in Pedidos, NEW coef \in Coeficientes,
         Apropriar(p, coef)
  PROVE  IInv' /\ \A k \in Chaves : razao'[k] = razao[k] \/ razao[k] = <<>>
<1> DEFINE c == pedido[p].mes
           f == pedido[p].lidos
           novos == {b \in Bens : f[b] # SemFicha}
           nova(b) == [versao |-> 1, ativa |-> TRUE, passivel |-> ParcelaPassivel(f[b]),
                       admitida |-> ParcelaAdmitida(ParcelaPassivel(f[b]), coef)]
           r == [k \in Chaves |-> IF k[1] \in novos /\ k[2] = c
                                  THEN Append(razao[k], nova(k[1])) ELSE razao[k]]
<1>1. /\ pedido[p].passo = "apropriar"
      /\ bem' = [b \in Bens |-> IF b \in novos THEN Apropriado(b, f[b], c) ELSE bem[b]]
      /\ razao' = r
      /\ trava' = [trava EXCEPT ![c] = "livre"]
      /\ pedido' = [q \in Pedidos |-> IF q = p THEN Ocioso ELSE Cruzado(q, p)]
      /\ correcoes' = correcoes
  BY DEF Apropriar, Regravar, Gravado
<1>2. /\ c \in Competencias
      /\ \A b \in Bens : f[b] # SemFicha => razao[<<b, c>>] = <<>>
  BY <1>1 DEF IInv, Reservado, ComTrava
<1>3. f \in [Bens -> Ficha] /\ bem \in [Bens -> Ficha] /\ c \in Int
  BY <1>2 DEF IInv, TiposDaRazao, Requisicao, Competencias, CiapAssumption
<1>4. \A b \in Bens : nova(b) \in Registro /\ nova(b).versao = 1 /\ nova(b).ativa = TRUE
  <2>1. SUFFICES ASSUME NEW b \in Bens
                 PROVE  /\ ParcelaPassivel(f[b]) \in Int
                        /\ ParcelaAdmitida(ParcelaPassivel(f[b]), coef) \in Int
    BY DEF Registro
  <2>2. f[b].base \in Int /\ Parcelas \in Nat \ {0} /\ Escala \in Nat \ {0} /\ coef \in Int
    <3>1. f[b] \in Ficha
      BY <1>3
    <3>2. f[b].base \in Int
      BY <3>1 DEF Ficha
    <3>3. Parcelas \in Nat \ {0} /\ Escala \in Nat \ {0} /\ coef \in 0 .. Escala
      BY DEF CiapAssumption
    <3>4. QED
      BY <3>2, <3>3
  <2>3. ParcelaPassivel(f[b]) \in Int
    BY <2>2 DEF ParcelaPassivel
  <2>4. QED
    BY <2>2, <2>3 DEF ParcelaAdmitida
<1> HIDE DEF nova
<1>5. ASSUME NEW k \in Chaves
      PROVE  \/ r[k] = razao[k]
             \/ /\ razao[k] = <<>> /\ Boa(r[k]) /\ r[k] \in Seq(Registro) /\ r[k] # <<>>
                /\ r[k][Len(r[k])] = r[k][1] /\ k[1] \in Bens /\ k[2] = c
  <2>1. k = <<k[1], k[2]>> /\ k[1] \in Bens
    BY DEF Chaves
  <2>2. CASE k[1] \in novos /\ k[2] = c
    <3>1. razao[k] = <<>>
      BY <1>2, <2>1, <2>2
    <3>2. r[k] = Append(<<>>, nova(k[1]))
      BY <2>2, <3>1
    <3>3. QED
      BY <1>4, <2>1, <2>2, <3>1, <3>2, PrimeiraVersao
  <2>3. CASE ~(k[1] \in novos /\ k[2] = c)
    BY <2>3
  <2>4. QED
    BY <2>2, <2>3
<1>6. \A k \in Chaves : k[2] # c => r[k] = razao[k]
  OBVIOUS
<1>7. r \in [Chaves -> Seq(Registro)]
  BY <1>5 DEF IInv, TiposDaRazao
<1> HIDE DEF r
<1>8. bem' \in [Bens -> Ficha]
  <2>1. ASSUME NEW b \in Bens PROVE Apropriado(b, f[b], c) \in Ficha
    <3>1. f[b] \in Ficha /\ bem[b] \in Ficha /\ Parcelas \in Nat \ {0}
      BY <1>3 DEF CiapAssumption
    <3>2. NumeroParcela(f[b], c) \in Int
      BY <1>3, <3>1 DEF NumeroParcela, Ficha
    <3>3. Positivo(f[b].saldo - ParcelaPassivel(f[b])) \in Int
      BY <3>1 DEF Positivo, ParcelaPassivel, Ficha
    <3>4. QED
      BY <3>1, <3>2, <3>3 DEF Apropriado, Ficha
  <2>2. QED
    BY <1>1, <1>3, <2>1
<1>9. /\ pedido' \in [Pedidos -> Requisicao] /\ pedido'[p] = Ocioso
      /\ \A q \in Pedidos \ {p} : Mantida(q)
  BY <1>1, RequisicoesGravadas DEF IInv, TiposDaRazao
<1>10. TiposDaRazao'
  BY <1>1, <1>7, <1>8, <1>9 DEF IInv, TiposDaRazao
<1>11. \A q \in Pedidos : Reservado(q)'
  <2>1. TiposDaRazao /\ (\A q \in Pedidos : Reservado(q)) /\ pedido[p].passo \in ComTrava
    BY <1>1 DEF IInv, ComTrava
  <2>2. QED
    BY <1>1, <1>6, <1>9, <2>1, TravaLiberada
<1>12. UmaAtiva'
  <2>1. \A k \in Chaves : Boa(razao'[k])
    BY <1>1, <1>5, BoaEmCadaChave DEF IInv, RazaoConsistente
  <2>2. QED
    BY <2>1 DEF UmaAtiva, Boa
<1>13. CorrecoesFecham' /\ SemCorrecao'
  <2>1. SUFFICES ASSUME NEW k \in Chaves
                 PROVE  /\ razao'[k] # <<>> =>
                             razao'[k][Len(razao'[k])].admitida
                               = razao'[k][1].admitida + correcoes[k]
                        /\ razao'[k] = <<>> => correcoes[k] = 0
    BY <1>1 DEF CorrecoesFecham, SemCorrecao
  <2>2. CASE razao'[k] = razao[k]
    BY <2>2 DEF IInv, RazaoConsistente, CorrecoesFecham, SemCorrecao
  <2>3. CASE razao'[k] # razao[k]
    <3>1. /\ razao[k] = <<>> /\ razao'[k] # <<>> /\ razao'[k] \in Seq(Registro)
          /\ razao'[k][Len(razao'[k])] = razao'[k][1]
      BY <1>1, <1>5, <2>3
    <3>2. correcoes[k] = 0
      BY <3>1 DEF IInv, SemCorrecao
    <3>3. razao'[k][1].admitida \in Int
      <4>1. 1 \in DOMAIN razao'[k] /\ razao'[k][1] \in Registro
        BY <3>1
      <4>2. QED
        BY <4>1 DEF Registro
    <3>4. QED
      BY <3>1, <3>2, <3>3
  <2>4. QED
    BY <2>2, <2>3
<1>14. QED
  BY <1>1, <1>5, <1>10, <1>11, <1>12, <1>13 DEF IInv, RazaoConsistente

(* The transaction that fails lets its lock go and leaves nothing. *)
LEMMA FalharIInv ==
  ASSUME CiapAssumption, IInv, NEW p \in Pedidos, Falhar(p)
  PROVE  IInv' /\ razao' = razao
<1>1. /\ pedido' = [pedido EXCEPT ![p] = Ocioso]
      /\ trava' = IF pedido[p].passo \in ComTrava
                  THEN [trava EXCEPT ![pedido[p].mes] = "livre"] ELSE trava
      /\ UNCHANGED <<bem, razao, correcoes>>
  BY DEF Falhar
<1>2. /\ pedido' \in [Pedidos -> Requisicao] /\ pedido'[p] = Ocioso
      /\ \A q \in Pedidos \ {p} : Mantida(q)
  BY <1>1, FichaVazia, NovaRequisicao DEF IInv, TiposDaRazao
<1>3. TiposDaRazao'
  BY <1>1, <1>2 DEF IInv, TiposDaRazao
<1>4. TiposDaRazao /\ \A q \in Pedidos : Reservado(q)
  BY DEF IInv
<1>5. \A q \in Pedidos : Reservado(q)'
  <2>1. CASE pedido[p].passo \in ComTrava
    BY <1>1, <1>2, <1>4, <2>1, TravaLiberada
  <2>2. CASE pedido[p].passo \notin ComTrava
    <3>1. pedido'[p].passo \notin ComTrava
      BY <1>2, FichaVazia DEF ComTrava
    <3>2. \A q \in Pedidos \ {p} : Reservado(q)'
      BY <1>1, <1>2, <1>4, <2>2, <3>1, OutrosReservados
    <3>3. QED
      BY <3>1, <3>2 DEF Reservado
  <2>3. QED
    BY <2>1, <2>2
<1>6. QED
  BY <1>1, <1>3, <1>5
     DEF IInv, RazaoConsistente, UmaAtiva, CorrecoesFecham, SemCorrecao

(* A save of the context deletes and writes adjustments, not the ledger,   *)
(* and takes no lock. *)
LEMMA ContextoIInv ==
  ASSUME CiapAssumption, IInv, NEW p \in Pedidos,
         ApagarAjustes(p) \/ AtualizarContexto(p)
  PROVE  IInv' /\ razao' = razao
<1>1. UNCHANGED <<bem, razao, correcoes, trava>>
  BY DEF ApagarAjustes, AtualizarContexto
<1>2. /\ pedido' \in [Pedidos -> Requisicao] /\ pedido'[p].passo \notin ComTrava
      /\ \A q \in Pedidos \ {p} : Mantida(q)
  <2>1. CASE AtualizarContexto(p)
    <3>1. pedido' = [q \in Pedidos |-> IF q = p THEN Ocioso ELSE Cruzado(q, p)]
      BY <2>1 DEF AtualizarContexto, Gravado
    <3>2. QED
      BY <3>1, RequisicoesGravadas, FichaVazia DEF IInv, TiposDaRazao, ComTrava
  <2>2. CASE ApagarAjustes(p)
    <3>1. PICK c \in Competencias :
            pedido' = [pedido EXCEPT ![p] = Apagado(p, "contexto", c)]
      BY <2>2 DEF ApagarAjustes
    <3>2. pedido[p] \in Requisicao /\ c \in Int
      BY DEF IInv, TiposDaRazao, Competencias, CiapAssumption
    <3>3. Apagado(p, "contexto", c) \in Requisicao
          /\ Apagado(p, "contexto", c).passo = "contexto"
      BY <3>2, RequisicaoApagada
    <3>4. QED
      BY <3>1, <3>3, NovaRequisicao DEF IInv, TiposDaRazao, ComTrava
  <2>3. QED
    BY <2>1, <2>2
<1>3. \A q \in Pedidos : Reservado(q)'
  <2>1. \A q \in Pedidos : Reservado(q)
    BY DEF IInv
  <2>2. \A q \in Pedidos \ {p} : Reservado(q)'
    BY <1>1, <1>2, <2>1, OutrosReservados
  <2>3. QED
    BY <1>2, <2>2 DEF Reservado
<1>4. QED
  BY <1>1, <1>2, <1>3
     DEF IInv, TiposDaRazao, RazaoConsistente, UmaAtiva, CorrecoesFecham, SemCorrecao

-----------------------------------------------------------------------------
RazaoCresce ==
  \A k \in Chaves :
    /\ Len(razao[k]) <= Len(razao'[k])
    /\ \A i \in DOMAIN razao[k] :
         razao'[k][i] \in {razao[k][i], [razao[k][i] EXCEPT !.ativa = FALSE]}

LEMMA RazaoIgual ==
  ASSUME IInv, \A k \in Chaves : razao'[k] = razao[k] \/ razao[k] = <<>>, IInv'
  PROVE  RazaoCresce
<1>1. SUFFICES ASSUME NEW k \in Chaves
               PROVE  /\ Len(razao[k]) <= Len(razao'[k])
                      /\ \A i \in DOMAIN razao[k] : razao'[k][i] = razao[k][i]
  BY DEF RazaoCresce
<1>2. razao[k] \in Seq(Registro) /\ razao'[k] \in Seq(Registro)
  BY DEF IInv, TiposDaRazao
<1>3. CASE razao'[k] = razao[k]
  BY <1>2, <1>3
<1>4. CASE razao[k] = <<>>
  BY <1>2, <1>4
<1>5. QED
  BY <1>3, <1>4

(* What a correction of version i of the row k writes. *)
Correcao(p, k, i, coef) ==
  LET atual == razao[k][i]
      admitida == ParcelaAdmitida(atual.passivel, coef)
      r == [razao EXCEPT ![k] =
              Corrigida(@, i, [atual EXCEPT !.versao = @ + 1, !.admitida = admitida])]
  IN  /\ k[2] = pedido[p].mes
      /\ razao' = r
      /\ correcoes' = [correcoes EXCEPT ![k] = @ + Delta(admitida, atual)]
      /\ Regravar(p, r)

LEMMA LinhaCorrigida ==
  ASSUME IInv, NEW p \in Pedidos, Corrigir(p)
  PROVE  \E k \in Chaves : \E i \in Ativas(razao[k]), coef \in Coeficientes :
           Correcao(p, k, i, coef)
<1>1. pedido[p].mes \in Competencias
  BY DEF Corrigir, IInv, Reservado, ComTrava
<1>2. PICK b \in Corrigiveis(pedido[p].mes), i \in 1 .. MaxVersao, coef \in Coeficientes :
        LET k == <<b, pedido[p].mes>>
            atual == razao[k][i]
            admitida == ParcelaAdmitida(atual.passivel, coef)
            r == [razao EXCEPT ![k] =
                  Corrigida(@, i, [atual EXCEPT !.versao = @ + 1, !.admitida = admitida])]
        IN  /\ i \in Ativas(razao[k])
            /\ razao' = r
            /\ correcoes' = [correcoes EXCEPT ![k] = @ + Delta(admitida, atual)]
            /\ Regravar(p, r)
  BY DEF Corrigir
<1> DEFINE k == <<b, pedido[p].mes>>
<1>3. k \in Chaves /\ k[2] = pedido[p].mes
  BY <1>1 DEF Corrigiveis, Chaves
<1>4. i \in Ativas(razao[k]) /\ Correcao(p, k, i, coef)
  BY <1>2, <1>3 DEF Correcao
<1> HIDE DEF k
<1>5. QED
  BY <1>3, <1>4

(* A correction: the row it changes is not one an appropriation reserved,  *)
(* for the lock of the month is its own. *)
LEMMA CorrigirIInv ==
  ASSUME CiapAssumption, IInv, NEW p \in Pedidos, Corrigir(p)
  PROVE  IInv' /\ RazaoCresce
<1>1. PICK k \in Chaves : \E j \in Ativas(razao[k]), coef \in Coeficientes :
        Correcao(p, k, j, coef)
  BY LinhaCorrigida
<1>0. PICK i \in Ativas(razao[k]), coef \in Coeficientes : Correcao(p, k, i, coef)
  BY <1>1
<1> DEFINE s == razao[k]
           atual == s[i]
           admitida == ParcelaAdmitida(atual.passivel, coef)
           n == [atual EXCEPT !.versao = @ + 1, !.admitida = admitida]
           t == Corrigida(s, i, n)
<1>2. s \in Seq(Registro) /\ Boa(s) /\ razao \in [Chaves -> Seq(Registro)]
  BY BoaEmCadaChave DEF IInv, TiposDaRazao, RazaoConsistente
<1>3. i \in DOMAIN s /\ atual.ativa = TRUE /\ atual \in Registro
  <2>1. i \in DOMAIN s /\ atual.ativa
    BY DEF Ativas
  <2>2. atual \in Registro
    BY <1>2, <2>1
  <2>3. QED
    BY <2>1, <2>2 DEF Registro
<1>4. admitida \in Int
  <2>1. atual.passivel \in Int /\ coef \in Int /\ Escala \in Nat \ {0}
    BY <1>3 DEF Registro, CiapAssumption
  <2>2. QED
    BY <2>1 DEF ParcelaAdmitida
<1>5. /\ n \in Registro /\ n.versao = atual.versao + 1 /\ n.ativa = TRUE
      /\ n.admitida = admitida
  <2>1. ASSUME NEW a \in Registro, NEW d \in Int, a.ativa = TRUE
        PROVE  /\ [a EXCEPT !.versao = @ + 1, !.admitida = d] \in Registro
               /\ [a EXCEPT !.versao = @ + 1, !.admitida = d].versao = a.versao + 1
               /\ [a EXCEPT !.versao = @ + 1, !.admitida = d].ativa = TRUE
               /\ [a EXCEPT !.versao = @ + 1, !.admitida = d].admitida = d
    <3>1. PICK v \in Nat : v = a.versao + 1
      BY <2>1 DEF Registro
    <3>2. /\ [a EXCEPT !.versao = v, !.admitida = d] \in Registro
          /\ [a EXCEPT !.versao = v, !.admitida = d].versao = v
          /\ [a EXCEPT !.versao = v, !.admitida = d].ativa = TRUE
          /\ [a EXCEPT !.versao = v, !.admitida = d].admitida = d
      BY <2>1 DEF Registro
    <3>3. QED
      BY <3>1, <3>2
  <2> HIDE DEF atual, admitida
  <2>2. QED
    BY <1>3, <1>4, <2>1
<1> HIDE DEF n
<1>6. /\ i = Len(s) /\ s # <<>>
      /\ t \in Seq(Registro) /\ Len(t) = Len(s) + 1 /\ t # <<>> /\ Boa(t)
      /\ \A j \in DOMAIN s : t[j] \in {s[j], Desativada(s[j])}
      /\ n = t[Len(t)]
  <2>1. i \in Ativas(s) /\ n.versao = s[i].versao + 1
    BY <1>5
  <2> HIDE DEF s, atual, t
  <2>2. t = Corrigida(s, i, n)
    BY DEF t
  <2>3. s \in Seq(Registro) /\ Boa(s) /\ n \in Registro /\ n.ativa = TRUE
    BY <1>2, <1>5
  <2>4. /\ i = Len(s) /\ s # <<>>
        /\ t \in Seq(Registro) /\ Len(t) = Len(s) + 1 /\ t # <<>> /\ Boa(t)
        /\ \A j \in DOMAIN s : t[j] \in {s[j], Desativada(s[j])}
    BY <2>1, <2>2, <2>3, VersaoSeguinte
  <2>5. n = t[Len(t)]
    BY <1>3, <2>2, <2>3, UltimaVersao
  <2>6. QED
    BY <2>4, <2>5
<1> HIDE DEF t
<1>7. /\ razao' = [razao EXCEPT ![k] = t]
      /\ correcoes' = [correcoes EXCEPT ![k] = @ + Delta(admitida, atual)]
  BY <1>0 DEF Correcao, t, n
<1>8. /\ razao'[k] = t /\ razao' \in [Chaves -> Seq(Registro)]
      /\ \A j \in Chaves \ {k} : razao'[j] = razao[j] /\ correcoes'[j] = correcoes[j]
  BY <1>2, <1>6, <1>7 DEF IInv, TiposDaRazao
<1>9. /\ correcoes' \in [Chaves -> Int]
      /\ correcoes'[k] = correcoes[k] + (admitida - atual.admitida)
  <2>1. correcoes \in [Chaves -> Int] /\ atual.admitida \in Int
    BY <1>3 DEF IInv, TiposDaRazao, Registro
  <2>2. QED
    BY <1>4, <1>7, <2>1 DEF Delta
<1>10. /\ pedido[p].passo = "corrigir" /\ bem' = bem /\ k[2] = pedido[p].mes
       /\ trava' = [trava EXCEPT ![pedido[p].mes] = "livre"]
       /\ pedido' = [q \in Pedidos |-> IF q = p THEN Ocioso ELSE Cruzado(q, p)]
  BY <1>0 DEF Corrigir, Correcao, Regravar, Gravado
<1>15. /\ pedido' \in [Pedidos -> Requisicao] /\ pedido'[p] = Ocioso
       /\ \A q \in Pedidos \ {p} : Mantida(q)
  BY <1>10, RequisicoesGravadas DEF IInv, TiposDaRazao
<1>16. TiposDaRazao' /\ SemCorrecao'
  BY <1>6, <1>8, <1>9, <1>10, <1>15 DEF IInv, TiposDaRazao, SemCorrecao
<1>11. UmaAtiva'
  <2>1. \A j \in Chaves : Boa(razao'[j])
    BY <1>6, <1>8, BoaEmCadaChave DEF IInv, RazaoConsistente
  <2>2. QED
    BY <2>1 DEF UmaAtiva, Boa
<1>12. CorrecoesFecham'
  <2>1. s[Len(s)].admitida = s[1].admitida + correcoes[k]
    BY <1>6 DEF IInv, RazaoConsistente, CorrecoesFecham
  <2>2. 1 \in DOMAIN s /\ s[1] \in Registro
    BY <1>2, <1>6
  <2>3. t[1].admitida = s[1].admitida /\ s[1].admitida \in Int
    BY <1>6, <2>2 DEF Registro, Desativada
  <2>4. correcoes[k] \in Int /\ atual.admitida \in Int
    BY <1>3 DEF IInv, TiposDaRazao, Registro
  <2>5. t[Len(t)].admitida = t[1].admitida + correcoes'[k]
    BY <1>4, <1>5, <1>6, <1>9, <2>1, <2>3, <2>4
  <2>6. QED
    BY <1>8, <2>5 DEF IInv, RazaoConsistente, CorrecoesFecham
<1>13. \A q \in Pedidos : Reservado(q)'
  <2>1. TiposDaRazao /\ (\A q \in Pedidos : Reservado(q)) /\ pedido[p].passo \in ComTrava
    BY <1>10 DEF IInv, ComTrava
  <2>2. \A j \in Chaves : j[2] # pedido[p].mes => razao'[j] = razao[j]
    BY <1>8, <1>10
  <2>3. QED
    BY <1>10, <1>15, <2>1, <2>2, TravaLiberada
<1>14. RazaoCresce
  <2>1. SUFFICES ASSUME NEW j \in Chaves
        PROVE  /\ Len(razao[j]) <= Len(razao'[j])
               /\ \A m \in DOMAIN razao[j] :
                    razao'[j][m] \in {razao[j][m], [razao[j][m] EXCEPT !.ativa = FALSE]}
    BY DEF RazaoCresce
  <2>2. razao[j] \in Seq(Registro)
    BY DEF IInv, TiposDaRazao
  <2>3. CASE j = k
    BY <1>6, <1>8, <2>2, <2>3 DEF Desativada
  <2>4. CASE j # k
    BY <1>8, <2>2, <2>4
  <2>5. QED
    BY <2>3, <2>4
<1>17. QED
  BY <1>11, <1>12, <1>13, <1>14, <1>16 DEF IInv, RazaoConsistente

LEMMA PassoIInv ==
  ASSUME CiapAssumption, IInv, [Next]_vars
  PROVE  IInv' /\ RazaoCresce
<1>1. ASSUME NEW b \in Bens, RegistrarBem(b) \/ BaixarBem(b)
      PROVE  IInv' /\ RazaoCresce
  BY <1>1, CadastroIInv, RazaoIgual
<1>2. ASSUME NEW p \in Pedidos, Corrigir(p)
      PROVE  IInv' /\ RazaoCresce
  BY <1>2, CorrigirIInv
<1>3. ASSUME NEW p \in Pedidos, NEW coef \in Coeficientes, Apropriar(p, coef)
      PROVE  IInv' /\ RazaoCresce
  BY <1>3, ApropriarIInv, RazaoIgual
<1>4. ASSUME NEW p \in Pedidos,
             \/ LerBens(p) \/ ApagarE111(p) \/ ApagarParaCorrigir(p)
             \/ Falhar(p) \/ ApagarAjustes(p) \/ AtualizarContexto(p)
      PROVE  IInv' /\ RazaoCresce
  BY <1>4, LerBensIInv, ApagarE111IInv, ApagarParaCorrigirIInv, FalharIInv, ContextoIInv,
     RazaoIgual
<1>5. CASE UNCHANGED vars
  <2>1. IInv' /\ razao' = razao
    BY <1>5 DEF vars, IInv, TiposDaRazao, RazaoConsistente, UmaAtiva,
               CorrecoesFecham, SemCorrecao, Reservado
  <2>2. QED
    BY <2>1, RazaoIgual
<1>6. QED
  BY <1>1, <1>2, <1>3, <1>4, <1>5 DEF Next

(* The ledger stays consistent: one active version of an instalment, the   *)
(* last, versions without gap, and corrections that explain it.            *)
THEOREM RazaoSempreConsistente ==
  ASSUME CiapAssumption PROVE Spec => []RazaoConsistente
<1>1. IInv /\ [Next]_vars => IInv'
  BY PassoIInv
<1>2. IInv => RazaoConsistente
  BY DEF IInv
<1>3. QED
  BY InicioIInv, <1>1, <1>2, PTL DEF Spec

(* No appropriation, correction, disposal or edition of the context ever   *)
(* deletes or changes a row of the ledger, deactivation apart.             *)
THEOREM RazaoHistorica ==
  ASSUME CiapAssumption PROVE Spec => RazaoSoCresce
<1>1. IInv /\ [Next]_vars => IInv'
  BY PassoIInv
<1>2. IInv /\ [Next]_vars => [RazaoCresce]_vars
  BY PassoIInv
<1>3. [][RazaoCresce]_vars <=> RazaoSoCresce
  BY DEF RazaoCresce, RazaoSoCresce
<1>4. QED
  BY InicioIInv, <1>1, <1>2, <1>3, PTL DEF Spec

-----------------------------------------------------------------------------
(* What the active rows of a month add up to. The fold of the library is   *)
(* the CHOOSE of a function that is equal to one pass over itself; that    *)
(* there is one, and that it is natural, is by the least counterexample on *)
(* the number of rows. *)

(* A set of natural numbers has a least element. *)
LEMMA MenorNumero ==
  ASSUME NEW S, S \subseteq Nat, S # {}
  PROVE  \E n \in S : \A m \in S : n <= m
<1> DEFINE R == OpToRel(<, Nat)
<1>1. IsWellFoundedOn(R, Nat)
  BY NatLessThanWellFounded
<1>2. R = {x \in Nat \X Nat : x[1] < x[2]}
  BY DEF OpToRel
<1> HIDE DEF R
<1>3. PICK n \in S : \A m \in S : ~(<<m, n>> \in R)
  BY <1>1, WFMin
<1>4. ASSUME NEW m \in S PROVE n <= m
  <2>1. m \in Nat /\ n \in Nat /\ ~(<<m, n>> \in R)
    BY <1>3
  <2>2. <<m, n>> \in Nat \X Nat
    BY <2>1
  <2>3. m < n => <<m, n>> \in R
    BY <1>2, <2>1, <2>2
  <2> QED
    BY <2>1, <2>3
<1> QED
  BY <1>4

(* The fold sums the rows in the order CHOOSE takes them: the values of    *)
(* its recursive function, one subset of rows at a time. *)
Escolha(s) == CHOOSE x \in s : TRUE

Passada(m, T, g) ==
  [s \in SUBSET T |->
     IF s = {} THEN 0
     ELSE m[Escolha(s)[1]][Escolha(s)[2]].admitida + g[s \ {Escolha(s)}]]

LEMMA SomaPelaEscolha ==
  ASSUME NEW m
  PROVE  SomaAtiva(m) = (CHOOSE g : g = Passada(m, LinhasAtivas(m), g))[LinhasAtivas(m)]
BY DEF SomaAtiva, MapThenSumSet, MapThenFoldSet, Passada, Escolha

(* One row fewer. *)
LEMMA UmaAMenos ==
  ASSUME NEW s, IsFiniteSet(s), s # {}
  PROVE  /\ Escolha(s) \in s /\ IsFiniteSet(s \ {Escolha(s)})
         /\ Cardinality(s) \in Nat \ {0}
         /\ Cardinality(s \ {Escolha(s)}) = Cardinality(s) - 1
<1>1. Escolha(s) \in s
  BY DEF Escolha
<1>2. Cardinality(s) \in Nat /\ Cardinality(s) # 0
  BY FS_CardinalityType, FS_EmptySet
<1> QED
  BY <1>1, <1>2, FS_RemoveElement

(* A function that sums every subset of up to n rows. *)
SomaAte(m, T, n, g) ==
  /\ g \in [SUBSET T -> Nat]
  /\ \A s \in SUBSET T : Cardinality(s) <= n => g[s] = Passada(m, T, g)[s]

(* A function that sums every subset of the rows exists. *)
LEMMA HaSoma ==
  ASSUME NEW m, NEW T, IsFiniteSet(T), \A x \in T : m[x[1]][x[2]].admitida \in Nat
  PROVE  \E g : g = Passada(m, T, g)
<1>1. \A s \in SUBSET T : /\ IsFiniteSet(s) /\ Cardinality(s) \in Nat
                          /\ Cardinality(s) <= Cardinality(T)
  BY FS_Subset, FS_CardinalityType
<1> DEFINE Faltam == {n \in Nat : ~ \E g : SomaAte(m, T, n, g)}
<1>2. Faltam = {}
  <2> SUFFICES ASSUME Faltam # {} PROVE FALSE
    OBVIOUS
  <2>1. PICK n \in Faltam : \A k \in Faltam : n <= k
    BY MenorNumero
  <2>2. n # 0
    <3> DEFINE g == [s \in SUBSET T |-> 0]
    <3>1. ASSUME NEW s \in SUBSET T, Cardinality(s) <= 0 PROVE s = {}
      <4>1. IsFiniteSet(s) /\ Cardinality(s) = 0
        BY <1>1, <3>1
      <4> QED
        BY <4>1, FS_EmptySet
    <3>2. SomaAte(m, T, 0, g)
      BY <3>1 DEF SomaAte, Passada
    <3> HIDE DEF g
    <3> QED
      BY <2>1, <3>2
  <2>3. n - 1 \in Nat /\ n - 1 \notin Faltam /\ n \in Nat
    BY <2>1, <2>2
  <2>4. PICK g : SomaAte(m, T, n - 1, g)
    BY <2>3
  <2> DEFINE h == [s \in SUBSET T |->
                     IF Cardinality(s) <= n - 1 THEN g[s] ELSE Passada(m, T, g)[s]]
  <2>5. ASSUME NEW s \in SUBSET T PROVE Passada(m, T, g)[s] \in Nat
    <3>1. CASE s = {}
      BY <3>1 DEF Passada
    <3>2. CASE s # {}
      <4>1. Escolha(s) \in T /\ s \ {Escolha(s)} \in SUBSET T
        BY <1>1, <3>2, UmaAMenos
      <4>2. m[Escolha(s)[1]][Escolha(s)[2]].admitida \in Nat /\ g[s \ {Escolha(s)}] \in Nat
        BY <2>4, <4>1 DEF SomaAte
      <4> QED
        BY <3>2, <4>2 DEF Passada
    <3> QED
      BY <3>1, <3>2
  <2>6. h \in [SUBSET T -> Nat]
    BY <2>4, <2>5 DEF SomaAte
  <2>7. \A s \in SUBSET T : Cardinality(s) <= n => h[s] = Passada(m, T, g)[s]
    BY <2>4 DEF SomaAte
  <2>8. \A s \in SUBSET T : Cardinality(s) <= n - 1 => h[s] = g[s]
    OBVIOUS
  <2> HIDE DEF h
  <2>9. ASSUME NEW s \in SUBSET T, Cardinality(s) <= n
        PROVE  Passada(m, T, h)[s] = Passada(m, T, g)[s]
    <3>1. CASE s = {}
      BY <3>1 DEF Passada
    <3>2. CASE s # {}
      <4>1. s \ {Escolha(s)} \in SUBSET T /\ Cardinality(s \ {Escolha(s)}) <= n - 1
        BY <1>1, <2>3, <2>9, <3>2, UmaAMenos
      <4> QED
        BY <2>8, <3>2, <4>1 DEF Passada
    <3> QED
      BY <3>1, <3>2
  <2>10. SomaAte(m, T, n, h)
    BY <2>6, <2>7, <2>9 DEF SomaAte
  <2> QED
    BY <2>1, <2>10
<1>3. PICK g : SomaAte(m, T, Cardinality(T), g)
  <2>1. Cardinality(T) \in Nat
    BY FS_CardinalityType
  <2> HIDE DEF Faltam
  <2>2. Cardinality(T) \notin Faltam
    BY <1>2
  <2> QED
    BY <2>1, <2>2 DEF Faltam
<1>4. g = Passada(m, T, g)
  <2>1. /\ DOMAIN Passada(m, T, g) = SUBSET T
        /\ Passada(m, T, g) = [s \in SUBSET T |-> Passada(m, T, g)[s]]
    BY DEF Passada
  <2>2. g = [s \in SUBSET T |-> g[s]]
    BY <1>3 DEF SomaAte
  <2>3. \A s \in SUBSET T : g[s] = Passada(m, T, g)[s]
    BY <1>1, <1>3 DEF SomaAte
  <2> QED
    BY <2>1, <2>2, <2>3
<1> QED
  BY <1>4

(* What natural amounts add up to is natural. *)
LEMMA SomaNatural ==
  ASSUME NEW m, IsFiniteSet(LinhasAtivas(m)),
         \A x \in LinhasAtivas(m) : m[x[1]][x[2]].admitida \in Nat
  PROVE  SomaAtiva(m) \in Nat
<1> DEFINE T == LinhasAtivas(m)
           g == CHOOSE g : g = Passada(m, T, g)
<1>1. g = Passada(m, T, g)
  BY HaSoma
<1>2. SomaAtiva(m) = g[T]
  BY SomaPelaEscolha
<1>3. \A s \in SUBSET T : IsFiniteSet(s) /\ Cardinality(s) \in Nat
  BY FS_Subset, FS_CardinalityType
<1> HIDE DEF g
<1> DEFINE Maus == {n \in Nat : \E s \in SUBSET T : Cardinality(s) = n /\ g[s] \notin Nat}
<1>4. Maus = {}
  <2> SUFFICES ASSUME Maus # {} PROVE FALSE
    OBVIOUS
  <2>1. PICK n \in Maus : \A k \in Maus : n <= k
    BY MenorNumero
  <2>2. PICK s \in SUBSET T : Cardinality(s) = n /\ g[s] \notin Nat
    BY <2>1
  <2>3. g[s] = IF s = {} THEN 0
               ELSE m[Escolha(s)[1]][Escolha(s)[2]].admitida + g[s \ {Escolha(s)}]
    <3>1. Passada(m, T, g)[s] =
            IF s = {} THEN 0
            ELSE m[Escolha(s)[1]][Escolha(s)[2]].admitida + g[s \ {Escolha(s)}]
      BY DEF Passada
    <3> QED
      BY <1>1, <3>1
  <2>4. s # {}
    BY <2>2, <2>3
  <2>5. /\ Escolha(s) \in T /\ s \ {Escolha(s)} \in SUBSET T
        /\ Cardinality(s \ {Escolha(s)}) = n - 1 /\ n - 1 \in Nat
    BY <1>3, <2>2, <2>4, UmaAMenos
  <2>6. g[s \ {Escolha(s)}] \in Nat
    <3>1. n - 1 \notin Maus
      BY <2>1, <2>5
    <3> QED
      BY <2>5, <3>1
  <2> QED
    BY <2>2, <2>3, <2>4, <2>5, <2>6
<1>5. Cardinality(T) \in Nat /\ T \in SUBSET T
  BY <1>3
<1> QED
  BY <1>2, <1>4, <1>5

(* Without active rows the sum is zero. *)
LEMMA SomaVazia ==
  ASSUME NEW m, LinhasAtivas(m) = {}
  PROVE  SomaAtiva(m) = 0
<1> DEFINE T == LinhasAtivas(m)
           g == CHOOSE g : g = Passada(m, T, g)
<1>1. g = Passada(m, T, g)
  <2>1. IsFiniteSet(T) /\ \A x \in T : m[x[1]][x[2]].admitida \in Nat
    BY FS_EmptySet
  <2> QED
    BY <2>1, HaSoma
<1>2. SomaAtiva(m) = g[T]
  BY SomaPelaEscolha
<1> HIDE DEF g
<1>3. Passada(m, T, g)[{}] = 0
  BY DEF Passada
<1> QED
  BY <1>1, <1>2, <1>3

(* Finitely many rows are active in a month. *)
LEMMA LinhasFinitas ==
  ASSUME IsFiniteSet(Bens), NEW m \in [Bens -> Seq(Versao)]
  PROVE  IsFiniteSet(LinhasAtivas(m))
<1> DEFINE f == [b \in Bens |-> {<<b, i>> : i \in Ativas(m[b])}]
           S == {f[b] : b \in Bens}
<1>1. IsFiniteSet(S)
  <2>1. f \in Surjection(Bens, S)
    BY DEF Surjection
  <2> QED
    BY <2>1, FS_Surjection
<1>2. ASSUME NEW b \in Bens PROVE IsFiniteSet(f[b])
  <2> DEFINE A == Ativas(m[b])
             h == [i \in A |-> <<b, i>>]
  <2>1. IsFiniteSet(A)
    <3>1. Len(m[b]) \in Nat /\ A \in SUBSET (1 .. Len(m[b]))
      BY DEF Ativas
    <3>2. IsFiniteSet(1 .. Len(m[b]))
      BY <3>1, FS_Interval
    <3> QED
      BY <3>1, <3>2, FS_Subset
  <2>2. f[b] = {<<b, i>> : i \in A}
    OBVIOUS
  <2> HIDE DEF f, A
  <2>3. h \in Surjection(A, {<<b, i>> : i \in A})
    BY DEF Surjection
  <2> QED
    BY <2>1, <2>2, <2>3, FS_Surjection
<1>3. LinhasAtivas(m) = UNION S
  BY DEF LinhasAtivas
<1> HIDE DEF f
<1> QED
  BY <1>1, <1>2, <1>3, FS_UNION

(* The credit of a month is a natural number. *)
LEMMA CreditoNatural ==
  ASSUME CiapAssumption, NEW r \in [Chaves -> Seq(Versao)], NEW c \in Competencias
  PROVE  CreditoDaRazao(r, c) \in Nat
<1> DEFINE m == DoMes(r, c)
<1>1. m \in [Bens -> Seq(Versao)]
  BY DEF DoMes, Chaves
<1>2. ASSUME NEW x \in LinhasAtivas(m) PROVE m[x[1]][x[2]].admitida \in Nat
  <2>0. PICK b \in Bens : \E i \in Ativas(m[b]) : x = <<b, i>>
    BY DEF LinhasAtivas
  <2>1. PICK i \in Ativas(m[b]) : x = <<b, i>>
    BY <2>0
  <2>2. i \in DOMAIN m[b] /\ m[b] \in Seq(Versao)
    BY <1>1 DEF Ativas
  <2>3. m[b][i] \in Versao
    BY <2>2
  <2> HIDE DEF m
  <2> QED
    BY <2>1, <2>3 DEF Versao
<1> HIDE DEF m
<1>3. SomaAtiva(m) \in Nat
  BY <1>1, <1>2, LinhasFinitas, SomaNatural DEF CiapAssumption
<1> QED
  BY <1>3 DEF CreditoDaRazao, m

(* What the provers need of the arithmetic of the instalments. *)
LEMMA Quociente ==
  ASSUME NEW a \in Nat, NEW b \in Nat, NEW n \in Nat \ {0}
  PROVE  a \div n \in Nat /\ a * b \in Nat
OBVIOUS

(* The credit of a month depends on the rows of that month only. *)
LEMMA CreditoDeOutroMes ==
  ASSUME NEW r, NEW s, NEW c, \A b \in Bens : r[<<b, c>>] = s[<<b, c>>]
  PROVE  CreditoDaRazao(r, c) = CreditoDaRazao(s, c)
<1>1. DoMes(r, c) = DoMes(s, c)
  BY DEF DoMes
<1> QED
  BY <1>1 DEF CreditoDaRazao


-----------------------------------------------------------------------------
(* The adjustment of the month, and the types.                             *)

Apropriando == {"lido", "apropriar"}

(* The assets an appropriation read are within the calendar of their       *)
(* instalments in the month it writes. *)
NoCalendario(p) ==
  pedido[p].passo \in Apropriando =>
    \A b \in Bens : pedido[p].lidos[b] # SemFicha =>
      NumeroParcela(pedido[p].lidos[b], pedido[p].mes) \in 1 .. Parcelas

(* The DELETE of a regravação no context has crossed saw every row of the  *)
(* month that is committed now. *)
Visto(p) ==
  pedido[p].passo \in Regravacoes /\ ~pedido[p].cruzado =>
    Donos(pedido[p].mes) \subseteq pedido[p].vistos

AInv == TypeOK /\ E111Confere /\ \A p \in Pedidos : NoCalendario(p) /\ Visto(p)

(* The absent asset and the idle request are of their types. *)
LEMMA SemFichaTipada ==
  CiapAssumption => SemFicha \in Bem /\ Ocioso \in Pedido /\ Ocioso.passo = "ocioso"
<1> SUFFICES ASSUME CiapAssumption
             PROVE  SemFicha \in Bem /\ Ocioso \in Pedido /\ Ocioso.passo = "ocioso"
  OBVIOUS
<1>1. 0 \in 0 .. Meses /\ 0 \in 0 .. Parcelas
  BY DEF CiapAssumption
<1>2. SemFicha \in Bem
  BY <1>1 DEF SemFicha, Bem
<1>3. [b \in Bens |-> SemFicha] \in [Bens -> Bem]
  BY <1>2
<1> QED
  BY <1>1, <1>2, <1>3 DEF Ocioso, Pedido

(* An empty ledger and no adjustments. *)
LEMMA InicioAInv == CiapAssumption /\ Init => AInv
<1> SUFFICES ASSUME CiapAssumption, Init PROVE AInv
  OBVIOUS
<1>1. TypeOK
  <2>1. SemFicha \in Bem /\ Ocioso \in Pedido
    BY SemFichaTipada
  <2> QED
    BY <2>1 DEF Init, TypeOK, SemAjuste
<1>2. E111Confere
  <2>1. SUFFICES ASSUME NEW c \in Competencias
                 PROVE  Conferido(c, CreditoDaRazao(razao, c))
    BY DEF E111Confere
  <2>2. ASSUME NEW b \in Bens PROVE DoMes(razao, c)[b] = <<>>
    BY <2>1 DEF Init, DoMes, Chaves
  <2>3. LinhasAtivas(DoMes(razao, c)) = {}
    BY <2>2 DEF LinhasAtivas, Ativas
  <2>4. CreditoDaRazao(razao, c) = 0
    BY <2>3, SomaVazia DEF CreditoDaRazao
  <2>5. e111[c] = SemAjuste
    BY <2>1 DEF Init
  <2> QED
    BY <2>4, <2>5 DEF Conferido
<1>3. \A p \in Pedidos : pedido[p].passo = "ocioso"
  BY DEF Init, Ocioso
<1> QED
  BY <1>1, <1>2, <1>3 DEF AInv, NoCalendario, Visto, Apropriando, Regravacoes

Remarcado(a, v, x) == [a EXCEPT !.vistos = v, !.cruzado = x]

LEMMA PedidoRemarcado ==
  ASSUME NEW a \in Pedido, NEW v \in SUBSET Pedidos, NEW x \in BOOLEAN
  PROVE  /\ Remarcado(a, v, x) \in Pedido
         /\ Remarcado(a, v, x).passo = a.passo
         /\ Remarcado(a, v, x).mes = a.mes
         /\ Remarcado(a, v, x).lidos = a.lidos
         /\ x => Remarcado(a, v, x).cruzado
BY DEF Pedido, Remarcado

(* What a commit leaves: rows of its month, and requests that keep all but *)
(* what they still delete, and whether a context crossed them. *)
LEMMA CruzadoTipado ==
  ASSUME pedido \in [Pedidos -> Pedido], NEW p \in Pedidos, NEW q \in Pedidos
  PROVE  /\ Cruzado(q, p) \in Pedido
         /\ Cruzado(q, p).passo = pedido[q].passo
         /\ Cruzado(q, p).mes = pedido[q].mes
         /\ Cruzado(q, p).lidos = pedido[q].lidos
         /\ /\ pedido[q].mes = pedido[p].mes
            /\ pedido[p].passo = "contexto" /\ pedido[q].passo \in Regravacoes
            => Cruzado(q, p).cruzado
<1> DEFINE a == pedido[q]
           v == pedido[q].vistos \ pedido[p].vistos
           x == pedido[q].cruzado \/ (/\ pedido[p].passo = "contexto"
                                      /\ pedido[q].passo \in Regravacoes)
           n == Remarcado(a, v, x)
<1>2. a \in Pedido
  OBVIOUS
<1>3. v \in SUBSET Pedidos /\ x \in BOOLEAN
  BY <1>2 DEF Pedido
<1>4. pedido[p].passo = "contexto" /\ pedido[q].passo \in Regravacoes => x
  OBVIOUS
<1>5. Cruzado(q, p) = IF pedido[q].mes # pedido[p].mes THEN a ELSE n
  BY DEF Cruzado, Remarcado
<1> HIDE DEF a, v, x
<1>6. /\ n \in Pedido /\ n.passo = a.passo /\ n.mes = a.mes /\ n.lidos = a.lidos
      /\ x => n.cruzado
  BY <1>2, <1>3, PedidoRemarcado
<1> HIDE DEF n
<1>7. CASE pedido[q].mes # pedido[p].mes
  BY <1>2, <1>5, <1>7 DEF a
<1>8. CASE pedido[q].mes = pedido[p].mes
  <2>1. Cruzado(q, p) = n
    BY <1>5, <1>8
  <2> QED
    BY <1>4, <1>6, <2>1 DEF a
<1> QED
  BY <1>7, <1>8

LEMMA PedidosGravados ==
  ASSUME CiapAssumption, TypeOK, NEW p \in Pedidos, NEW linhas, Gravado(p, linhas)
  PROVE  /\ pedido' \in [Pedidos -> Pedido] /\ pedido'[p] = Ocioso
         /\ \A q \in Pedidos \ {p} :
              /\ Mantida(q)
              /\ pedido[q].mes # pedido[p].mes => pedido'[q] = pedido[q]
              /\ /\ pedido[q].mes = pedido[p].mes
                 /\ pedido[p].passo = "contexto" /\ pedido[q].passo \in Regravacoes
                 => pedido'[q].cruzado
<1>1. pedido' = [q \in Pedidos |-> IF q = p THEN Ocioso ELSE Cruzado(q, p)]
  BY DEF Gravado
<1>2. pedido \in [Pedidos -> Pedido]
  BY DEF TypeOK
<1>3. ASSUME NEW q \in Pedidos, pedido[q].mes # pedido[p].mes
      PROVE  Cruzado(q, p) = pedido[q]
  BY <1>3 DEF Cruzado
<1> QED
  BY <1>1, <1>2, <1>3, CruzadoTipado, SemFichaTipada DEF Mantida

LEMMA LinhasGravadas ==
  ASSUME CiapAssumption, TypeOK, NEW p \in Pedidos, NEW linhas \in SUBSET Nat,
         Gravado(p, linhas)
  PROVE  /\ e111' \in [Competencias -> [Pedidos -> SUBSET Nat]]
         /\ \A d \in Competencias : d # pedido[p].mes => e111'[d] = e111[d]
         /\ /\ pedido[p].mes \in Competencias
            /\ Donos(pedido[p].mes) \subseteq pedido[p].vistos
            => e111'[pedido[p].mes] = [SemAjuste EXCEPT ![p] = linhas]
<1> DEFINE c == pedido[p].mes
           novo == [q \in Pedidos |-> (IF q \in pedido[p].vistos THEN {} ELSE e111[c][q])
                                        \cup (IF q = p THEN linhas ELSE {})]
<1>1. e111' = [e111 EXCEPT ![c] = novo]
  BY DEF Gravado
<1>2. e111 \in [Competencias -> [Pedidos -> SUBSET Nat]]
  BY DEF TypeOK
<1>3. CASE c \notin Competencias
  BY <1>1, <1>2, <1>3
<1>4. CASE c \in Competencias
  <2>1. novo \in [Pedidos -> SUBSET Nat]
    <3>1. ASSUME NEW q \in Pedidos PROVE novo[q] \in SUBSET Nat
      <4>1. e111[c][q] \in SUBSET Nat
        BY <1>2, <1>4
      <4> QED
        BY <4>1
    <3> QED
      BY <3>1
  <2>2. Donos(c) \subseteq pedido[p].vistos => novo = [SemAjuste EXCEPT ![p] = linhas]
    <3>1. SUFFICES ASSUME Donos(c) \subseteq pedido[p].vistos
                   PROVE  \A q \in Pedidos : novo[q] = IF q = p THEN linhas ELSE {}
      BY DEF SemAjuste
    <3>2. \A q \in Pedidos : q \notin pedido[p].vistos => e111[c][q] = {}
      BY <3>1 DEF Donos
    <3> QED
      BY <3>2
  <2> HIDE DEF novo
  <2> QED
    BY <1>1, <1>2, <1>4, <2>1, <2>2
<1> QED
  BY <1>3, <1>4

(* A regravação of one month leaves the adjustments of the others.         *)
LEMMA AjusteRegravado ==
  ASSUME CiapAssumption, TypeOK, E111Confere, NEW p \in Pedidos, Visto(p),
         pedido[p].passo \in Regravacoes, pedido[p].mes \in Competencias,
         NEW r \in [Chaves -> Seq(Versao)], razao' = r, Regravar(p, r),
         \A k \in Chaves : k[2] # pedido[p].mes => r[k] = razao[k]
  PROVE  /\ E111Confere'
         /\ fonte' \in [Competencias -> {"razao", "tela", "ambas"}]
         /\ \E linhas \in SUBSET Nat : Gravado(p, linhas)
<1> DEFINE c == pedido[p].mes
           v == CreditoDaRazao(r, c)
<1>1. v \in Nat
  BY CreditoNatural
<1>2. LinhaDoCredito(v) \in SUBSET Nat /\ Gravado(p, LinhaDoCredito(v))
  BY <1>1 DEF Regravar, LinhaDoCredito
<1>3. /\ \A d \in Competencias : d # c => e111'[d] = e111[d]
      /\ Donos(c) \subseteq pedido[p].vistos =>
           e111'[c] = [SemAjuste EXCEPT ![p] = LinhaDoCredito(v)]
  BY <1>2, LinhasGravadas
<1>4. /\ fonte \in [Competencias -> {"razao", "tela", "ambas"}]
      /\ fonte' = [fonte EXCEPT ![c] = IF pedido[p].cruzado THEN "ambas" ELSE "razao"]
  BY DEF TypeOK, Regravar, DaRazao
<1>5. ASSUME NEW d \in Competencias, fonte'[d] = "razao"
      PROVE  Conferido(d, CreditoDaRazao(r, d))'
  <2>1. CASE d = c
    <3>1. ~pedido[p].cruzado
      BY <1>4, <1>5, <2>1
    <3>2. e111'[c] = [SemAjuste EXCEPT ![p] = LinhaDoCredito(v)]
      BY <1>3, <3>1 DEF Visto
    <3> HIDE DEF v
    <3>3. CASE v > 0
      <4>1. LinhaDoCredito(v) = {v}
        BY <3>3 DEF LinhaDoCredito
      <4>2. e111'[d] = [SemAjuste EXCEPT ![p] = {v}]
        BY <2>1, <3>2, <4>1
      <4>3. v = CreditoDaRazao(r, d)
        BY <2>1 DEF v
      <4> QED
        BY <3>3, <4>2, <4>3 DEF Conferido
    <3>4. CASE ~(v > 0)
      <4>1. LinhaDoCredito(v) = {}
        BY <3>4 DEF LinhaDoCredito
      <4>2. [SemAjuste EXCEPT ![p] = {}] = SemAjuste
        BY DEF SemAjuste
      <4> QED
        BY <2>1, <3>2, <3>4, <4>1, <4>2 DEF Conferido, v
    <3> QED
      BY <3>3, <3>4
  <2>2. CASE d # c
    <3>1. \A b \in Bens : r[<<b, d>>] = razao[<<b, d>>]
      BY <2>2 DEF Chaves
    <3>2. CreditoDaRazao(r, d) = CreditoDaRazao(razao, d)
      BY <3>1, CreditoDeOutroMes
    <3>3. e111'[d] = e111[d] /\ fonte[d] = "razao"
      BY <1>3, <1>4, <1>5, <2>2
    <3>4. Conferido(d, CreditoDaRazao(razao, d))
      BY <3>3 DEF E111Confere
    <3> QED
      BY <3>2, <3>3, <3>4 DEF Conferido
  <2> QED
    BY <2>1, <2>2
<1>6. E111Confere'
  BY <1>5 DEF E111Confere, Conferido, Competencias
<1>7. fonte' \in [Competencias -> {"razao", "tela", "ambas"}]
  BY <1>4
<1> QED
  BY <1>2, <1>6, <1>7

(* A step that leaves the assets of the appropriations as they were. *)
LEMMA CalendarioFica ==
  ASSUME \A q \in Pedidos : NoCalendario(q),
         \A q \in Pedidos : pedido'[q].passo \in Apropriando =>
           /\ pedido[q].passo \in Apropriando
           /\ pedido'[q].mes = pedido[q].mes /\ pedido'[q].lidos = pedido[q].lidos
  PROVE  \A q \in Pedidos : NoCalendario(q)'
BY DEF NoCalendario, NumeroParcela, Apropriando

(* One request changes, and no row of the adjustments. *)
LEMMA PedidoTrocado ==
  ASSUME AInv, NEW p \in Pedidos, NEW r \in Pedido, e111' = e111,
         pedido' = [pedido EXCEPT ![p] = r],
         r.passo \in Regravacoes => Donos(r.mes) \subseteq r.vistos,
         r.passo \in Apropriando =>
           \A b \in Bens : r.lidos[b] # SemFicha =>
             NumeroParcela(r.lidos[b], r.mes) \in 1 .. Parcelas
  PROVE  /\ pedido' \in [Pedidos -> Pedido]
         /\ \A q \in Pedidos : NoCalendario(q)' /\ Visto(q)'
<1>1. /\ pedido' \in [Pedidos -> Pedido] /\ pedido'[p] = r
      /\ \A q \in Pedidos \ {p} : pedido'[q] = pedido[q]
  BY DEF AInv, TypeOK
<1>2. ASSUME NEW q \in Pedidos PROVE NoCalendario(q)'
  <2>1. CASE q = p
    BY <1>1, <2>1 DEF NoCalendario, NumeroParcela, Apropriando
  <2>2. CASE q # p
    BY <1>1, <2>2 DEF AInv, NoCalendario, NumeroParcela, Apropriando
  <2> QED
    BY <2>1, <2>2
<1>3. ASSUME NEW q \in Pedidos PROVE Visto(q)'
  <2>1. CASE q = p
    BY <1>1, <2>1 DEF Visto, Donos, Regravacoes
  <2>2. CASE q # p
    BY <1>1, <2>2 DEF AInv, Visto, Donos, Regravacoes
  <2> QED
    BY <2>1, <2>2
<1> QED
  BY <1>1, <1>2, <1>3

(* A commit: of the requests of its month, the other regravações are kept  *)
(* away by the lock, and a context marks those it crosses. *)
LEMMA PedidosAposGravar ==
  ASSUME CiapAssumption, IInv, AInv, NEW p \in Pedidos,
         pedido[p].passo \in Regravacoes \cup {"contexto"},
         NEW linhas \in SUBSET Nat, Gravado(p, linhas)
  PROVE  \A q \in Pedidos : NoCalendario(q)' /\ Visto(q)'
<1>1. /\ pedido'[p] = Ocioso /\ Ocioso.passo = "ocioso"
      /\ \A q \in Pedidos \ {p} :
           /\ Mantida(q)
           /\ pedido[q].mes # pedido[p].mes => pedido'[q] = pedido[q]
           /\ /\ pedido[q].mes = pedido[p].mes
              /\ pedido[p].passo = "contexto" /\ pedido[q].passo \in Regravacoes
              => pedido'[q].cruzado
  BY PedidosGravados, SemFichaTipada DEF AInv
<1>2. \A q \in Pedidos : NoCalendario(q)'
  <2>1. \A q \in Pedidos : pedido'[q].passo \in Apropriando =>
           /\ pedido[q].passo \in Apropriando
           /\ pedido'[q].mes = pedido[q].mes /\ pedido'[q].lidos = pedido[q].lidos
    BY <1>1 DEF Mantida, Apropriando
  <2> QED
    BY <2>1, CalendarioFica DEF AInv
<1>3. ASSUME NEW q \in Pedidos, pedido'[q].passo \in Regravacoes, ~pedido'[q].cruzado
      PROVE  e111'[pedido'[q].mes] = e111[pedido[q].mes] /\ pedido'[q] = pedido[q]
  <2>1. q # p /\ pedido[q].passo \in Regravacoes
    BY <1>1, <1>3 DEF Mantida, Regravacoes
  <2>2. Reservado(q) /\ Reservado(p) /\ Regravacoes \subseteq ComTrava
    BY DEF IInv, Regravacoes, ComTrava
  <2>3. pedido[q].mes # pedido[p].mes
    BY <1>1, <1>3, <2>1, <2>2 DEF Reservado
  <2>4. pedido[q].mes \in Competencias
    BY <2>1, <2>2 DEF Reservado
  <2>5. e111'[pedido[q].mes] = e111[pedido[q].mes]
    BY <2>3, <2>4, LinhasGravadas DEF AInv
  <2> QED
    BY <1>1, <2>1, <2>3, <2>5
<1>4. \A q \in Pedidos : Visto(q)'
  BY <1>3 DEF AInv, Visto, Donos, Regravacoes
<1> QED
  BY <1>2, <1>4

(* The register and the disposals leave ledger and adjustments alone. *)
LEMMA CadastroAInv ==
  ASSUME CiapAssumption, AInv, NEW b \in Bens, RegistrarBem(b) \/ BaixarBem(b)
  PROVE  AInv'
<1>1. UNCHANGED <<razao, correcoes, e111, fonte, trava, pedido>>
  BY DEF RegistrarBem, BaixarBem
<1>2. bem \in [Bens -> Bem] /\ residuos \in [Bens -> Nat] /\ bem[b] \in Bem
  BY DEF AInv, TypeOK
<1>3. Competencias \subseteq 0 .. Meses /\ Bases \subseteq Nat
  BY DEF CiapAssumption, Competencias
<1>4. bem' \in [Bens -> Bem] /\ residuos' \in [Bens -> Nat]
  <2>1. CASE RegistrarBem(b)
    <3>1. PICK c \in Competencias, v \in Bases :
            bem' = [bem EXCEPT ![b] =
                      IF @.status = "AUSENTE"
                      THEN [SemFicha EXCEPT !.status = "ATIVO", !.entrada = c,
                                            !.base = v, !.saldo = v]
                      ELSE [@ EXCEPT !.entrada = c, !.base = v]]
      BY <2>1 DEF RegistrarBem
    <3>2. c \in 0 .. Meses /\ v \in Nat /\ SemFicha \in Bem
      BY <1>3, SemFichaTipada
    <3>3. [SemFicha EXCEPT !.status = "ATIVO", !.entrada = c,
                           !.base = v, !.saldo = v] \in Bem
      BY <3>2 DEF Bem
    <3>4. [bem[b] EXCEPT !.entrada = c, !.base = v] \in Bem
      BY <1>2, <3>2 DEF Bem
    <3> QED
      BY <1>2, <2>1, <3>1, <3>3, <3>4 DEF RegistrarBem
  <2>2. CASE BaixarBem(b)
    <3>1. PICK c \in Competencias :
            bem' = [bem EXCEPT ![b].status = "BAIXADO", ![b].baixa = c]
      BY <2>2 DEF BaixarBem
    <3>2. [bem[b] EXCEPT !.status = "BAIXADO", !.baixa = c] \in Bem
      BY <1>2, <1>3 DEF Bem
    <3>3. residuos' = [residuos EXCEPT ![b] = @ + Positivo(bem[b].saldo)]
      BY <2>2 DEF BaixarBem
    <3>4. Positivo(bem[b].saldo) \in Nat
      BY <1>2 DEF Positivo, Bem
    <3> QED
      BY <1>2, <3>1, <3>2, <3>3, <3>4
  <2> QED
    BY <2>1, <2>2
<1>5. \A q \in Pedidos : NoCalendario(q)' /\ Visto(q)'
  BY <1>1 DEF AInv, NoCalendario, NumeroParcela, Visto, Donos
<1> QED
  BY <1>1, <1>4, <1>5 DEF AInv, TypeOK, E111Confere, Conferido

(* What is selected for the month is within its calendar. *)
LEMMA LerBensAInv ==
  ASSUME CiapAssumption, AInv, NEW p \in Pedidos, LerBens(p)
  PROVE  AInv'
<1>1. PICK c \in Competencias :
        /\ trava' = [trava EXCEPT ![c] = "presa"]
        /\ pedido' = [pedido EXCEPT ![p].passo = "lido", ![p].mes = c,
                                   ![p].lidos = [b \in Bens |->
                                     IF b \in Apropriaveis(c) THEN bem[b] ELSE SemFicha]]
  BY DEF LerBens
<1>2. UNCHANGED <<bem, razao, correcoes, residuos, e111, fonte>>
  BY DEF LerBens
<1> DEFINE L == [b \in Bens |-> IF b \in Apropriaveis(c) THEN bem[b] ELSE SemFicha]
           r == [pedido[p] EXCEPT !.passo = "lido", !.mes = c, !.lidos = L]
<1>3. L \in [Bens -> Bem]
  BY SemFichaTipada DEF AInv, TypeOK
<1>4. ASSUME NEW b \in Bens, L[b] # SemFicha PROVE NumeroParcela(L[b], c) \in 1 .. Parcelas
  <2>1. L[b] = bem[b] /\ b \in Apropriaveis(c)
    BY <1>4
  <2> QED
    BY <2>1 DEF Apropriaveis, Elegivel
<1> HIDE DEF L
<1>5. r \in Pedido /\ r.passo = "lido" /\ r.lidos = L /\ r.mes = c
  <2>1. pedido[p] \in Pedido /\ c \in 0 .. Meses
    BY DEF AInv, TypeOK, CiapAssumption, Competencias
  <2> QED
    BY <1>3, <2>1 DEF Pedido
<1>6. pedido' = [pedido EXCEPT ![p] = r]
  BY <1>1 DEF AInv, TypeOK, L
<1> HIDE DEF r
<1>7. /\ pedido' \in [Pedidos -> Pedido]
      /\ \A q \in Pedidos : NoCalendario(q)' /\ Visto(q)'
  <2>1. r.passo \notin Regravacoes
    BY <1>5 DEF Regravacoes
  <2> QED
    BY <1>2, <1>4, <1>5, <1>6, <2>1, PedidoTrocado
<1>8. trava' \in [Competencias -> {"livre", "presa"}]
  BY <1>1 DEF AInv, TypeOK
<1> QED
  BY <1>2, <1>7, <1>8 DEF AInv, TypeOK, E111Confere, Conferido

(* The request a DELETE leaves. *)
LEMMA ApagadoTipado ==
  ASSUME AInv, NEW p \in Pedidos, NEW c \in 0 .. Meses,
         NEW passo \in {"apropriar", "corrigir", "contexto"}
  PROVE  /\ Apagado(p, passo, c) \in Pedido
         /\ Apagado(p, passo, c).passo = passo /\ Apagado(p, passo, c).mes = c
         /\ Apagado(p, passo, c).lidos = pedido[p].lidos
         /\ Apagado(p, passo, c).vistos = Donos(c)
<1>1. pedido[p] \in Pedido /\ Donos(c) \in SUBSET Pedidos
  BY DEF AInv, TypeOK, Donos
<1> QED
  BY <1>1 DEF Apagado, Pedido

LEMMA ApagarAInv ==
  ASSUME CiapAssumption, AInv, NEW p \in Pedidos,
         ApagarE111(p) \/ ApagarParaCorrigir(p) \/ ApagarAjustes(p)
  PROVE  AInv'
<1>1. UNCHANGED <<bem, razao, correcoes, residuos, e111, fonte>>
  BY DEF ApagarE111, ApagarParaCorrigir, ApagarAjustes
<1>2. trava' \in [Competencias -> {"livre", "presa"}]
  BY DEF ApagarE111, ApagarParaCorrigir, ApagarAjustes, AInv, TypeOK
<1>3. Competencias \subseteq 0 .. Meses
  BY DEF Competencias
<1>4. /\ pedido' \in [Pedidos -> Pedido]
      /\ \A q \in Pedidos : NoCalendario(q)' /\ Visto(q)'
  <2>1. CASE ApagarE111(p)
    <3> DEFINE c == pedido[p].mes
               r == Apagado(p, "apropriar", c)
    <3>1. c \in 0 .. Meses /\ pedido[p].passo \in Apropriando
      BY <2>1 DEF AInv, TypeOK, Pedido, ApagarE111, Apropriando
    <3> HIDE DEF c
    <3>2. r \in Pedido /\ r.mes = c /\ r.lidos = pedido[p].lidos /\ r.vistos = Donos(c)
      BY <3>1, ApagadoTipado
    <3>3. pedido' = [pedido EXCEPT ![p] = r]
      BY <2>1 DEF ApagarE111, c
    <3>4. \A b \in Bens : r.lidos[b] # SemFicha =>
             NumeroParcela(r.lidos[b], r.mes) \in 1 .. Parcelas
      BY <3>1, <3>2 DEF AInv, NoCalendario, c
    <3> HIDE DEF r
    <3> QED
      BY <1>1, <3>2, <3>3, <3>4, PedidoTrocado
  <2>2. CASE ApagarParaCorrigir(p)
    <3>1. PICK c \in Competencias :
            pedido' = [pedido EXCEPT ![p] = Apagado(p, "corrigir", c)]
      BY <2>2 DEF ApagarParaCorrigir
    <3> DEFINE r == Apagado(p, "corrigir", c)
    <3>2. /\ r \in Pedido /\ r.passo = "corrigir" /\ r.mes = c /\ r.vistos = Donos(c)
      BY <1>3, ApagadoTipado
    <3>3. r.passo \notin Apropriando
      BY <3>2 DEF Apropriando
    <3> HIDE DEF r
    <3> QED
      BY <1>1, <3>1, <3>2, <3>3, PedidoTrocado DEF r
  <2>3. CASE ApagarAjustes(p)
    <3>1. PICK c \in Competencias :
            pedido' = [pedido EXCEPT ![p] = Apagado(p, "contexto", c)]
      BY <2>3 DEF ApagarAjustes
    <3> DEFINE r == Apagado(p, "contexto", c)
    <3>2. r \in Pedido /\ r.passo = "contexto"
      BY <1>3, ApagadoTipado
    <3>3. r.passo \notin Apropriando /\ r.passo \notin Regravacoes
      BY <3>2 DEF Apropriando, Regravacoes
    <3> HIDE DEF r
    <3> QED
      BY <1>1, <3>1, <3>2, <3>3, PedidoTrocado DEF r
  <2> QED
    BY <2>1, <2>2, <2>3
<1> QED
  BY <1>1, <1>2, <1>4 DEF AInv, TypeOK, E111Confere, Conferido

(* What an appropriation computes for one asset.                           *)
LEMMA ParcelaTipada ==
  ASSUME CiapAssumption, NEW f \in Bem, NEW g \in Bem, NEW coef \in Coeficientes,
         NEW c \in Competencias,
         NumeroParcela(f, c) \in 1 .. Parcelas, NEW b \in Bens, bem[b] = g
  PROVE  /\ Apropriado(b, f, c) \in Bem
         /\ [versao |-> 1, ativa |-> TRUE, passivel |-> ParcelaPassivel(f),
             admitida |-> ParcelaAdmitida(ParcelaPassivel(f), coef)] \in Versao
<1>1. /\ f.base \in Nat /\ f.saldo \in Nat /\ coef \in Nat
      /\ Parcelas \in Nat \ {0} /\ Escala \in Nat \ {0}
  BY DEF Bem, CiapAssumption
<1>2. ParcelaPassivel(f) \in Nat
  BY <1>1, Quociente DEF ParcelaPassivel
<1>3. ParcelaAdmitida(ParcelaPassivel(f), coef) \in Nat
  <2>1. ParcelaPassivel(f) * coef \in Nat
    BY <1>1, <1>2, Quociente
  <2> QED
    BY <1>1, <2>1, Quociente DEF ParcelaAdmitida
<1>4. Positivo(f.saldo - ParcelaPassivel(f)) \in Nat
  BY <1>1, <1>2 DEF Positivo
<1>5. NumeroParcela(f, c) \in 0 .. Parcelas
  BY <1>1
<1>6. Apropriado(b, f, c) \in Bem
  <2>1. ASSUME NEW n \in 0 .. Parcelas, NEW s \in Nat,
               NEW st \in {"AUSENTE", "ATIVO", "CONCLUIDO", "BAIXADO"}
        PROVE  [bem[b] EXCEPT !.parcela = n, !.saldo = s, !.status = st] \in Bem
    BY DEF Bem
  <2> QED
    BY <1>4, <1>5, <2>1 DEF Apropriado
<1> QED
  BY <1>2, <1>3, <1>6 DEF Versao

(* The instalments are written and the adjustment of the month with them. *)
LEMMA ApropriarAInv ==
  ASSUME CiapAssumption, IInv, AInv, NEW p \in Pedidos, NEW coef \in Coeficientes,
         Apropriar(p, coef)
  PROVE  AInv'
<1> DEFINE c == pedido[p].mes
           f == pedido[p].lidos
           novos == {b \in Bens : f[b] # SemFicha}
           nova(b) == [versao |-> 1, ativa |-> TRUE, passivel |-> ParcelaPassivel(f[b]),
                       admitida |-> ParcelaAdmitida(ParcelaPassivel(f[b]), coef)]
           r == [k \in Chaves |-> IF k[1] \in novos /\ k[2] = c
                                  THEN Append(razao[k], nova(k[1])) ELSE razao[k]]
<1>1. /\ pedido[p].passo = "apropriar"
      /\ bem' = [b \in Bens |-> IF b \in novos THEN Apropriado(b, f[b], c) ELSE bem[b]]
      /\ razao' = r
      /\ Regravar(p, r)
      /\ trava' = [trava EXCEPT ![c] = "livre"]
      /\ UNCHANGED <<correcoes, residuos>>
  BY DEF Apropriar
<1>0. pedido[p].passo \in Apropriando \cap Regravacoes \cap ComTrava
  BY <1>1 DEF Apropriando, Regravacoes, ComTrava
<1>2. c \in Competencias
  BY <1>0 DEF IInv, Reservado
<1>3. f \in [Bens -> Bem] /\ bem \in [Bens -> Bem] /\ razao \in [Chaves -> Seq(Versao)]
  BY DEF AInv, TypeOK, Pedido
<1>4. \A b \in novos : NumeroParcela(f[b], c) \in 1 .. Parcelas
  BY <1>0 DEF AInv, NoCalendario
<1>5. \A b \in novos : nova(b) \in Versao /\ Apropriado(b, f[b], c) \in Bem
  BY <1>2, <1>3, <1>4, ParcelaTipada
<1>8. \A k \in Chaves : k[2] # pedido[p].mes => r[k] = razao[k]
  OBVIOUS
<1>9. pedido[p].mes \in Competencias
  BY <1>2
<1> HIDE DEF c, f, nova
<1>6. r \in [Chaves -> Seq(Versao)]
  <2>1. ASSUME NEW k \in Chaves PROVE r[k] \in Seq(Versao)
    BY <1>3, <1>5
  <2> QED
    BY <2>1
<1>7. bem' \in [Bens -> Bem]
  BY <1>1, <1>3, <1>5
<1> HIDE DEF r, novos
<1>10. /\ E111Confere' /\ fonte' \in [Competencias -> {"razao", "tela", "ambas"}]
       /\ \E linhas \in SUBSET Nat : Gravado(p, linhas)
  BY <1>0, <1>1, <1>6, <1>8, <1>9, AjusteRegravado DEF AInv
<1>11. PICK linhas \in SUBSET Nat : Gravado(p, linhas)
  BY <1>10
<1>12. \A q \in Pedidos : NoCalendario(q)' /\ Visto(q)'
  BY <1>0, <1>11, PedidosAposGravar
<1>13. /\ pedido' \in [Pedidos -> Pedido]
       /\ e111' \in [Competencias -> [Pedidos -> SUBSET Nat]]
  BY <1>11, PedidosGravados, LinhasGravadas DEF AInv
<1>14. /\ trava' \in [Competencias -> {"livre", "presa"}]
       /\ correcoes' \in [Chaves -> Int] /\ residuos' \in [Bens -> Nat]
  BY <1>1 DEF AInv, TypeOK
<1> QED
  BY <1>1, <1>6, <1>7, <1>10, <1>12, <1>13, <1>14 DEF AInv, TypeOK

(* A transaction that fails changes only the request. *)
LEMMA FalharAInv ==
  ASSUME CiapAssumption, AInv, NEW p \in Pedidos, Falhar(p)
  PROVE  AInv'
<1>1. /\ pedido' = [pedido EXCEPT ![p] = Ocioso]
      /\ trava' = IF pedido[p].passo \in ComTrava
                  THEN [trava EXCEPT ![pedido[p].mes] = "livre"] ELSE trava
      /\ UNCHANGED <<bem, razao, correcoes, residuos, e111, fonte>>
  BY DEF Falhar
<1>2. trava' \in [Competencias -> {"livre", "presa"}]
  BY <1>1 DEF AInv, TypeOK
<1>3. /\ pedido' \in [Pedidos -> Pedido]
      /\ \A q \in Pedidos : NoCalendario(q)' /\ Visto(q)'
  <2>1. /\ Ocioso \in Pedido
        /\ Ocioso.passo \notin Regravacoes /\ Ocioso.passo \notin Apropriando
    BY SemFichaTipada DEF Regravacoes, Apropriando
  <2> QED
    BY <1>1, <2>1, PedidoTrocado
<1> QED
  BY <1>1, <1>2, <1>3 DEF AInv, TypeOK, E111Confere, Conferido

(* Saving the context changes no other month, and says where the           *)
(* adjustments of this one come from. *)
LEMMA ContextoAInv ==
  ASSUME CiapAssumption, IInv, AInv, NEW p \in Pedidos, AtualizarContexto(p)
  PROVE  AInv'
<1> DEFINE c == pedido[p].mes
<1>1. /\ pedido[p].passo = "contexto"
      /\ fonte' = [fonte EXCEPT ![c] = "tela"]
      /\ UNCHANGED <<bem, razao, correcoes, residuos, trava>>
  BY DEF AtualizarContexto
<1>2. PICK linhas \in Ajustes : Gravado(p, linhas)
  BY DEF AtualizarContexto
<1>3. linhas \in SUBSET Nat
  BY DEF CiapAssumption
<1>4. /\ e111' \in [Competencias -> [Pedidos -> SUBSET Nat]]
      /\ \A d \in Competencias : d # c => e111'[d] = e111[d]
      /\ pedido' \in [Pedidos -> Pedido]
  BY <1>2, <1>3, LinhasGravadas, PedidosGravados DEF AInv
<1>5. \A q \in Pedidos : NoCalendario(q)' /\ Visto(q)'
  BY <1>1, <1>2, <1>3, PedidosAposGravar
<1>6. fonte' \in [Competencias -> {"razao", "tela", "ambas"}]
  BY <1>1 DEF AInv, TypeOK
<1>7. E111Confere'
  <2>1. \A d \in Competencias :
          fonte'[d] = "razao" => d # c /\ fonte[d] = "razao" /\ e111'[d] = e111[d]
    BY <1>1, <1>4 DEF AInv, TypeOK
  <2> QED
    BY <1>1, <2>1 DEF AInv, E111Confere, Conferido
<1> QED
  BY <1>1, <1>4, <1>5, <1>6, <1>7 DEF AInv, TypeOK

(* A correction writes the ledger and the adjustment of its month. *)
LEMMA CorrigirAInv ==
  ASSUME CiapAssumption, IInv, IInv', AInv, NEW p \in Pedidos, Corrigir(p)
  PROVE  AInv'
<1>1. PICK k \in Chaves : \E j \in Ativas(razao[k]), coef \in Coeficientes :
        Correcao(p, k, j, coef)
  BY LinhaCorrigida
<1>2. PICK i \in Ativas(razao[k]), coef \in Coeficientes : Correcao(p, k, i, coef)
  BY <1>1
<1> DEFINE s == razao[k]
           atual == s[i]
           n == [atual EXCEPT !.versao = @ + 1,
                              !.admitida = ParcelaAdmitida(atual.passivel, coef)]
           d == [s EXCEPT ![i].ativa = FALSE]
           t == Append(d, n)
           r == [razao EXCEPT ![k] = t]
<1>3. /\ pedido[p].passo = "corrigir" /\ k[2] = pedido[p].mes
      /\ razao' = r /\ Regravar(p, r)
      /\ \E c \in Competencias : trava' = [trava EXCEPT ![c] = "livre"]
      /\ UNCHANGED <<bem, residuos>>
  <2>1. pedido[p].passo = "corrigir" /\ pedido[p].passo \in ComTrava
    BY DEF Corrigir, ComTrava
  <2>2. pedido[p].mes \in Competencias
    BY <2>1 DEF IInv, Reservado
  <2>3. trava' = [trava EXCEPT ![pedido[p].mes] = "livre"] /\ UNCHANGED <<bem, residuos>>
    BY DEF Corrigir
  <2>4. k[2] = pedido[p].mes /\ razao' = r /\ Regravar(p, r)
    BY <1>2 DEF Correcao, Corrigida
  <2> QED
    BY <2>1, <2>2, <2>3, <2>4
<1>4. s \in Seq(Versao) /\ i \in DOMAIN s /\ atual \in Versao
  <2>1. s \in Seq(Versao) /\ i \in DOMAIN s
    BY DEF AInv, TypeOK, Ativas
  <2> QED
    BY <2>1
<1>5. n \in Versao
  <2>1. ParcelaAdmitida(atual.passivel, coef) \in Nat
    <3>1. atual.passivel \in Nat /\ coef \in Nat /\ Escala \in Nat \ {0}
      BY <1>4 DEF Versao, CiapAssumption
    <3>2. atual.passivel * coef \in Nat
      BY <3>1, Quociente
    <3> QED
      BY <3>1, <3>2, Quociente DEF ParcelaAdmitida
  <2>2. PICK v \in Nat \ {0} : v = atual.versao + 1
    BY <1>4 DEF Versao
  <2> HIDE DEF atual
  <2>3. n = [atual EXCEPT !.versao = v, !.admitida = ParcelaAdmitida(atual.passivel, coef)]
    BY <1>4, <2>2 DEF Versao
  <2> QED
    BY <1>4, <2>1, <2>2, <2>3 DEF Versao
<1>6. d \in Seq(Versao)
  <2> DEFINE u == [s[i] EXCEPT !.ativa = FALSE]
  <2>1. u \in Versao
    BY <1>4 DEF Versao
  <2>2. d = [s EXCEPT ![i] = u]
    OBVIOUS
  <2>3. s \in Seq(Versao) /\ i \in DOMAIN s
    BY <1>4
  <2> HIDE DEF u, s, d
  <2> QED
    BY <2>1, <2>2, <2>3
<1> HIDE DEF s, n, d
<1>7. t \in Seq(Versao)
  BY <1>5, <1>6
<1> HIDE DEF t
<1>8. /\ r \in [Chaves -> Seq(Versao)]
      /\ \A j \in Chaves : j[2] # pedido[p].mes => r[j] = razao[j]
  BY <1>3, <1>7 DEF AInv, TypeOK
<1>9. pedido[p].mes \in Competencias /\ pedido[p].passo \in Regravacoes
  BY <1>3 DEF Chaves, Regravacoes
<1> HIDE DEF r
<1>10. /\ E111Confere' /\ fonte' \in [Competencias -> {"razao", "tela", "ambas"}]
       /\ \E linhas \in SUBSET Nat : Gravado(p, linhas)
  BY <1>3, <1>8, <1>9, AjusteRegravado DEF AInv
<1>11. PICK linhas \in SUBSET Nat : Gravado(p, linhas)
  BY <1>10
<1>12. \A q \in Pedidos : NoCalendario(q)' /\ Visto(q)'
  BY <1>9, <1>11, PedidosAposGravar
<1>13. /\ pedido' \in [Pedidos -> Pedido]
       /\ e111' \in [Competencias -> [Pedidos -> SUBSET Nat]]
  BY <1>11, PedidosGravados, LinhasGravadas DEF AInv
<1>14. correcoes' \in [Chaves -> Int]
  BY DEF IInv, TiposDaRazao
<1>15. trava' \in [Competencias -> {"livre", "presa"}]
  BY <1>3 DEF AInv, TypeOK
<1> QED
  BY <1>3, <1>8, <1>10, <1>12, <1>13, <1>14, <1>15 DEF AInv, TypeOK

(* Every step, with the invariant of the ledger.                           *)
LEMMA PassoAInv ==
  ASSUME CiapAssumption, IInv, AInv, [Next]_vars
  PROVE  AInv'
<1>1. IInv'
  BY PassoIInv
<1>2. CASE UNCHANGED vars
  <2>1. UNCHANGED <<bem, razao, correcoes, residuos, e111, fonte, trava, pedido>>
    BY <1>2 DEF vars
  <2>2. \A q \in Pedidos : NoCalendario(q)' /\ Visto(q)'
    BY <2>1 DEF AInv, NoCalendario, NumeroParcela, Visto, Donos
  <2> QED
    BY <2>1, <2>2 DEF AInv, TypeOK, E111Confere, Conferido
<1>3. CASE Next
  BY <1>1, <1>3, CadastroAInv, LerBensAInv, ApagarAInv, ApropriarAInv, FalharAInv,
     ContextoAInv, CorrigirAInv DEF Next
<1> QED
  BY <1>2, <1>3

(* After a regravação the E111 of the month is one row with what the       *)
(* active rows of the ledger add up to, whatever appropriations and        *)
(* corrections interleave with it and whatever contexts were saved before; *)
(* not after a save of the context that follows it, or that commits while  *)
(* it runs, of which E111Confere says nothing. *)
THEOREM AjusteSempreConfere ==
  ASSUME CiapAssumption PROVE Spec => []E111Confere
<1>1. IInv /\ AInv /\ [Next]_vars => IInv' /\ AInv'
  BY PassoIInv, PassoAInv
<1>2. Init => IInv /\ AInv
  BY InicioIInv, InicioAInv
<1>3. AInv => E111Confere
  BY DEF AInv
<1> QED
  BY <1>1, <1>2, <1>3, PTL DEF Spec

(* Every variable stays in its set: balances and adjustments never go      *)
(* negative, and no instalment is beyond the calendar. *)
THEOREM TiposDoCiap ==
  ASSUME CiapAssumption PROVE Spec => []TypeOK
<1>1. IInv /\ AInv /\ [Next]_vars => IInv' /\ AInv'
  BY PassoIInv, PassoAInv
<1>2. Init => IInv /\ AInv
  BY InicioIInv, InicioAInv
<1>3. AInv => TypeOK
  BY DEF AInv
<1> QED
  BY <1>1, <1>2, <1>3, PTL DEF Spec
=============================================================================
