---------------------------- MODULE CteEscrituracao ----------------------------
(***************************************************************************)
(* The booking of transport documents (CT-e, model 57) of one client: one  *)
(* row of documentos_fiscais_cte_escrituracao per document, written by the *)
(* distribution, the import and the reprocessing. A substitution (tpCte    *)
(* "3") takes the document it refers to out of the books, an annulment     *)
(* ("2") reverses its credit, and each is booked by a transaction of its   *)
(* own, which reads what others committed.                                 *)
(*                                                                         *)
(* The distribution and the import hold the advisory lock of the key they  *)
(* book, not of the key they refer to; the reprocessing holds none. The    *)
(* amount of ICMS of a document is 1 (that of its annulment -1).           *)
(***************************************************************************)
EXTENDS Integers, Sequences, FiniteSets

CONSTANTS
  Chaves,     \* access keys
  Pedidos,    \* requests that may run at the same time
  Emissoes,   \* what the XML of each key may say: functions from keys to Cte
  Nada

(* What a decision depends on. ref: the referenced key. cfop: whether the  *)
(* resolved CFOP takes the credit, refuses it or asks for a review. *)
Cte == [papel : {"PRESTADOR", "TOMADOR", "NENHUM"}, tpCte : {"0", "1", "2", "3"},
        tpServ : {"0", "1", "2", "3", "4"}, autorizada : BOOLEAN, apura : BOOLEAN,
        cstCredita : BOOLEAN, cfop : {"credita", "nega", "revisa"}, ref : Chaves \cup {Nada}]

CteAssumption == Emissoes \subseteq [Chaves -> Cte] /\ Nada \notin Chaves

VARIABLES
  xml,       \* the document of each key
  linhaCte,  \* the committed row of each key, Nada when there is none
  tx,        \* the transaction of each request
  cruzadas   \* history: pairs of keys booked by transactions that overlapped

vars == <<xml, linhaCte, tx, cruzadas>>

-----------------------------------------------------------------------------
(* The decision about one document. *)

Revisao(c) == c.tpServ \in {"1", "2", "3"}

(* Whoever issues the CT-e books it as an exit, whoever hires it as an entry. *)
Escrituravel(c) == c.papel # "NENHUM"

CreditaIcms(c) ==
  /\ c.papel = "TOMADOR" /\ c.autorizada /\ c.apura /\ c.cstCredita
  /\ ~Revisao(c) /\ c.tpCte # "2"

Linha == [escrituravel : BOOLEAN, substituido : BOOLEAN, revisao : BOOLEAN,
          cfopRevisao : BOOLEAN, credito : {-1, 0, 1},
          status : {"NAO_ESCRITURAVEL", "PENDENTE_REVISAO", "ESCRITURADO"}]

ComStatus(l) ==
  [l EXCEPT !.status = IF ~l.escrituravel THEN "NAO_ESCRITURAVEL"
                       ELSE IF l.revisao THEN "PENDENTE_REVISAO" ELSE "ESCRITURADO"]

Preparada(c) ==
  [escrituravel |-> Escrituravel(c), substituido |-> FALSE,
   revisao |-> Revisao(c) \/ c.cfop = "revisa" \/ (c.tpCte # "0" /\ c.ref = Nada),
   cfopRevisao |-> c.cfop = "revisa",
   credito |-> IF CreditaIcms(c) /\ c.cfop # "nega" THEN 1 ELSE 0,
   status |-> "ESCRITURADO"]

-----------------------------------------------------------------------------
(* Persisting one document, over the rows a transaction sees. *)

Anula(k) == xml[k].tpCte = "2" /\ Escrituravel(xml[k]) /\ xml[k].ref # Nada

(* The annulment takes the credit of the original it sees, negated. *)
Estornada(k, vistas, l) ==
  IF ~Anula(k) THEN l
  ELSE IF vistas[xml[k].ref] = Nada THEN [l EXCEPT !.credito = 0, !.revisao = TRUE]
  ELSE [l EXCEPT !.credito = IF vistas[xml[k].ref].credito = 0 THEN 0 ELSE -1]

Substitutos(k, vistas) ==
  {s \in Chaves : /\ vistas[s] # Nada /\ vistas[s].escrituravel
                  /\ xml[s].tpCte = "3" /\ xml[s].ref = k}

Fora(l) == [l EXCEPT !.escrituravel = FALSE, !.substituido = TRUE, !.credito = 0,
                     !.status = "NAO_ESCRITURAVEL"]

(* Variant for mutation: a booking that does not look for substitutes. *)
LidaSemSubstitutos(k, vistas) == ComStatus(Estornada(k, vistas, Preparada(xml[k])))

Lida(k, vistas) ==
  LET l == ComStatus(Estornada(k, vistas, Preparada(xml[k])))
  IN  IF Substitutos(k, vistas) = {} THEN l ELSE Fora(l)

(* A substitution that is booked takes its reference out of the books. *)
Referido(k, l, vistas) ==
  {r \in Chaves : /\ xml[k].tpCte = "3" /\ l.escrituravel
                  /\ xml[k].ref = r /\ vistas[r] # Nada}

-----------------------------------------------------------------------------
(* passo "ler": look for the original and the substitutes of Head(fila);   *)
(* "gravar": write its row and its reference; "confirmar": commit.         *)
Livre == [passo |-> "fora", op |-> "nenhuma", fila |-> <<>>, chaves |-> {},
          foto |-> Nada, lida |-> Nada, escritas |-> <<>>]

(* The rows once some writes apply to them. *)
Aplicadas(novas, linhas) ==
  [k \in DOMAIN novas \cup DOMAIN linhas |->
     IF k \in DOMAIN novas THEN novas[k] ELSE linhas[k]]

(* READ COMMITTED sees what is committed, REPEATABLE READ its snapshot;    *)
(* both see their own writes. *)
Vistas(p) == Aplicadas(tx[p].escritas, IF tx[p].foto = Nada THEN linhaCte ELSE tx[p].foto)

Iniciar(p, op, fila, foto) ==
  LET chaves == {fila[i] : i \in DOMAIN fila}
      outras == UNION {tx[q].chaves : q \in Pedidos \ {p}}
  IN  /\ tx[p].passo = "fora" /\ fila # <<>>
      /\ tx' = [tx EXCEPT ![p] = [Livre EXCEPT !.passo = "ler", !.op = op, !.fila = fila,
                                               !.chaves = chaves, !.foto = foto]]
      /\ cruzadas' = cruzadas \cup {{a, b} : a \in chaves, b \in outras}
      /\ UNCHANGED <<xml, linhaCte>>

(* salvarDocumento: new or known, the CT-e is booked. *)
Distribuir(p, k) == Iniciar(p, "distribuir", <<k>>, Nada)

(* persistirDocumento: a known document is a duplicate. REPEATABLE READ:   *)
(* the statement that waits for the lock takes the snapshot. *)
Importar(p, k) == linhaCte[k] = Nada /\ Iniciar(p, "importar", <<k>>, linhaCte)

(* reprocessar: every CT-e of the client, in the order the query gave. *)
Reprocessar(p) ==
  LET existentes == {k \in Chaves : linhaCte[k] # Nada}
  IN  \E fila \in [1..Cardinality(existentes) -> existentes] :
        /\ {fila[i] : i \in DOMAIN fila} = existentes
        /\ Iniciar(p, "reprocessar", fila, Nada)

(* fiscal-doc:<cliente>:<chave> *)
TrancaLivre(p) ==
  tx[p].op = "reprocessar" \/
  \A q \in Pedidos \ {p} : \/ tx[q].op \in {"nenhuma", "reprocessar"}
                           \/ tx[q].passo = "ler"
                           \/ tx[q].chaves # tx[p].chaves

Ler(p) ==
  /\ tx[p].passo = "ler" /\ TrancaLivre(p)
  /\ tx' = [tx EXCEPT ![p].passo = "gravar", ![p].lida = Lida(Head(tx[p].fila), Vistas(p))]
  /\ UNCHANGED <<xml, linhaCte, cruzadas>>

(* A row another transaction wrote is locked until that one ends; one that *)
(* changed after the snapshot refuses the update. *)
PodeEscrever(p, linhas) ==
  \A r \in linhas :
    /\ \A q \in Pedidos \ {p} : r \notin DOMAIN tx[q].escritas
    /\ tx[p].foto # Nada => tx[p].foto[r] = linhaCte[r]

Gravar(p) ==
  /\ tx[p].passo = "gravar"
  /\ LET k == Head(tx[p].fila)
         referidas == Referido(k, tx[p].lida, Vistas(p))
         novas == [r \in {k} \cup referidas |->
                     IF r = k THEN tx[p].lida ELSE Fora(Vistas(p)[r])]
         resto == Tail(tx[p].fila)
     IN  /\ PodeEscrever(p, {k} \cup referidas)
         /\ tx' = [tx EXCEPT ![p].escritas = Aplicadas(novas, tx[p].escritas),
                             ![p].fila = resto,
                             ![p].lida = Nada,
                             ![p].passo = IF resto = <<>> THEN "confirmar" ELSE "ler"]
  /\ UNCHANGED <<xml, linhaCte, cruzadas>>

Confirmar(p) ==
  /\ tx[p].passo = "confirmar"
  /\ linhaCte' = Aplicadas(tx[p].escritas, linhaCte)
  /\ tx' = [tx EXCEPT ![p] = Livre]
  /\ UNCHANGED <<xml, cruzadas>>

(* A failed statement, a deadlock the database breaks, a lost connection.  *)
Falhar(p) ==
  /\ tx[p].passo # "fora"
  /\ tx' = [tx EXCEPT ![p] = Livre]
  /\ UNCHANGED <<xml, linhaCte, cruzadas>>

-----------------------------------------------------------------------------
Init ==
  /\ xml \in Emissoes
  /\ linhaCte = [k \in Chaves |-> Nada]
  /\ tx = [p \in Pedidos |-> Livre]
  /\ cruzadas = {}

Passo(p) ==
  \/ \E k \in Chaves : Distribuir(p, k) \/ Importar(p, k)
  \/ Reprocessar(p) \/ Ler(p) \/ Gravar(p) \/ Confirmar(p) \/ Falhar(p)

Next == \E p \in Pedidos : Passo(p)

Spec == Init /\ [][Next]_vars

-----------------------------------------------------------------------------
(* Every variable stays in its set. *)
TypeOK ==
  /\ xml \in Emissoes
  /\ linhaCte \in [Chaves -> Linha \cup {Nada}]
  /\ \A p \in Pedidos :
       /\ tx[p].passo \in {"fora", "ler", "gravar", "confirmar"}
       /\ tx[p].op \in {"nenhuma", "distribuir", "importar", "reprocessar"}
       /\ tx[p].fila \in Seq(Chaves) /\ tx[p].chaves \subseteq Chaves
       /\ tx[p].foto # Nada => tx[p].foto \in [Chaves -> Linha \cup {Nada}]
       /\ tx[p].lida \in Linha \cup {Nada}
       /\ DOMAIN tx[p].escritas \subseteq Chaves
  /\ cruzadas \subseteq SUBSET Chaves

(* The amount of credit the books take from a row (getTotalCreditoIcms). *)
CreditoApurado(k) ==
  LET l == linhaCte[k]
  IN  IF l = Nada THEN 0
      ELSE IF l.escrituravel /\ ~l.revisao /\ ~l.cfopRevisao /\ xml[k].autorizada
           THEN l.credito ELSE 0

(* A document and the one that substitutes it are never both in the books, *)
(* unless transactions that overlapped booked them: the locks of the two   *)
(* keys differ. The order of arrival does not matter, nor how often either *)
(* is booked again. *)
SubstituicaoExclui ==
  \A o, s \in Chaves :
    (xml[s].tpCte = "3" /\ xml[s].ref = o /\ s # o /\ {o, s} \notin cruzadas
       /\ linhaCte[o] # Nada /\ linhaCte[s] # Nada)
      => ~(linhaCte[o].escrituravel /\ linhaCte[s].escrituravel)

(* While no booking is under way, a document and its annulment add up to   *)
(* no credit: the annulment reverses the credit of the booking it refers   *)
(* to, and a substitution of that booking does not count twice. *)
EstornoConfere ==
  \A o, n \in Chaves :
    (Anula(n) /\ xml[n].ref = o /\ CreditoApurado(n) # 0 /\ cruzadas = {})
      => CreditoApurado(o) + CreditoApurado(n) = 0
=============================================================================
