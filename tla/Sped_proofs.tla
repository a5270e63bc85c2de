----------------------------- MODULE Sped_proofs -----------------------------
(***************************************************************************)
(* Proofs about the EFD ICMS/IPI, for any month, any documents, items,     *)
(* units, inventories and codes stored before, and any number of           *)
(* generations and editions.                                               *)
(*                                                                         *)
(* A generation (EfdGeracao) writes into the catalogue what its snapshot   *)
(* showed, and an edition may have changed it since. Neither property of   *)
(* it is inductive: the invariant relates every snapshot to the catalogue  *)
(* as it is committed NOW. A row whose version did not move still has the  *)
(* unit the snapshot showed, and the rows of purchases moved past the      *)
(* snapshot of every generation that committed.                            *)
(*                                                                         *)
(* The preparation (EfdDocumentos) is a loop over documents and items that *)
(* fills catalogues other registers refer to. Its invariant has three      *)
(* parts: where the loop stands (what is left is a suffix of the month and *)
(* the document opened is its head), what the catalogues hold (a code      *)
(* determines what it stands for, and whatever a register written refers   *)
(* to is there), and what became of every document read.                   *)
(*                                                                         *)
(* The computation of the taxes (EfdApuracao) is one step: what is proved  *)
(* of it is about sums over finite sets, split by note, by class of C190,  *)
(* by federation unit, and added up again in another order.                *)
(***************************************************************************)
EXTENDS Sped, TLAPS, FiniteSetTheorems, WellFoundedInduction, NaturalsInduction

-----------------------------------------------------------------------------
(* The generations beside the edition of inventories. *)

Fases == {"PARADA", "ESPERA", "PREPARADA", "RECUSADA", "ABORTADA", "GRAVADA",
          "ARMAZENADA", "FEITA"}

(* The record of a call of gerar. What its snapshot shows of the           *)
(* inventories matters to neither property. *)
Ficha(g) ==
    /\ geracao[g] = [fase |-> geracao[g].fase, mes |-> geracao[g].mes,
                     foto |-> geracao[g].foto]
    /\ geracao[g].fase \in Fases
    /\ geracao[g].foto.versao \in [Linhas -> Nat]

Tipos ==
    /\ unidadeItem = [i \in Itens |-> unidadeItem[i]]
    /\ pedida = [i \in Itens |-> pedida[i]]
    /\ versao \in [Linhas -> Nat]
    /\ geracao = [g \in Geracoes |-> geracao[g]]
    /\ \A g \in Geracoes : Ficha(g)
    /\ linha = [g \in Geracoes |-> linha[g]]

(* A snapshot is the catalogue of some earlier version of each row. *)
FotoAntiga(g) ==
    /\ \A r \in Linhas : geracao[g].foto.versao[r] <= versao[r]
    /\ \A i \in Itens : geracao[g].foto.versao[i] = versao[i]
                           => geracao[g].foto.unidadeItem[i] = unidadeItem[i]

(* Who committed moved the rows of purchases, which every month writes. *)
Adiantou(g) == Gravada(g) => \A o \in Outros : geracao[g].foto.versao[o] < versao[o]

(* The row of a generation and its file. *)
Rastro(g) ==
    /\ g \in arquivos => Gravada(g)
    /\ Gravada(g) => linha[g] # Nenhuma
    /\ linha[g] = "GERADO" \/ geracao[g].fase = "ARMAZENADA" => g \in arquivos

IInv ==
    /\ Tipos
    /\ CatalogoDoInventario
    /\ GeracaoRastreada
    /\ arquivos \subseteq Geracoes
    /\ \A g \in Geracoes : FotoAntiga(g) /\ Adiantou(g) /\ Rastro(g)

-----------------------------------------------------------------------------
LEMMA InicioIInv == GeracaoInit => IInv
<1> SUFFICES ASSUME GeracaoInit PROVE IInv
  OBVIOUS
<1>1. Tipos
  BY DEF GeracaoInit, Tipos, Ficha, FotoVazia, Fases, Linhas
<1>2. \A g \in Geracoes : FotoAntiga(g) /\ ~Gravada(g) /\ linha[g] = Nenhuma
  BY DEF GeracaoInit, FotoAntiga, FotoVazia, Gravada, Linhas
<1>3. \A g \in Geracoes : geracao[g].fase # "ARMAZENADA"
  BY <1>2 DEF Gravada
<1>4. QED
  BY <1>1, <1>2, <1>3 DEF GeracaoInit, IInv, CatalogoDoInventario, GeracaoRastreada,
     Adiantou, Rastro, Nenhuma

(* A step that leaves the catalogue alone and only moves one generation    *)
(* on, without letting it commit. *)
LEMMA PassoDeFase ==
  ASSUME IInv, NEW g \in Geracoes, NEW f \in Fases, Fase(g, f),
         f \in {"GRAVADA", "ARMAZENADA", "FEITA"} => Gravada(g),
         unidadeItem' = unidadeItem, versao' = versao, pedida' = pedida,
         linha' = [h \in Geracoes |-> linha'[h]],
         \A h \in Geracoes \ {g} : linha'[h] = linha[h],
         arquivos \subseteq arquivos', arquivos' \subseteq arquivos \cup {g},
         g \in arquivos' => Gravada(g)',
         Gravada(g)' => linha'[g] # Nenhuma,
         linha'[g] = "GERADO" \/ f = "ARMAZENADA" => g \in arquivos'
  PROVE  IInv'
<1>1. /\ geracao' = [h \in Geracoes |-> geracao'[h]]
      /\ \A h \in Geracoes \ {g} : geracao'[h] = geracao[h]
      /\ geracao'[g] = [fase |-> f, mes |-> geracao[g].mes, foto |-> geracao[g].foto]
  BY DEF IInv, Tipos, Ficha, Fase
<1>2. Tipos'
  <2>1. ASSUME NEW h \in Geracoes PROVE Ficha(h)'
    BY <1>1 DEF IInv, Tipos, Ficha
  <2>2. QED
    BY <1>1, <2>1 DEF IInv, Tipos
<1>3. \A h \in Geracoes : /\ geracao'[h].foto = geracao[h].foto
                          /\ Gravada(h)' => Gravada(h) \/ (h = g /\ Gravada(g))
  BY <1>1 DEF Gravada
<1>4. \A h \in Geracoes : FotoAntiga(h)' /\ Adiantou(h)'
  BY <1>3 DEF IInv, FotoAntiga, Adiantou
<1>5. ASSUME NEW h \in Geracoes PROVE Rastro(h)'
  <2>1. CASE h = g
    BY <1>1, <2>1 DEF Rastro
  <2>2. CASE h # g
    BY <1>1, <2>2 DEF IInv, Rastro, Gravada
  <2>3. QED
    BY <2>1, <2>2
<1>6. GeracaoRastreada'
  BY <1>3, <1>5 DEF IInv, GeracaoRastreada, Rastro
<1>7. CatalogoDoInventario'
  BY DEF IInv, CatalogoDoInventario
<1>8. QED
  BY <1>2, <1>4, <1>5, <1>6, <1>7 DEF IInv

-----------------------------------------------------------------------------
LEMMA EditarIInv ==
  ASSUME IInv, NEW d \in Datas, NEW s, NEW I \in SUBSET Itens, NEW ls \in [I -> Unidades],
         EditarInventario(d, s, ls)
  PROVE  IInv'
<1> USE DEF IInv, EditarInventario
<1>1. /\ unidadeItem' = ComUnidades(unidadeItem, ls)
      /\ pedida' = ComUnidades(pedida, ls)
      /\ UNCHANGED <<geracao, linha, arquivos>>
  OBVIOUS
<1>2. \A r \in Linhas : /\ versao'[r] = versao[r] \/ versao'[r] = versao[r] + 1
                        /\ r \in I => versao'[r] = versao[r] + 1
                        /\ versao[r] \in Nat
  BY DEF Tipos, Nomeadas
<1>3. versao' \in [Linhas -> Nat]
  BY <1>2 DEF Tipos
<1>4. Tipos'
  BY <1>1, <1>3 DEF Tipos, Ficha, ComUnidades
<1>5. CatalogoDoInventario'
  BY <1>1 DEF CatalogoDoInventario, ComUnidades
<1>6. ASSUME NEW g \in Geracoes PROVE FotoAntiga(g)' /\ Adiantou(g)' /\ Rastro(g)'
  <2>1. /\ geracao[g].foto.versao \in [Linhas -> Nat]
        /\ FotoAntiga(g) /\ Adiantou(g) /\ Rastro(g)
    BY DEF Tipos, Ficha
  <2>2. \A r \in Linhas : geracao[g].foto.versao[r] <= versao'[r]
    BY <1>2, <2>1 DEF FotoAntiga
  <2>3. ASSUME NEW i \in Itens, geracao[g].foto.versao[i] = versao'[i]
        PROVE  geracao[g].foto.unidadeItem[i] = unidadeItem'[i]
    <3>1. i \in Linhas
      BY DEF Linhas
    <3>2. versao'[i] = versao[i] /\ i \notin I
      BY <1>2, <2>1, <2>3, <3>1 DEF FotoAntiga
    <3>3. QED
      BY <1>1, <2>1, <2>3, <3>2 DEF FotoAntiga, ComUnidades
  <2>4. FotoAntiga(g)'
    BY <1>1, <2>2, <2>3 DEF FotoAntiga
  <2>5. Adiantou(g)'
    <3>1. SUFFICES ASSUME Gravada(g), NEW o \in Outros
                   PROVE  geracao[g].foto.versao[o] < versao'[o]
      BY <1>1 DEF Adiantou, Gravada
    <3>2. o \in Linhas /\ geracao[g].foto.versao[o] \in Nat
      BY <2>1 DEF Linhas
    <3>3. geracao[g].foto.versao[o] < versao[o]
      BY <2>1, <3>1 DEF Adiantou
    <3>4. QED
      BY <1>2, <3>2, <3>3
  <2>6. Rastro(g)'
    BY <1>1, <2>1 DEF Rastro, Gravada
  <2>7. QED
    BY <2>4, <2>5, <2>6
<1>7. GeracaoRastreada'
  BY <1>1 DEF GeracaoRastreada, Gravada
<1>8. QED
  BY <1>1, <1>4, <1>5, <1>6, <1>7

(* The snapshot of a transaction that begins is the catalogue itself. *)
LEMMA IniciarIInv ==
  ASSUME IInv, NEW g \in Geracoes, NEW c \in Competencias, Iniciar(g, c)
  PROVE  IInv'
<1>1. /\ geracao[g].fase = "PARADA"
      /\ geracao' = [geracao EXCEPT ![g] = [fase |-> "ESPERA", mes |-> c, foto |-> Foto]]
      /\ UNCHANGED <<unidadeItem, versao, pedida, linha, arquivos>>
  BY DEF Iniciar, todas
<1>2. /\ geracao' = [h \in Geracoes |-> geracao'[h]]
      /\ \A h \in Geracoes \ {g} : geracao'[h] = geracao[h]
      /\ geracao'[g] = [fase |-> "ESPERA", mes |-> c, foto |-> Foto]
  BY <1>1 DEF IInv, Tipos
<1>3. Foto.versao = versao /\ Foto.unidadeItem = unidadeItem
  BY DEF Foto
<1>4. Tipos'
  <2>1. ASSUME NEW h \in Geracoes PROVE Ficha(h)'
    BY <1>1, <1>2, <1>3 DEF IInv, Tipos, Ficha, Fases
  <2>2. QED
    BY <1>1, <1>2, <2>1 DEF IInv, Tipos
<1>5. \A h \in Geracoes : Gravada(h)' => Gravada(h) /\ h # g
  BY <1>2 DEF Gravada
<1>6. ASSUME NEW h \in Geracoes PROVE FotoAntiga(h)' /\ Adiantou(h)' /\ Rastro(h)'
  <2>1. CASE h = g
    <3>1. FotoAntiga(h)'
      <4>1. \A r \in Linhas : versao[r] <= versao[r]
        BY DEF IInv, Tipos
      <4>2. QED
        BY <1>1, <1>2, <1>3, <2>1, <4>1 DEF FotoAntiga
    <3>2. ~Gravada(h)' /\ ~Gravada(h)
      BY <1>1, <1>2, <2>1 DEF Gravada
    <3>3. geracao'[h].fase # "ARMAZENADA"
      BY <1>2, <2>1
    <3>4. QED
      BY <1>1, <3>1, <3>2, <3>3 DEF IInv, Rastro, Adiantou
  <2>2. CASE h # g
    BY <1>1, <1>2, <2>2 DEF IInv, FotoAntiga, Adiantou, Rastro, Gravada
  <2>3. QED
    BY <2>1, <2>2
<1>7. GeracaoRastreada'
  BY <1>1, <1>2, <1>5, <1>6 DEF IInv, GeracaoRastreada, Rastro
<1>8. CatalogoDoInventario'
  BY <1>1 DEF IInv, CatalogoDoInventario
<1>9. QED
  BY <1>1, <1>4, <1>6, <1>7, <1>8 DEF IInv

(* Every row a generation writes is as its snapshot showed it. *)
LEMMA GravarIInv ==
  ASSUME IInv, NEW g \in Geracoes, Gravar(g)
  PROVE  IInv'
<1>1. /\ geracao[g].fase = "PREPARADA" /\ ~Conflito(g)
      /\ unidadeItem' = [i \in Itens |->
                           IF i \in Escritas(g) THEN geracao[g].foto.unidadeItem[i]
                           ELSE unidadeItem[i]]
      /\ versao' = [r \in Linhas |->
                      IF r \in Escritas(g) THEN versao[r] + 1 ELSE versao[r]]
      /\ linha' = [linha EXCEPT ![g] = "PROCESSANDO"]
      /\ Fase(g, "GRAVADA")
      /\ pedida' = pedida /\ arquivos' = arquivos
  BY DEF Gravar
<1>2. /\ geracao' = [h \in Geracoes |-> geracao'[h]]
      /\ \A h \in Geracoes \ {g} : geracao'[h] = geracao[h] /\ linha'[h] = linha[h]
      /\ geracao'[g] = [fase |-> "GRAVADA", mes |-> geracao[g].mes,
                        foto |-> geracao[g].foto]
      /\ linha' = [h \in Geracoes |-> linha'[h]] /\ linha'[g] = "PROCESSANDO"
  <2>1. geracao' = [geracao EXCEPT ![g] = [@ EXCEPT !.fase = "GRAVADA"]]
    BY <1>1 DEF Fase
  <2>2. Ficha(g) /\ geracao = [h \in Geracoes |-> geracao[h]]
        /\ linha = [h \in Geracoes |-> linha[h]]
    BY DEF IInv, Tipos
  <2>3. geracao'[g] = [fase |-> "GRAVADA", mes |-> geracao[g].mes,
                       foto |-> geracao[g].foto]
    BY <2>1, <2>2 DEF Ficha
  <2>4. QED
    BY <1>1, <2>1, <2>2, <2>3
<1>3. unidadeItem' = unidadeItem
  <2>1. ASSUME NEW i \in Itens, i \in Escritas(g)
        PROVE  geracao[g].foto.unidadeItem[i] = unidadeItem[i]
    BY <1>1, <2>1 DEF IInv, FotoAntiga, Conflito
  <2>2. unidadeItem' = [i \in Itens |-> unidadeItem[i]]
    BY <1>1, <2>1
  <2>3. QED
    BY <2>2 DEF IInv, Tipos
<1>4. /\ \A r \in Linhas : /\ versao[r] <= versao'[r]
                            /\ versao'[r] \in Nat /\ versao[r] \in Nat
      /\ \A r \in Linhas : versao'[r] # versao[r] => versao[r] < versao'[r]
      /\ \A o \in Outros : o \in Linhas /\ versao[o] < versao'[o]
  BY <1>1 DEF IInv, Tipos, Escritas, Linhas
<1>5. Tipos'
  <2>1. versao' \in [Linhas -> Nat]
    BY <1>1, <1>4
  <2>2. ASSUME NEW h \in Geracoes PROVE Ficha(h)'
    BY <1>2 DEF IInv, Tipos, Ficha, Fases
  <2>3. QED
    BY <1>1, <1>2, <1>3, <2>1, <2>2 DEF IInv, Tipos
<1>6. ASSUME NEW h \in Geracoes PROVE FotoAntiga(h)' /\ Adiantou(h)' /\ Rastro(h)'
  <2>1. /\ geracao'[h].foto = geracao[h].foto
        /\ geracao[h].foto.versao \in [Linhas -> Nat]
        /\ FotoAntiga(h) /\ Adiantou(h) /\ Rastro(h)
    BY <1>2 DEF IInv, Tipos, Ficha
  <2>2. \A r \in Linhas : geracao[h].foto.versao[r] <= versao'[r]
    BY <1>4, <2>1 DEF FotoAntiga
  <2>3. \A i \in Itens : geracao[h].foto.versao[i] = versao'[i] => versao'[i] = versao[i]
    BY <1>4, <2>1 DEF FotoAntiga, Linhas
  <2>4. FotoAntiga(h)'
    BY <1>3, <2>1, <2>2, <2>3 DEF FotoAntiga
  <2>5. \A o \in Outros : geracao[h].foto.versao[o] < versao'[o]
    BY <1>4, <2>1 DEF FotoAntiga
  <2>6. Adiantou(h)'
    BY <2>1, <2>5 DEF Adiantou
  <2>7. Rastro(h)'
    <3>1. CASE h = g
      BY <1>1, <1>2, <2>1, <3>1 DEF Rastro, Gravada, Nenhuma
    <3>2. CASE h # g
      BY <1>1, <1>2, <2>1, <3>2 DEF Rastro, Gravada
    <3>3. QED
      BY <3>1, <3>2
  <2>8. QED
    BY <2>4, <2>6, <2>7
<1>7. GeracaoRastreada'
  <2>1. ASSUME NEW h \in Geracoes, NEW k \in Geracoes, h # k, Gravada(h)', Gravada(k)',
               NEW o \in Outros
        PROVE  geracao'[h].foto.versao[o] # geracao'[k].foto.versao[o]
    <3>1. /\ geracao'[h].foto = geracao[h].foto /\ geracao'[k].foto = geracao[k].foto
          /\ Gravada(h) \/ h = g
          /\ Gravada(k) \/ k = g
      BY <1>2, <2>1 DEF Gravada
    <3>2. o \in Escritas(g) /\ geracao[g].foto.versao[o] = versao[o]
      BY <1>1 DEF Escritas, Conflito
    <3>3. \A x \in Geracoes : /\ geracao[x].foto.versao[o] \in Nat
                              /\ Gravada(x) => geracao[x].foto.versao[o] < versao[o]
      BY DEF IInv, Tipos, Ficha, Adiantou, Linhas
    <3>4. CASE h = g
      BY <2>1, <3>1, <3>2, <3>3, <3>4
    <3>5. CASE k = g
      BY <2>1, <3>1, <3>2, <3>3, <3>5
    <3>6. CASE h # g /\ k # g
      BY <2>1, <3>1, <3>6 DEF IInv, GeracaoRastreada
    <3>7. QED
      BY <3>4, <3>5, <3>6
  <2>2. QED
    BY <1>1, <1>6, <2>1 DEF IInv, GeracaoRastreada, Rastro
<1>8. CatalogoDoInventario'
  BY <1>1, <1>3 DEF IInv, CatalogoDoInventario
<1>9. QED
  BY <1>1, <1>5, <1>6, <1>7, <1>8 DEF IInv

(* The other steps of a generation: it waits, stops, or works outside the  *)
(* transaction. *)
LEMMA OutrosPassosIInv ==
  ASSUME IInv, NEW g \in Geracoes,
         \/ Preparar(g) \/ Abortar(g) \/ Armazenar(g)
         \/ Registrar(g) \/ Falhar(g) \/ Interromper(g)
  PROVE  IInv'
<1>0. linha = [h \in Geracoes |-> linha[h]] /\ Rastro(g) /\ arquivos \subseteq Geracoes
      /\ geracao = [h \in Geracoes |-> geracao[h]]
      /\ geracao[g] = [fase |-> geracao[g].fase, mes |-> geracao[g].mes,
                       foto |-> geracao[g].foto]
  BY DEF IInv, Tipos, Ficha
<1>f. ASSUME NEW f \in Fases, Fase(g, f)
      PROVE  geracao'[g].fase = f
  BY <1>0, <1>f DEF Fase
<1>1. CASE Preparar(g)
  <2>1. PICK f \in {"RECUSADA", "PREPARADA"} : Fase(g, f)
    BY <1>1 DEF Preparar
  <2>2. /\ geracao[g].fase = "ESPERA"
        /\ UNCHANGED <<unidadeItem, versao, pedida, linha, arquivos>>
    BY <1>1 DEF Preparar, todas
  <2>3. geracao'[g].fase = f /\ f \in Fases
    BY <1>f, <2>1 DEF Fases
  <2>4. g \notin arquivos /\ linha[g] # "GERADO"
    BY <1>0, <2>2 DEF Rastro, Gravada
  <2>5. QED
    BY <1>0, <2>1, <2>2, <2>3, <2>4, PassoDeFase DEF Gravada
<1>2. CASE Abortar(g)
  <2>1. /\ Fase(g, "ABORTADA") /\ geracao[g].fase \in {"ESPERA", "PREPARADA"}
        /\ UNCHANGED <<unidadeItem, versao, pedida, linha, arquivos>>
    BY <1>2 DEF Abortar, todas
  <2>2. geracao'[g].fase = "ABORTADA" /\ "ABORTADA" \in Fases
    BY <1>f, <2>1 DEF Fases
  <2>3. g \notin arquivos /\ linha[g] # "GERADO"
    BY <1>0, <2>1 DEF Rastro, Gravada
  <2>4. QED
    BY <1>0, <2>1, <2>2, <2>3, PassoDeFase DEF Gravada
<1>3. CASE Armazenar(g)
  <2>1. /\ Fase(g, "ARMAZENADA") /\ geracao[g].fase = "GRAVADA"
        /\ arquivos' = arquivos \cup {g}
        /\ UNCHANGED <<unidadeItem, versao, pedida, linha>>
    BY <1>3 DEF Armazenar, todas
  <2>2. geracao'[g].fase = "ARMAZENADA" /\ "ARMAZENADA" \in Fases
    BY <1>f, <2>1 DEF Fases
  <2>3. QED
    BY <1>0, <2>1, <2>2, PassoDeFase DEF Gravada, Rastro
<1>4. CASE Registrar(g) \/ Falhar(g) \/ Interromper(g)
  <2>1. /\ Fase(g, "FEITA") /\ geracao[g].fase \in {"GRAVADA", "ARMAZENADA"}
        /\ UNCHANGED <<unidadeItem, versao, pedida, arquivos>>
        /\ \/ linha' = [linha EXCEPT ![g] = "GERADO"] /\ geracao[g].fase = "ARMAZENADA"
           \/ linha' = [linha EXCEPT ![g] = "FALHOU"]
           \/ linha' = linha
    BY <1>4 DEF Registrar, Falhar, Interromper, todas
  <2>2. geracao'[g].fase = "FEITA" /\ "FEITA" \in Fases
    BY <1>f, <2>1 DEF Fases
  <2>3. /\ linha' = [h \in Geracoes |-> linha'[h]]
        /\ \A h \in Geracoes \ {g} : linha'[h] = linha[h]
        /\ linha'[g] # Nenhuma
        /\ linha'[g] = "GERADO" => g \in arquivos
    BY <1>0, <2>1 DEF Rastro, Gravada, Nenhuma
  <2>4. QED
    BY <1>0, <2>1, <2>2, <2>3, PassoDeFase DEF Gravada
<1>5. QED
  BY <1>1, <1>2, <1>3, <1>4

LEMMA PassoIInv == IInv /\ [GeracaoNext]_geracaoVars => IInv'
<1> SUFFICES ASSUME IInv, [GeracaoNext]_geracaoVars PROVE IInv'
  OBVIOUS
<1>1. CASE \E d \in Datas, s \in {"RASCUNHO", "FECHADO"} :
             \E I \in SUBSET Itens : \E ls \in [I -> Unidades] : EditarInventario(d, s, ls)
  BY <1>1, EditarIInv
<1>2. ASSUME NEW g \in Geracoes, NEW c \in Competencias, Iniciar(g, c) PROVE IInv'
  BY <1>2, IniciarIInv
<1>3. ASSUME NEW g \in Geracoes, Gravar(g) PROVE IInv'
  BY <1>3, GravarIInv
<1>4. ASSUME NEW g \in Geracoes,
             \/ Preparar(g) \/ Abortar(g) \/ Armazenar(g)
             \/ Registrar(g) \/ Falhar(g) \/ Interromper(g)
      PROVE  IInv'
  BY <1>4, OutrosPassosIInv
<1>5. CASE UNCHANGED geracaoVars
  BY <1>5 DEF geracaoVars, IInv, Tipos, Ficha, CatalogoDoInventario, GeracaoRastreada,
     FotoAntiga, Adiantou, Rastro, Gravada
<1>6. QED
  BY <1>1, <1>2, <1>3, <1>4, <1>5 DEF GeracaoNext

THEOREM InvarianteDaGeracao == GeracaoSpec => []IInv
<1>1. QED
  BY InicioIInv, PassoIInv, PTL DEF GeracaoSpec

(* gerar: no generation, whatever its snapshot and however long it waited  *)
(* for its month, undoes an edition of the units of the catalogue. *)
THEOREM CatalogoPreservado == GeracaoSpec => []CatalogoDoInventario
<1>1. IInv => CatalogoDoInventario
  BY DEF IInv
<1>2. QED
  BY <1>1, InvarianteDaGeracao, PTL

(* gerar, marcarFalha: rows, files and snapshots of the generations agree, *)
(* and of two that committed one saw what the other had written. *)
THEOREM GeracoesRastreadas == GeracaoSpec => []GeracaoRastreada
<1>1. IInv => GeracaoRastreada
  BY DEF IInv
<1>2. QED
  BY <1>1, InvarianteDaGeracao, PTL

-----------------------------------------------------------------------------
(* The preparation: where the loop stands. *)

DocsDe(e) == {e.documentos[i] : i \in DOMAIN e.documentos}
ItensDe(d) == {d.itens[k] : k \in DOMAIN d.itens}

Ausente(d) == d.tipo = "CTE" /\ d.cte = "AUSENTE"
SemParte(d) == D!ExigeParticipante(d) /\ ~D!TemParticipante(d)

(* The documents that the file takes. *)
Entra(d) == D!Livre(d) /\ ~Ausente(d) /\ ~SemParte(d)

Pronto == {"DOCUMENTOS", "MONTAGEM", "PRONTA"}

Resto(docs, f) ==
    /\ f \in Seq({docs[i] : i \in DOMAIN docs}) /\ Len(f) <= Len(docs)
    /\ \A i \in 1..Len(f) : f[i] = docs[Len(docs) - Len(f) + i]

FichaAberta(a) ==
    a \in [doc : {a.doc}, participante : {a.participante}, feitos : {a.feitos},
           restam : {a.restam}]

EmCurso ==
    /\ FichaAberta(atual) /\ atual.doc = Head(fila)
    /\ atual.restam \in Seq(ItensDe(atual.doc))
    /\ Entra(atual.doc) /\ atual.doc.tipo # "CTE"

LInv ==
    /\ entrada \in Entradas
    /\ Resto(entrada.documentos, fila)
    /\ D!EfdTypeOK
    /\ atual # <<>> => EmCurso
    /\ fase = "INICIO" => /\ atual = <<>> /\ participantes = <<>> /\ unidades = <<>>
                          /\ itensCatalogo = <<>> /\ nfe = {} /\ cte = {}
                          /\ excluded = 0 /\ inconsistencias = {}
    /\ fase = "RECUSADA" => /\ atual = <<>> /\ participantes = <<>> /\ unidades = <<>>
                            /\ itensCatalogo = <<>> /\ nfe = {} /\ cte = {}

(* The document at the head of what is left is the next of the month. *)
LEMMA Proximo ==
  ASSUME NEW docs, docs \in Seq({docs[i] : i \in DOMAIN docs}), NEW f, Resto(docs, f),
         f # <<>>
  PROVE  /\ Resto(docs, Tail(f)) /\ Len(Tail(f)) = Len(f) - 1 /\ Len(f) \in Nat \ {0}
         /\ Len(docs) \in Nat /\ Len(docs) - Len(f) + 1 \in DOMAIN docs
         /\ Head(f) = docs[Len(docs) - Len(f) + 1]
<1> DEFINE Z == {docs[i] : i \in DOMAIN docs}
<1>1. f \in Seq(Z) /\ Len(f) <= Len(docs)
  BY DEF Resto
<1>2. \A i \in 1..Len(f) : f[i] = docs[Len(docs) - Len(f) + i]
  BY DEF Resto
<1>3. docs \in Seq(Z)
  OBVIOUS
<1> HIDE DEF Z
<1>4. /\ Len(f) \in Nat \ {0} /\ Len(docs) \in Nat /\ DOMAIN docs = 1..Len(docs)
      /\ Head(f) = f[1] /\ Tail(f) \in Seq(Z) /\ Len(Tail(f)) = Len(f) - 1
  BY <1>1, <1>3
<1>5. \A i \in 1..Len(Tail(f)) : Tail(f)[i] = f[i + 1]
  BY <1>1, <1>4
<1>6. \A i \in 1..Len(Tail(f)) : Tail(f)[i] = docs[Len(docs) - Len(Tail(f)) + i]
  <2> SUFFICES ASSUME NEW i \in 1..Len(Tail(f))
               PROVE  Tail(f)[i] = docs[Len(docs) - Len(Tail(f)) + i]
    OBVIOUS
  <2>1. i + 1 \in 1..Len(f) /\ Len(docs) - Len(f) + (i + 1) = Len(docs) - Len(Tail(f)) + i
    BY <1>4
  <2> QED
    BY <1>2, <1>5, <2>1
<1>7. Head(f) = docs[Len(docs) - Len(f) + 1] /\ Len(docs) - Len(f) + 1 \in DOMAIN docs
  BY <1>1, <1>2, <1>4
<1> QED
  BY <1>1, <1>4, <1>6, <1>7 DEF Resto, Z

(* The month as a whole is what is left before the first document. *)
LEMMA TodoResto ==
  ASSUME NEW docs, docs \in Seq({docs[i] : i \in DOMAIN docs})
  PROVE  Resto(docs, docs) /\ Resto(docs, <<>>)
<1> DEFINE Z == {docs[i] : i \in DOMAIN docs}
<1>1. docs \in Seq(Z)
  OBVIOUS
<1> HIDE DEF Z
<1>2. Len(docs) \in Nat /\ <<>> \in Seq(Z) /\ Len(<<>>) = 0
  BY <1>1
<1>3. \A i \in 1..Len(docs) : docs[i] = docs[Len(docs) - Len(docs) + i]
  BY <1>2
<1> QED
  BY <1>1, <1>2, <1>3 DEF Resto, Z

(* What the schema says of the documents of a month. *)
LEMMA Documentos ==
  ASSUME D!EfdAssumption, entrada \in Entradas
  PROVE  /\ D!EntradaValida(entrada)
         /\ entrada.documentos \in
               Seq({entrada.documentos[i] : i \in DOMAIN entrada.documentos})
         /\ \A d \in DocsDe(entrada) : d.itens \in Seq(ItensDe(d))
<1>1. D!EntradaValida(entrada)
  BY DEF D!EfdAssumption
<1>2. entrada.documentos \in Seq({entrada.documentos[i] : i \in DOMAIN entrada.documentos})
  BY <1>1 DEF D!EntradaValida
<1>3. ASSUME NEW i \in DOMAIN entrada.documentos
      PROVE  entrada.documentos[i].itens \in Seq(ItensDe(entrada.documentos[i]))
  BY <1>1 DEF D!EntradaValida, ItensDe
<1> QED
  BY <1>1, <1>2, <1>3 DEF DocsDe

LEMMA InicioL ==
  ASSUME D!EfdAssumption, D!EfdInit
  PROVE  LInv
<1>1. /\ entrada \in Entradas /\ fase = "INICIO" /\ fila = <<>> /\ atual = <<>>
      /\ participantes = <<>> /\ unidades = <<>> /\ itensCatalogo = <<>>
      /\ nfe = {} /\ cte = {} /\ excluded = 0 /\ pending = 0 /\ inconsistencias = {}
  BY DEF D!EfdInit, D!SemCodigo
<1>2. Resto(entrada.documentos, fila)
  BY <1>1, Documentos, TodoResto
<1>3. D!EfdTypeOK
  BY <1>1 DEF D!EfdTypeOK, D!SemCodigo
<1> QED
  BY <1>1, <1>2, <1>3 DEF LInv

(* A step of the loop leaves the next document behind. *)
Avanca ==
    /\ fase = "DOCUMENTOS" /\ fila # <<>> /\ fila' = Tail(fila) /\ atual' = <<>>
    /\ UNCHANGED <<entrada, fase>>
    /\ \/ excluded' = excluded /\ pending' = pending
       \/ excluded' = excluded + 1 /\ pending' = pending
       \/ excluded' = excluded + 1 /\ pending' = pending + 1

LEMMA AvancaL ==
  ASSUME D!EfdAssumption, LInv, Avanca
  PROVE  LInv'
<1>1. /\ entrada' \in Entradas /\ entrada' = entrada /\ fase' = "DOCUMENTOS"
      /\ fila' = Tail(fila) /\ atual' = <<>>
  BY DEF LInv, Avanca
<1>2. Resto(entrada.documentos, Tail(fila))
  BY Documentos, Proximo DEF LInv, Avanca
<1>3. Resto(entrada.documentos, fila)'
  BY <1>1, <1>2
<1>4. {excluded, pending} \subseteq Nat /\ pending <= excluded
  BY DEF LInv, D!EfdTypeOK
<1>5. {excluded', pending'} \subseteq Nat /\ pending' <= excluded'
  BY <1>4 DEF Avanca
<1>6. D!EfdTypeOK'
  BY <1>1, <1>5 DEF D!EfdTypeOK, D!SemCodigo
<1> QED
  BY <1>1, <1>3, <1>6 DEF LInv

(* A step that neither reads nor opens a document. *)
LEMMA PassoL ==
  ASSUME D!EfdAssumption, LInv, D!EfdNext
  PROVE  LInv'
<1>1. /\ entrada \in Entradas /\ Resto(entrada.documentos, fila) /\ D!EfdTypeOK
      /\ {excluded, pending} \subseteq Nat /\ pending <= excluded
  BY DEF LInv, D!EfdTypeOK
<1>2. CASE D!Recusar
  BY <1>1, <1>2 DEF LInv, D!Recusar, D!EfdTypeOK, D!SemCodigo, D!catalogos
<1>3. CASE D!Abrir
  <2>1. /\ entrada' = entrada /\ fase' = "DOCUMENTOS" /\ fila' = entrada.documentos
        /\ atual = <<>> /\ atual' = <<>> /\ excluded' = excluded /\ pending' = pending
    BY <1>3 DEF D!Abrir, LInv
  <2>2. Resto(entrada.documentos, fila)'
    BY <1>1, <2>1, Documentos, TodoResto
  <2>3. D!EfdTypeOK'
    BY <1>1, <2>1 DEF D!EfdTypeOK, D!SemCodigo
  <2> QED
    BY <1>1, <2>1, <2>2, <2>3 DEF LInv
<1>4. CASE D!Denegado
  <2>1. Avanca
    BY <1>4 DEF D!Denegado, D!Lendo, D!SemCodigo, Avanca, D!catalogos
  <2> QED
    BY <2>1, AvancaL
<1>5. CASE D!DocumentoImpedido
  <2>1. Avanca
    BY <1>5 DEF D!DocumentoImpedido, D!Lendo, D!SemCodigo, Avanca, D!catalogos
  <2> QED
    BY <2>1, AvancaL
<1>6. CASE D!CteNaoEscriturado
  <2>1. Avanca
    BY <1>6 DEF D!CteNaoEscriturado, D!Lendo, D!SemCodigo, Avanca, D!catalogos
  <2> QED
    BY <2>1, AvancaL
<1>7. CASE D!SemParticipante
  <2>1. Avanca
    BY <1>7 DEF D!SemParticipante, D!EmEscrituracao, D!Lendo, D!SemCodigo, Avanca,
                D!catalogos
  <2> QED
    BY <2>1, AvancaL
<1>8. CASE D!EscriturarCte
  <2>1. Avanca
    BY <1>8 DEF D!EscriturarCte, D!EmEscrituracao, D!Lendo, D!SemCodigo, Avanca
  <2> QED
    BY <2>1, AvancaL
<1>9. CASE D!EscriturarNfe
  <2>1. /\ fase = "DOCUMENTOS" /\ fila # <<>>
        /\ Entra(Head(fila)) /\ Head(fila).tipo # "CTE"
        /\ atual' = [doc |-> Head(fila), participante |-> D!ParticipanteDe(Head(fila)),
                     feitos |-> {},
                     restam |-> IF D!Cancelado(Head(fila)) THEN <<>> ELSE Head(fila).itens]
        /\ entrada' = entrada /\ fase' = fase /\ fila' = fila
        /\ excluded' = excluded /\ pending' = pending
    BY <1>9 DEF D!EscriturarNfe, D!EmEscrituracao, D!Lendo, D!Doc, Entra, SemParte, Ausente
  <2> DEFINE a == [doc |-> Head(fila), participante |-> D!ParticipanteDe(Head(fila)),
                   feitos |-> {},
                   restam |-> IF D!Cancelado(Head(fila)) THEN <<>> ELSE Head(fila).itens]
  <2>2. /\ FichaAberta(a) /\ a.doc = Head(fila)
        /\ a.restam = <<>> \/ a.restam = Head(fila).itens
    BY DEF FichaAberta
  <2>3. Head(fila) \in DocsDe(entrada)
    BY <1>1, <2>1, Documentos, Proximo DEF DocsDe
  <2>4. Head(fila).itens \in Seq(ItensDe(Head(fila)))
    BY <1>1, <2>3, Documentos
  <2>5. a.restam \in Seq(ItensDe(a.doc))
    BY <2>2, <2>4
  <2>6. atual' = a
    BY <2>1
  <2> HIDE DEF a
  <2>7. EmCurso'
    BY <2>1, <2>2, <2>5, <2>6 DEF EmCurso
  <2>8. Resto(entrada.documentos, fila)'
    BY <1>1, <2>1
  <2>9. D!EfdTypeOK'
    BY <1>1, <2>1, <2>2, <2>6 DEF D!EfdTypeOK
  <2> QED
    BY <1>1, <2>1, <2>7, <2>8, <2>9 DEF LInv
<1>10. CASE D!PrepararItem
  <2>1. /\ atual # <<>> /\ atual.restam # <<>>
        /\ UNCHANGED <<entrada, fase, fila, excluded, pending>>
    BY <1>10 DEF D!PrepararItem, D!SemCodigo
  <2>2. PICK x : atual' = [atual EXCEPT !.restam = Tail(@), !.feitos = @ \cup {x}]
    BY <1>10 DEF D!PrepararItem
  <2>3. EmCurso /\ fase = "DOCUMENTOS" /\ fila # <<>>
    BY <2>1 DEF LInv, D!EfdTypeOK, D!SemCodigo
  <2> DEFINE a == [atual EXCEPT !.restam = Tail(@), !.feitos = @ \cup {x}]
  <2>4. /\ FichaAberta(a)
        /\ a.doc = atual.doc /\ a.doc = Head(fila) /\ a.restam = Tail(atual.restam)
    BY <2>3 DEF EmCurso, FichaAberta
  <2>5. atual.restam \in Seq(ItensDe(atual.doc))
    BY <2>3 DEF EmCurso
  <2>7. atual' = a
    BY <2>2
  <2> HIDE DEF a
  <2>6. a.restam \in Seq(ItensDe(a.doc))
    <3>1. \A Z : atual.restam \in Seq(Z) => Tail(atual.restam) \in Seq(Z)
      BY <2>1
    <3> QED
      BY <2>4, <2>5, <3>1
  <2>8. EmCurso'
    BY <2>1, <2>3, <2>4, <2>6, <2>7 DEF EmCurso
  <2>9. Resto(entrada.documentos, fila)'
    BY <1>1, <2>1
  <2>10. D!EfdTypeOK'
    BY <1>1, <2>1, <2>3, <2>4, <2>7 DEF D!EfdTypeOK
  <2> QED
    BY <1>1, <2>1, <2>3, <2>8, <2>9, <2>10 DEF LInv
<1>11. CASE D!FecharNfe
  <2>1. Avanca
    BY <1>1, <1>11 DEF D!FecharNfe, D!SemCodigo, Avanca, D!EfdTypeOK
  <2> QED
    BY <2>1, AvancaL
<1>12. CASE D!CarregarInventario
  <2>1. /\ fase = "DOCUMENTOS" /\ fase' = "MONTAGEM" /\ atual = <<>> /\ fila = <<>>
        /\ UNCHANGED <<entrada, fila, atual, excluded, pending>>
    BY <1>12 DEF D!CarregarInventario, D!SemCodigo
  <2> QED
    BY <1>1, <2>1 DEF LInv, D!EfdTypeOK, D!SemCodigo
<1>13. CASE D!Montar
  <2>1. /\ fase = "MONTAGEM" /\ fase' = "PRONTA"
        /\ UNCHANGED <<entrada, fila, atual, excluded, pending>>
    BY <1>13 DEF D!Montar
  <2>2. fila = <<>> /\ atual = <<>>
    BY <1>1, <2>1 DEF D!EfdTypeOK, D!SemCodigo
  <2> QED
    BY <1>1, <2>1, <2>2 DEF LInv, D!EfdTypeOK, D!SemCodigo
<1> QED
  BY <1>2, <1>3, <1>4, <1>5, <1>6, <1>7, <1>8, <1>9, <1>10, <1>11, <1>12, <1>13
     DEF D!EfdNext


-----------------------------------------------------------------------------
(* The preparation: the catalogues of block 0. *)

(* A code of unit is the unit itself or its normal form alone. *)
Grafias(us) == \A u \in DOMAIN us : D!Unidade(us[u]) /\ (u = us[u] \/ u = <<us[u][1]>>)

(* The registers that an item of an invoice refers to. *)
Declarado(r) ==
    /\ \E x \in DOMAIN itensCatalogo : r.item = <<"I", x>>
    /\ r.unidade \in DOMAIN unidades
    /\ fase = "DOCUMENTOS" => unidades[r.unidade] = r.grafia

(* Those that a line of the inventory refers to. *)
Contada(l) ==
    /\ l.cadastrada \in DOMAIN unidades
    /\ \E x \in DOMAIN itensCatalogo : D!CodigoProprio(l) = <<"I", x>>
    /\ l.participante # "" => /\ l.participante \in DOMAIN entrada.codigos
                              /\ l.participante \in DOMAIN participantes
    /\ l.unidade # l.cadastrada =>
          <<"INVENTARIO_UNIDADE_DIVERGENTE", l.produto>> \in inconsistencias

Codigos == \A p \in DOMAIN participantes : participantes[p] = D!CodigoParticipante(p)
Partes ==
    /\ \A n \in nfe \cup cte : n.participante \in {<<>>} \cup D!R0150
    /\ atual # <<>> => atual.participante \in {<<>>} \cup D!R0150
Registros ==
    \A x \in DOMAIN itensCatalogo :
       /\ itensCatalogo[x].codigo = <<"I", x>>
       /\ itensCatalogo[x].unidade \in DOMAIN unidades
       /\ itensCatalogo[x].conversoes \subseteq DOMAIN unidades
Declarados ==
    /\ \A n \in nfe : D!EmiteC170(n.doc) => \A r \in n.itens : Declarado(r)
    /\ atual # <<>> => (D!EmiteC170(atual.doc) => \A r \in atual.feitos : Declarado(r))

RInv ==
    /\ Codigos /\ Partes /\ Registros /\ Declarados
    /\ fase = "DOCUMENTOS" => Grafias(unidades)
    /\ fase \in {"MONTAGEM", "PRONTA"} => \A l \in D!Inventario : Contada(l)

(* A unit is registered under its code. *)
Nova(us, raw, c, vs) ==
    D!Unidade(raw) /\ c = D!CodigoUnidade(raw, us) /\ vs = D!ComUnidade(us, c, raw)

Feita(us, raw, c, vs) ==
    /\ Grafias(vs) /\ DOMAIN vs = DOMAIN us \cup {c} /\ vs[c] = raw
    /\ \A u \in DOMAIN us : vs[u] = us[u]

(* Registering a unit disturbs no unit registered before: two spellings    *)
(* never share a code. *)
LEMMA UnidadeNova ==
  ASSUME NEW us, NEW raw, NEW c, NEW vs, Grafias(us), Nova(us, raw, c, vs)
  PROVE  Feita(us, raw, c, vs)
<1> USE DEF Nova, Feita
<1>1. \A a, b, z : <<a, b>> # <<z>>
  OBVIOUS
<1>2. /\ c = raw \/ c = <<raw[1]>>
      /\ c = <<raw[1]>> /\ c \in DOMAIN us => us[c] = raw
  BY <1>1 DEF D!CodigoUnidade, D!Unidade
<1>3. ASSUME c = raw, c \in DOMAIN us PROVE us[c] = raw
  <2>1. c = us[c] \/ c = <<us[c][1]>>
    BY <1>3 DEF Grafias
  <2>2. c = <<raw[1], raw[2]>>
    BY <1>3 DEF D!Unidade
  <2> QED
    BY <1>1, <1>3, <2>1, <2>2
<1>4. c \in DOMAIN us => us[c] = raw
  BY <1>2, <1>3
<1>5. /\ DOMAIN vs = DOMAIN us \cup {c} /\ vs[c] = raw
      /\ \A u \in DOMAIN us : vs[u] = us[u]
  BY <1>4 DEF D!ComUnidade
<1>6. Grafias(vs)
  <2> SUFFICES ASSUME NEW u \in DOMAIN vs
               PROVE  D!Unidade(vs[u]) /\ (u = vs[u] \/ u = <<vs[u][1]>>)
    BY DEF Grafias
  <2>1. CASE u = c
    BY <1>2, <1>5, <2>1
  <2>2. CASE u # c
    BY <1>5, <2>2 DEF Grafias
  <2> QED
    BY <2>1, <2>2
<1> QED
  BY <1>5, <1>6

(* Nothing of the catalogues or of the blocks changes. *)
LEMMA Quieto ==
  ASSUME RInv, fase' = fase, entrada' = entrada, UNCHANGED D!catalogos,
         UNCHANGED <<nfe, cte, atual>>, inconsistencias \subseteq inconsistencias'
  PROVE  RInv'
<1>1. /\ participantes' = participantes /\ unidades' = unidades
      /\ itensCatalogo' = itensCatalogo /\ nfe' = nfe /\ cte' = cte /\ atual' = atual
  BY DEF D!catalogos
<1>2. Codigos' /\ Partes' /\ Registros'
  BY <1>1 DEF RInv, Codigos, Partes, Registros, D!CodigoParticipante, D!R0150
<1>3. \A r : Declarado(r) => Declarado(r)'
  BY <1>1 DEF Declarado
<1>4. Declarados'
  BY <1>1, <1>3 DEF RInv, Declarados, D!EmiteC170
<1>5. \A l : Contada(l) => Contada(l)'
  BY <1>1 DEF Contada, D!CodigoProprio
<1>6. D!Inventario' = D!Inventario
  BY DEF D!Inventario
<1> QED
  BY <1>1, <1>2, <1>4, <1>5, <1>6 DEF RInv, Grafias

(* The party of a document gets its register. *)
LEMMA ParteNova ==
  ASSUME Codigos, Partes, NEW d, participantes' = D!ParticipantesCom(d), entrada' = entrada
  PROVE  /\ Codigos' /\ D!R0150 \subseteq D!R0150'
         /\ D!ParticipanteDe(d) \in {<<>>} \cup D!R0150'
<1>1. \A p : D!CodigoParticipante(p)' = D!CodigoParticipante(p)
  BY DEF D!CodigoParticipante
<1>2. /\ DOMAIN participantes' = DOMAIN participantes
                                   \cup (IF D!TemParticipante(d) THEN {d.outro} ELSE {})
      /\ \A p \in DOMAIN participantes : participantes'[p] = participantes[p]
      /\ \A p \in DOMAIN participantes' :
            p \notin DOMAIN participantes => participantes'[p] = D!CodigoParticipante(p)
  BY DEF D!ParticipantesCom
<1>3. Codigos'
  BY <1>1, <1>2 DEF Codigos
<1>4. D!R0150 \subseteq D!R0150'
  BY <1>2 DEF D!R0150
<1>5. D!ParticipanteDe(d) \in {<<>>} \cup D!R0150'
  <2>1. CASE ~D!TemParticipante(d)
    BY <2>1 DEF D!ParticipanteDe, D!SemCodigo
  <2>2. CASE D!TemParticipante(d)
    <3>1. d.outro \in DOMAIN participantes' /\ D!ParticipanteDe(d) = participantes'[d.outro]
      BY <1>2, <2>2 DEF D!ParticipanteDe
    <3> QED
      BY <3>1 DEF D!R0150
  <2> QED
    BY <2>1, <2>2
<1> QED
  BY <1>3, <1>4, <1>5


LEMMA InicioR ==
  ASSUME D!EfdInit
  PROVE  RInv
<1>1. /\ fase = "INICIO" /\ atual = <<>> /\ participantes = <<>> /\ itensCatalogo = <<>>
      /\ nfe = {} /\ cte = {}
  BY DEF D!EfdInit, D!SemCodigo
<1>2. DOMAIN participantes = {} /\ DOMAIN itensCatalogo = {}
  BY <1>1
<1> QED
  BY <1>1, <1>2 DEF RInv, Codigos, Partes, Registros, Declarados

LEMMA AbrirR ==
  ASSUME LInv, RInv, D!Abrir
  PROVE  RInv'
<1>1. /\ fase = "INICIO" /\ fase' = "DOCUMENTOS" /\ entrada' = entrada
      /\ UNCHANGED <<participantes, unidades, itensCatalogo, atual, nfe, cte>>
  BY DEF D!Abrir, D!catalogos
<1>2. /\ atual = <<>> /\ participantes = <<>> /\ unidades = <<>> /\ itensCatalogo = <<>>
      /\ nfe = {} /\ cte = {}
  BY <1>1 DEF LInv
<1>3. DOMAIN participantes = {} /\ DOMAIN itensCatalogo = {} /\ DOMAIN unidades = {}
  BY <1>2
<1> QED
  BY <1>1, <1>2, <1>3 DEF RInv, Codigos, Partes, Registros, Declarados, Grafias

(* EscriturarCte, EscriturarNfe: a document opens. *)
LEMMA EscriturarR ==
  ASSUME LInv, RInv, D!EscriturarCte \/ D!EscriturarNfe
  PROVE  RInv'
<1> DEFINE d == D!Doc
<1>1. /\ entrada' = entrada /\ fase' = fase /\ unidades' = unidades
      /\ itensCatalogo' = itensCatalogo /\ nfe' = nfe /\ fase = "DOCUMENTOS"
      /\ participantes' = D!ParticipantesCom(d) /\ atual = <<>>
      /\ \/ /\ cte' = cte \cup {[doc |-> d, participante |-> D!ParticipanteDe(d)]}
            /\ atual' = atual
         \/ /\ cte' = cte
            /\ atual' = [doc |-> d, participante |-> D!ParticipanteDe(d), feitos |-> {},
                         restam |-> IF D!Cancelado(d) THEN <<>> ELSE d.itens]
  BY DEF D!EscriturarCte, D!EscriturarNfe, D!EmEscrituracao, D!Lendo, D!SemCodigo
<1> HIDE DEF d
<1>2. /\ Codigos' /\ D!R0150 \subseteq D!R0150'
      /\ D!ParticipanteDe(d) \in {<<>>} \cup D!R0150'
  BY <1>1, ParteNova DEF RInv
<1>3. /\ \A n \in cte' : n \in cte \/ n.participante = D!ParticipanteDe(d)
      /\ atual' # <<>> => atual'.participante = D!ParticipanteDe(d) /\ atual'.feitos = {}
  BY <1>1
<1>4. Partes'
  BY <1>1, <1>2, <1>3 DEF Partes, RInv
<1>5. Registros'
  BY <1>1 DEF Registros, RInv
<1>6. \A r : Declarado(r) => Declarado(r)'
  BY <1>1 DEF Declarado
<1>7. Declarados'
  BY <1>1, <1>3, <1>6 DEF Declarados, RInv, D!EmiteC170
<1> QED
  BY <1>1, <1>2, <1>4, <1>5, <1>7 DEF RInv, Grafias

(* prepareItem: the unit of the item, the item itself and its unit for tax *)
(* reach the catalogues before the invoice refers to them. *)
LEMMA PrepararItemR ==
  ASSUME D!EfdAssumption, LInv, RInv, D!PrepararItem
  PROVE  RInv'
<1> DEFINE i == Head(atual.restam)
           declara == D!DeclaraCatalogo(atual.doc)
           codigo == D!CodigoUnidade(i.unidade, unidades)
           comerciais == IF declara THEN D!ComUnidade(unidades, codigo, i.unidade)
                         ELSE unidades
           identidade == <<D!Origem(atual), i.produto>>
           novo == ~declara \/ identidade \notin DOMAIN itensCatalogo
           tributavel == D!CodigoUnidade(i.tributavel, comerciais)
           registro == [codigo |-> <<"I", identidade>>, unidade |-> codigo,
                        conversoes |-> IF D!Converte(i) THEN {tributavel} ELSE {}]
           feito == [item |-> <<"I", identidade>>, unidade |-> codigo,
                     grafia |-> i.unidade]
<1>1. /\ atual # <<>> /\ atual.restam # <<>>
      /\ unidades' = IF novo /\ D!Converte(i)
                     THEN D!ComUnidade(comerciais, tributavel, i.tributavel)
                     ELSE comerciais
      /\ itensCatalogo' = [x \in DOMAIN itensCatalogo \cup
                                   (IF declara THEN {identidade} ELSE {}) |->
                             IF x \in DOMAIN itensCatalogo THEN itensCatalogo[x]
                             ELSE registro]
      /\ atual' = [atual EXCEPT !.restam = Tail(@), !.feitos = @ \cup {feito}]
      /\ UNCHANGED <<entrada, fase, fila, participantes, nfe, cte>>
  BY DEF D!PrepararItem, D!SemCodigo
<1>2. /\ EmCurso /\ fase = "DOCUMENTOS" /\ entrada \in Entradas /\ fila # <<>>
      /\ Resto(entrada.documentos, fila)
  BY <1>1 DEF LInv, D!EfdTypeOK, D!SemCodigo
<1>3. D!Unidade(i.unidade) /\ (i.tributavel # <<>> => D!Unidade(i.tributavel))
  <2>1. atual.doc \in DocsDe(entrada)
    BY <1>2, Documentos, Proximo DEF EmCurso, DocsDe
  <2>2. atual.restam \in Seq(ItensDe(atual.doc))
    BY <1>2 DEF EmCurso, ItensDe
  <2>3. i \in ItensDe(atual.doc)
    <3>1. \A Z : atual.restam \in Seq(Z) => Head(atual.restam) \in Z
      BY <1>1
    <3> QED
      BY <2>2, <3>1
  <2>4. PICK n \in DOMAIN entrada.documentos : atual.doc = entrada.documentos[n]
    BY <2>1 DEF DocsDe
  <2>5. PICK k \in DOMAIN atual.doc.itens : i = atual.doc.itens[k]
    BY <2>3 DEF ItensDe
  <2>6. D!EntradaValida(entrada)
    BY <1>2 DEF D!EfdAssumption
  <2> HIDE DEF i
  <2> QED
    BY <2>4, <2>5, <2>6 DEF D!EntradaValida, D!SemCodigo
<1> HIDE DEF i, feito
<1>4. /\ Grafias(comerciais) /\ DOMAIN unidades \subseteq DOMAIN comerciais
      /\ \A u \in DOMAIN unidades : comerciais[u] = unidades[u]
      /\ declara => codigo \in DOMAIN comerciais /\ comerciais[codigo] = i.unidade
  <2>1. Grafias(unidades)
    BY <1>2 DEF RInv
  <2>2. CASE declara
    <3>1. Nova(unidades, i.unidade, codigo, comerciais)
      BY <1>3, <2>2 DEF Nova
    <3> HIDE DEF codigo, comerciais
    <3>2. Feita(unidades, i.unidade, codigo, comerciais)
      BY <2>1, <3>1, UnidadeNova
    <3> QED
      BY <3>2 DEF Feita
  <2>3. CASE ~declara
    BY <2>1, <2>3
  <2> QED
    BY <2>2, <2>3
<1> HIDE DEF comerciais, codigo
<1>5. /\ Grafias(unidades') /\ DOMAIN comerciais \subseteq DOMAIN unidades'
      /\ \A u \in DOMAIN comerciais : unidades'[u] = comerciais[u]
      /\ novo /\ D!Converte(i) => tributavel \in DOMAIN unidades'
  <2>1. CASE novo /\ D!Converte(i)
    <3>1. D!Unidade(i.tributavel)
      BY <1>3, <2>1 DEF D!Converte, D!SemCodigo
    <3>2. Nova(comerciais, i.tributavel, tributavel, unidades')
      BY <1>1, <2>1, <3>1 DEF Nova
    <3> HIDE DEF tributavel
    <3>3. Feita(comerciais, i.tributavel, tributavel, unidades')
      BY <1>4, <3>2, UnidadeNova
    <3> QED
      BY <2>1, <3>3 DEF Feita
  <2>2. CASE ~(novo /\ D!Converte(i))
    BY <1>1, <1>4, <2>2
  <2> QED
    BY <2>1, <2>2
<1> HIDE DEF tributavel
<1>6. /\ DOMAIN unidades \subseteq DOMAIN unidades'
      /\ \A u \in DOMAIN unidades : unidades'[u] = unidades[u]
      /\ declara => codigo \in DOMAIN unidades' /\ unidades'[codigo] = i.unidade
  BY <1>4, <1>5
<1>7. /\ DOMAIN itensCatalogo \subseteq DOMAIN itensCatalogo'
      /\ declara => identidade \in DOMAIN itensCatalogo'
      /\ \A x \in DOMAIN itensCatalogo' :
            \/ x \in DOMAIN itensCatalogo /\ itensCatalogo'[x] = itensCatalogo[x]
            \/ declara /\ novo /\ x = identidade /\ itensCatalogo'[x] = registro
  BY <1>1
<1>8. Registros'
  <2> SUFFICES ASSUME NEW x \in DOMAIN itensCatalogo'
               PROVE  /\ itensCatalogo'[x].codigo = <<"I", x>>
                      /\ itensCatalogo'[x].unidade \in DOMAIN unidades'
                      /\ itensCatalogo'[x].conversoes \subseteq DOMAIN unidades'
    BY DEF Registros
  <2>1. CASE x \in DOMAIN itensCatalogo /\ itensCatalogo'[x] = itensCatalogo[x]
    BY <1>6, <2>1 DEF RInv, Registros
  <2>2. CASE declara /\ novo /\ x = identidade /\ itensCatalogo'[x] = registro
    BY <1>5, <1>6, <2>2
  <2> QED
    BY <1>7, <2>1, <2>2
<1>9. \A r : Declarado(r) => Declarado(r)'
  BY <1>1, <1>6, <1>7 DEF Declarado
<1>f. PICK f : f = feito
  OBVIOUS
<1>10. declara => Declarado(f)'
  <2>1. f.item = <<"I", identidade>> /\ f.unidade = codigo /\ f.grafia = i.unidade
    BY <1>f DEF feito
  <2> QED
    BY <1>1, <1>6, <1>7, <2>1 DEF Declarado
<1>11. /\ atual'.doc = atual.doc /\ atual'.participante = atual.participante
       /\ atual'.feitos = atual.feitos \cup {f} /\ atual' # <<>>
  <2>1. FichaAberta(atual)
    BY <1>2 DEF EmCurso
  <2> DEFINE a == [atual EXCEPT !.restam = Tail(@), !.feitos = @ \cup {f}]
  <2>2. /\ a.doc = atual.doc /\ a.participante = atual.participante
        /\ a.feitos = atual.feitos \cup {f} /\ FichaAberta(a)
    BY <2>1 DEF FichaAberta
  <2>3. atual' = a
    BY <1>1, <1>f
  <2> HIDE DEF a
  <2>4. a # <<>>
    BY <2>2 DEF FichaAberta
  <2> QED
    BY <2>2, <2>3, <2>4
<1>12. declara <=> D!EmiteC170(atual.doc)
  BY DEF D!DeclaraCatalogo, D!EmiteC170
<1>13. Declarados'
  <2>1. D!EmiteC170(atual.doc)' => D!EmiteC170(atual.doc)
    BY <1>1, <1>11 DEF D!EmiteC170
  <2>2. \A n : D!EmiteC170(n.doc)' => D!EmiteC170(n.doc)
    BY <1>1 DEF D!EmiteC170
  <2> QED
    BY <1>1, <1>9, <1>10, <1>11, <1>12, <2>1, <2>2 DEF RInv, Declarados
<1>14. Codigos' /\ Partes'
  BY <1>1, <1>11 DEF RInv, Codigos, Partes, D!CodigoParticipante, D!R0150
<1>15. fase' = "DOCUMENTOS"
  BY <1>1, <1>2
<1> QED
  BY <1>5, <1>8, <1>13, <1>14, <1>15 DEF RInv, Grafias

(* The invoice enters block C with what it refers to. *)
LEMMA FecharNfeR ==
  ASSUME LInv, RInv, D!FecharNfe
  PROVE  RInv'
<1> DEFINE n0 == [doc |-> atual.doc, participante |-> atual.participante,
                  itens |-> atual.feitos]
<1>1. /\ atual # <<>> /\ nfe' = nfe \cup {n0} /\ atual' = <<>>
      /\ UNCHANGED <<entrada, fase, participantes, unidades, itensCatalogo, cte>>
  BY DEF D!FecharNfe, D!SemCodigo, D!catalogos
<1>2. fase = "DOCUMENTOS"
  BY <1>1 DEF LInv, D!EfdTypeOK, D!SemCodigo
<1>3. /\ n0.doc = atual.doc /\ n0.participante = atual.participante
      /\ n0.itens = atual.feitos
  OBVIOUS
<1> HIDE DEF n0
<1>4. Codigos' /\ Registros'
  BY <1>1 DEF RInv, Codigos, Registros, D!CodigoParticipante
<1>5. Partes'
  BY <1>1, <1>3 DEF RInv, Partes, D!R0150
<1>6. \A r : Declarado(r) => Declarado(r)'
  BY <1>1 DEF Declarado
<1>7. Declarados'
  BY <1>1, <1>3, <1>6 DEF RInv, Declarados, D!EmiteC170
<1> QED
  BY <1>1, <1>2, <1>4, <1>5, <1>7 DEF RInv, Grafias

(* loadInventario: the lines of the inventory bring the registers they     *)
(* refer to, and take away none that an invoice refers to. *)
LEMMA InventarioR ==
  ASSUME D!EfdAssumption, LInv, RInv, D!CarregarInventario
  PROVE  RInv'
<1> DEFINE Q == {<<"INVENTARIO_UNIDADE_DIVERGENTE", l.produto>> :
                   l \in {x \in D!Inventario : x.unidade # x.cadastrada}}
<1>1. /\ fase = "DOCUMENTOS" /\ fase' = "MONTAGEM" /\ atual = <<>>
      /\ unidades' = [u \in DOMAIN unidades \cup {l.cadastrada : l \in D!Inventario} |->
                        IF \E l \in D!Inventario : l.cadastrada = u THEN u
                        ELSE unidades[u]]
      /\ itensCatalogo' =
           [x \in DOMAIN itensCatalogo
                    \cup {<<D!Proprio, l.produto>> : l \in D!NovosProprios} |->
              IF \E l \in D!NovosProprios : <<D!Proprio, l.produto>> = x
              THEN LET l == CHOOSE l \in D!NovosProprios : <<D!Proprio, l.produto>> = x
                   IN  [codigo |-> D!CodigoProprio(l), unidade |-> l.cadastrada,
                        conversoes |-> {}]
              ELSE itensCatalogo[x]]
      /\ participantes' = [p \in DOMAIN participantes \cup D!Terceiros |->
                             IF p \in DOMAIN participantes THEN participantes[p]
                             ELSE entrada.codigos[p]]
      /\ Q \subseteq inconsistencias'
      /\ UNCHANGED <<entrada, atual, nfe, cte>>
  BY DEF D!CarregarInventario, D!SemCodigo
<1> DEFINE U == {l.cadastrada : l \in D!Inventario}
<1>2. /\ DOMAIN unidades' = DOMAIN unidades \cup U
      /\ \A l \in D!Inventario : l.cadastrada \in DOMAIN unidades'
  BY <1>1
<1>3. D!Inventario' = D!Inventario
  BY <1>1 DEF D!Inventario
<1>4. \A l \in D!Inventario :
         l.participante # "" => l.participante \in DOMAIN entrada.codigos
  <2>1. D!EntradaValida(entrada)
    BY DEF D!EfdAssumption, LInv
  <2> QED
    BY <2>1 DEF D!EntradaValida, D!Inventario
<1>5. /\ DOMAIN itensCatalogo \subseteq DOMAIN itensCatalogo'
      /\ \A l \in D!NovosProprios : <<D!Proprio, l.produto>> \in DOMAIN itensCatalogo'
  BY <1>1
<1>6. Registros'
  <2> SUFFICES ASSUME NEW x \in DOMAIN itensCatalogo'
               PROVE  /\ itensCatalogo'[x].codigo = <<"I", x>>
                      /\ itensCatalogo'[x].unidade \in DOMAIN unidades'
                      /\ itensCatalogo'[x].conversoes \subseteq DOMAIN unidades'
    BY DEF Registros
  <2>1. CASE \E l \in D!NovosProprios : <<D!Proprio, l.produto>> = x
    <3> DEFINE l == CHOOSE l \in D!NovosProprios : <<D!Proprio, l.produto>> = x
    <3>1. l \in D!NovosProprios /\ <<D!Proprio, l.produto>> = x
      BY <2>1
    <3>2. itensCatalogo'[x] = [codigo |-> D!CodigoProprio(l), unidade |-> l.cadastrada,
                               conversoes |-> {}]
      BY <1>1, <2>1
    <3> HIDE DEF l
    <3>3. l \in D!Inventario /\ D!CodigoProprio(l) = <<"I", x>>
      BY <3>1 DEF D!NovosProprios, D!CodigoProprio
    <3> QED
      BY <1>2, <3>2, <3>3
  <2>2. CASE ~ \E l \in D!NovosProprios : <<D!Proprio, l.produto>> = x
    <3>1. x \in DOMAIN itensCatalogo /\ itensCatalogo'[x] = itensCatalogo[x]
      BY <1>1, <2>2
    <3> QED
      BY <1>2, <3>1 DEF RInv, Registros
  <2> QED
    BY <2>1, <2>2
<1>7. /\ DOMAIN participantes' = DOMAIN participantes \cup D!Terceiros
      /\ \A p \in DOMAIN participantes : participantes'[p] = participantes[p]
      /\ \A p \in DOMAIN participantes' :
           p \notin DOMAIN participantes => /\ p \in D!Terceiros
                                            /\ participantes'[p] = entrada.codigos[p]
  BY <1>1
<1>8. \A p \in D!Terceiros : p \in DOMAIN entrada.codigos
  BY <1>4 DEF D!Terceiros
<1>9. Codigos'
  BY <1>1, <1>7, <1>8 DEF RInv, Codigos, D!CodigoParticipante
<1>10. D!R0150 \subseteq D!R0150'
  BY <1>7 DEF D!R0150
<1>11. Partes'
  BY <1>1, <1>10 DEF RInv, Partes
<1>12. \A r : Declarado(r) => Declarado(r)'
  BY <1>1, <1>2, <1>5 DEF Declarado
<1>13. Declarados'
  BY <1>1, <1>12 DEF RInv, Declarados, D!EmiteC170
<1>14. ASSUME NEW l \in D!Inventario PROVE Contada(l)'
  <2>1. \E x \in DOMAIN itensCatalogo' : D!CodigoProprio(l) = <<"I", x>>
    <3>1. CASE l \in D!NovosProprios
      BY <1>5, <3>1 DEF D!CodigoProprio
    <3>2. CASE l \notin D!NovosProprios
      <4>1. PICK x \in DOMAIN itensCatalogo : itensCatalogo[x].codigo = D!CodigoProprio(l)
        BY <3>2 DEF D!NovosProprios
      <4>2. itensCatalogo[x].codigo = <<"I", x>>
        BY DEF RInv, Registros
      <4> QED
        BY <1>5, <4>1, <4>2
    <3> QED
      BY <3>1, <3>2
  <2>2. l.participante # "" => l.participante \in DOMAIN participantes'
    BY <1>7 DEF D!Terceiros
  <2>3. l.unidade # l.cadastrada =>
          <<"INVENTARIO_UNIDADE_DIVERGENTE", l.produto>> \in inconsistencias'
    BY <1>1
  <2>4. D!CodigoProprio(l)' = D!CodigoProprio(l)
    BY DEF D!CodigoProprio
  <2> QED
    BY <1>1, <1>2, <1>4, <2>1, <2>2, <2>3, <2>4 DEF Contada
<1> QED
  BY <1>1, <1>3, <1>6, <1>9, <1>11, <1>13, <1>14 DEF RInv

LEMMA MontarR ==
  ASSUME LInv, RInv, D!Montar
  PROVE  RInv'
<1>1. /\ fase = "MONTAGEM" /\ fase' = "PRONTA" /\ entrada' = entrada
      /\ UNCHANGED <<participantes, unidades, itensCatalogo, nfe, cte, atual>>
      /\ inconsistencias \subseteq inconsistencias'
  BY DEF D!Montar, D!catalogos
<1>2. Codigos' /\ Partes' /\ Registros'
  BY <1>1 DEF RInv, Codigos, Partes, Registros, D!CodigoParticipante, D!R0150
<1>3. \A r : Declarado(r) => Declarado(r)'
  BY <1>1 DEF Declarado
<1>4. Declarados'
  BY <1>1, <1>3 DEF RInv, Declarados, D!EmiteC170
<1>5. \A l : Contada(l) => Contada(l)'
  BY <1>1 DEF Contada, D!CodigoProprio
<1>6. D!Inventario' = D!Inventario
  BY <1>1 DEF D!Inventario
<1> QED
  BY <1>1, <1>2, <1>4, <1>5, <1>6 DEF RInv

LEMMA PassoR ==
  ASSUME D!EfdAssumption, LInv, RInv, D!EfdNext
  PROVE  RInv'
<1>1. CASE D!Recusar
  <2>1. /\ fase = "INICIO" /\ fase' = "RECUSADA" /\ entrada' = entrada
        /\ UNCHANGED <<participantes, unidades, itensCatalogo, nfe, cte, atual>>
    BY <1>1 DEF D!Recusar, D!catalogos
  <2>2. Codigos' /\ Partes' /\ Registros'
    BY <2>1 DEF RInv, Codigos, Partes, Registros, D!CodigoParticipante, D!R0150
  <2>3. \A r : Declarado(r) => Declarado(r)'
    BY <2>1 DEF Declarado
  <2>4. Declarados'
    BY <2>1, <2>3 DEF RInv, Declarados, D!EmiteC170
  <2> QED
    BY <2>1, <2>2, <2>4 DEF RInv
<1>2. CASE D!Denegado \/ D!DocumentoImpedido \/ D!CteNaoEscriturado \/ D!SemParticipante
  <2>1. /\ fase' = fase /\ entrada' = entrada /\ UNCHANGED D!catalogos
        /\ UNCHANGED <<nfe, cte, atual>> /\ inconsistencias \subseteq inconsistencias'
    BY <1>2 DEF D!Denegado, D!DocumentoImpedido, D!CteNaoEscriturado, D!SemParticipante
  <2> QED
    BY <2>1, Quieto
<1> QED
  BY <1>1, <1>2, AbrirR, EscriturarR, PrepararItemR, FecharNfeR, InventarioR, MontarR
     DEF D!EfdNext

(* No document is left without its register in block 0. *)
LEMMA FechaReferencias ==
  ASSUME D!EfdAssumption, LInv, RInv
  PROVE  D!ReferenciasFecham /\ D!UnidadeFiel
<1>1. D!EntradaValida(entrada)
  BY DEF LInv, D!EfdAssumption
<1>2. D!C100D100 \cup D!C113 \subseteq D!R0150
  BY DEF RInv, Partes, D!C100D100, D!C113, D!SemCodigo, D!Regulares
<1>3. \A r \in D!C170 : Declarado(r)
  BY DEF RInv, Declarados, D!C170, D!Regulares
<1>4. \A x \in DOMAIN itensCatalogo : itensCatalogo[x].codigo \in D!Codigos0200
  BY DEF D!Codigos0200, D!R0200
<1>5. \A x \in DOMAIN itensCatalogo : <<"I", x>> \in D!Codigos0200
  BY <1>4 DEF RInv, Registros
<1>6. \A r \in D!C170 : r.item \in D!Codigos0200 /\ r.unidade \in D!R0190
  BY <1>3, <1>5 DEF Declarado, D!R0190
<1>7. \A r \in D!R0200 : r.unidade \in D!R0190 /\ r.conversoes \subseteq D!R0190
  BY DEF RInv, Registros, D!R0200, D!R0190
<1>8. ASSUME NEW l \in D!H010
      PROVE  /\ D!CodigoProprio(l) \in D!Codigos0200
             /\ l.participante # "" => entrada.codigos[l.participante] \in D!R0150
             /\ D!PodeGerar => l.unidade \in D!R0190
  <2>1. l \in D!Inventario /\ fase \in {"MONTAGEM", "PRONTA"}
    BY DEF D!H010
  <2>2. Contada(l)
    BY <2>1 DEF RInv
  <2>3. D!CodigoProprio(l) \in D!Codigos0200
    BY <1>5, <2>2 DEF Contada
  <2>4. l.participante # "" => entrada.codigos[l.participante] \in D!R0150
    BY <2>2 DEF Contada, RInv, Codigos, D!CodigoParticipante, D!R0150
  <2>5. D!PodeGerar => l.unidade \in D!R0190
    <3>1. <<"INVENTARIO_UNIDADE_DIVERGENTE", l.produto>>[1] \notin D!Avisos
      BY DEF D!Avisos
    <3> QED
      BY <2>2, <3>1 DEF Contada, D!PodeGerar, D!R0190
  <2> QED
    BY <2>3, <2>4, <2>5
<1>9. D!BlocoG \subseteq D!R0300
  BY DEF D!BlocoG, D!R0300
<1>10. ASSUME NEW p \in DOMAIN participantes, NEW q \in DOMAIN participantes,
              participantes[p] = participantes[q]
       PROVE  p = q
  <2>1. D!CodigoParticipante(p) = D!CodigoParticipante(q)
    BY <1>10 DEF RInv, Codigos
  <2>2. /\ \A a, b \in DOMAIN entrada.codigos :
              entrada.codigos[a] = entrada.codigos[b] => a = b
        /\ \A a \in DOMAIN entrada.codigos :
              entrada.codigos[a][1] = "P" => entrada.codigos[a] = <<"P", a>>
    BY <1>1 DEF D!EntradaValida
  <2> QED
    BY <2>1, <2>2 DEF D!CodigoParticipante
<1>11. \A x, y \in DOMAIN itensCatalogo :
          itensCatalogo[x].codigo = itensCatalogo[y].codigo => x = y
  BY DEF RInv, Registros
<1>12. D!UnidadeFiel
  BY <1>3 DEF Declarado, D!UnidadeFiel
<1> QED
  BY <1>2, <1>6, <1>7, <1>8, <1>9, <1>10, <1>11, <1>12 DEF D!ReferenciasFecham


LEMMA MenorNumero ==
  ASSUME NEW S, S \subseteq Nat, S # {}
  PROVE  \E n \in S : \A m \in S : n <= m
<1> DEFINE R == OpToRel(<, Nat)
<1>1. IsWellFoundedOn(R, Nat)
  BY NatLessThanWellFounded
<1>2. R = {x \in Nat \X Nat : x[1] < x[2]}
  BY DEF OpToRel
<1> HIDE DEF R
<1>3. PICK n \in S : \A m \in S : ~(<<m, n>> \in R)
  BY <1>1, WFMin
<1>4. ASSUME NEW m \in S PROVE n <= m
  <2>1. m \in Nat /\ n \in Nat /\ ~(<<m, n>> \in R)
    BY <1>3
  <2>2. <<m, n>> \in Nat \X Nat
    BY <2>1
  <2>3. m < n => <<m, n>> \in R
    BY <1>2, <2>1, <2>2
  <2> QED
    BY <2>1, <2>3
<1> QED
  BY <1>4

-----------------------------------------------------------------------------
(* The preparation: no document is left out in silence. *)

(* The documents counted as excluded, and why a document may be absent. *)
Excluido(d) == ~D!Livre(d) \/ (~Ausente(d) /\ SemParte(d))
Barrada == \E q \in inconsistencias : q[1] \notin D!Avisos
Motivo(d) ==
    \/ Entra(d) \/ Barrada
    \/ d.situacao = "DENEGADA"
    \/ D!Livre(d) /\ Ausente(d)
    \/ D!ExigeParticipante(d) /\ d.outro = "CLIENTE"

OInv ==
    fase \in Pronto =>
       /\ D!Incluidos = {d \in D!Lidos : Entra(d)}
       /\ excluded = Cardinality({d \in D!Lidos : Excluido(d)})
       /\ \A d \in D!Lidos : Motivo(d)

LEMMA MesmoTamanho == \A S : D!Cardinality(S) = Cardinality(S)
BY DEF D!Cardinality, Cardinality, D!IsFiniteSet, IsFiniteSet

(* The documents read are finitely many, each read once. *)
LEMMA LidosFinitos ==
  ASSUME D!EfdAssumption, LInv
  PROVE  IsFiniteSet(D!Lidos)
<1> DEFINE n == Len(entrada.documentos) - Len(fila)
<1>1. n \in Nat
  BY Documentos DEF LInv, Resto
<1>2. IsFiniteSet(1..n)
  BY <1>1, FS_Interval
<1>3. D!Lidos = {entrada.documentos[i] : i \in 1..n}
  BY DEF D!Lidos
<1> DEFINE f == [i \in 1..n |-> entrada.documentos[i]]
<1>4. f \in Surjection(1..n, D!Lidos)
  BY <1>3 DEF Surjection
<1> HIDE DEF n, f
<1> QED
  BY <1>2, <1>4, FS_Surjection

LEMMA LidosMais ==
  ASSUME D!EfdAssumption, LInv, fila # <<>>, fila' = Tail(fila), entrada' = entrada
  PROVE  D!Lidos' = D!Lidos \cup {Head(fila)} /\ Head(fila) \notin D!Lidos
<1> DEFINE docs == entrada.documentos
           n == Len(docs) - Len(fila)
<1>1. /\ Len(Tail(fila)) = Len(fila) - 1 /\ Len(fila) \in Nat \ {0} /\ Len(docs) \in Nat
      /\ Len(docs) - Len(fila) + 1 \in DOMAIN docs
      /\ Head(fila) = docs[Len(docs) - Len(fila) + 1] /\ Len(fila) <= Len(docs)
  BY Documentos, Proximo DEF LInv, Resto
<1>2. n \in Nat /\ n + 1 \in DOMAIN docs /\ Head(fila) = docs[n + 1]
  BY <1>1
<1>3. \A i \in DOMAIN docs : \A j \in 1..(i - 1) : docs[j].id # docs[i].id
  <2>1. D!EntradaValida(entrada)
    BY DEF D!EfdAssumption, LInv
  <2> QED
    BY <2>1 DEF D!EntradaValida
<1>4. D!Lidos = {docs[i] : i \in 1..n}
  BY DEF D!Lidos
<1>5. D!Lidos' = {docs[i] : i \in 1..(n + 1)}
  <2>1. Len(docs) - Len(Tail(fila)) = n + 1
    BY <1>1
  <2> QED
    BY <2>1 DEF D!Lidos
<1> HIDE DEF n
<1>6. \A j \in 1..n : docs[j] # docs[n + 1]
  <2>1. \A j \in 1..n : j \in 1..((n + 1) - 1)
    BY <1>2
  <2> QED
    BY <1>2, <1>3, <2>1
<1>7. 1..(n + 1) = 1..n \cup {n + 1}
  BY <1>2
<1> QED
  BY <1>2, <1>4, <1>5, <1>6, <1>7

(* What a document read adds to the accounts of the month. *)
LEMMA LidoO ==
  ASSUME D!EfdAssumption, LInv, OInv, fase = "DOCUMENTOS", fila # <<>>,
         NEW c, c = Head(fila), fila' = Tail(fila), entrada' = entrada, fase' = fase,
         D!Incluidos' = D!Incluidos \cup {x \in {c} : Entra(x)},
         excluded' = IF Excluido(c) THEN excluded + 1 ELSE excluded,
         inconsistencias \subseteq inconsistencias', Motivo(c)'
  PROVE  OInv'
<1> DEFINE E == {x \in D!Lidos : Excluido(x)}
<1>1. IsFiniteSet(D!Lidos)
  BY LidosFinitos
<1>2. /\ D!Incluidos = {x \in D!Lidos : Entra(x)} /\ excluded = Cardinality(E)
      /\ \A x \in D!Lidos : Motivo(x)
  BY DEF OInv, Pronto
<1>3. D!Lidos' = D!Lidos \cup {c} /\ c \notin D!Lidos
  BY LidosMais
<1>5. D!Incluidos' = {x \in D!Lidos' : Entra(x)}
  BY <1>2, <1>3
<1>6. /\ \A x : Motivo(x) => Motivo(x)'
      /\ \A x : Excluido(x)' <=> Excluido(x)
      /\ \A x : Entra(x)' <=> Entra(x)
  BY DEF Motivo, Barrada, Excluido, Entra
<1>8. \A x \in D!Lidos' : Motivo(x)'
  BY <1>2, <1>3, <1>6
<1>9. excluded' = Cardinality({x \in D!Lidos' : Excluido(x)})
  <2>1. IsFiniteSet(E) /\ c \notin E
    BY <1>1, <1>3, FS_Subset
  <2>2. CASE Excluido(c)
    <3>1. {x \in D!Lidos' : Excluido(x)} = E \cup {c}
      BY <1>3, <2>2
    <3>2. Cardinality(E \cup {c}) = Cardinality(E) + 1
      BY <2>1, FS_AddElement
    <3> QED
      BY <1>2, <2>2, <3>1, <3>2
  <2>3. CASE ~Excluido(c)
    <3>1. {x \in D!Lidos' : Excluido(x)} = E
      BY <1>3, <2>3
    <3> QED
      BY <1>2, <2>3, <3>1
  <2> QED
    BY <2>2, <2>3
<1> QED
  BY <1>5, <1>6, <1>8, <1>9 DEF OInv

(* A finding that bars a document stops the generation. *)
LEMMA ImpedimentoBarra ==
  ASSUME NEW d, D!Impedido(d)
  PROVE  D!Impedimento(d) \notin D!Avisos
<1> DEFINE s == D!Impedimentos(d)
           k == CHOOSE i \in DOMAIN s : s[i].vale /\ \A j \in 1..(i - 1) : ~s[j].vale
<1>1. DOMAIN s = 1..5
  BY DEF D!Impedimentos
<1>2. \A i \in DOMAIN s : s[i].codigo \notin D!Avisos
  BY <1>1 DEF D!Impedimentos, D!Avisos
<1>3. D!Impedimento(d) = s[k].codigo
  BY DEF D!Impedimento
<1>4. \E i \in DOMAIN s : s[i].vale
  BY DEF D!Impedido
<1> HIDE DEF s
<1>5. \E i \in DOMAIN s : s[i].vale /\ \A j \in 1..(i - 1) : ~s[j].vale
  <2> DEFINE V == {i \in DOMAIN s : s[i].vale}
  <2>1. V \subseteq Nat /\ V # {}
    BY <1>1, <1>4
  <2>2. PICK i \in V : \A j \in V : i <= j
    BY <2>1, MenorNumero
  <2>3. \A j \in 1..(i - 1) : j \in DOMAIN s /\ ~(i <= j)
    BY <1>1, <2>2
  <2> QED
    BY <2>2, <2>3
<1>6. k \in DOMAIN s
  BY <1>5
<1> QED
  BY <1>2, <1>3, <1>6

LEMMA InicioO ==
  ASSUME D!EfdInit
  PROVE  OInv
BY DEF D!EfdInit, OInv, Pronto

LEMMA AbrirO ==
  ASSUME D!EfdAssumption, LInv, D!Abrir
  PROVE  OInv'
<1>1. /\ fase = "INICIO" /\ entrada' = entrada /\ fila' = entrada.documentos
      /\ UNCHANGED <<nfe, cte, excluded>>
  BY DEF D!Abrir
<1>6. nfe = {} /\ cte = {} /\ excluded = 0
  <2>1. fase = "INICIO"
    BY <1>1
  <2> QED
    BY <2>1 DEF LInv
<1>2. Len(entrada.documentos) - Len(entrada.documentos) = 0
  BY Documentos DEF LInv
<1>3. D!Lidos' = {}
  BY <1>1, <1>2 DEF D!Lidos
<1>4. D!Incluidos' = {} /\ excluded' = 0
  BY <1>1, <1>6 DEF D!Incluidos
<1>5. /\ {x \in D!Lidos' : Excluido(x)} = {} /\ {x \in D!Lidos' : Entra(x)} = {}
      /\ Cardinality({}) = 0
  BY <1>3, FS_EmptySet
<1> QED
  BY <1>3, <1>4, <1>5 DEF OInv

(* The party of a document: either its absence is a finding, or the party  *)
(* is the client itself. *)
LEMMA SemParteMotivo ==
  ASSUME NEW d, SemParte(d),
         inconsistencias' = inconsistencias \cup D!QueixasDoParticipante(d)
  PROVE  Motivo(d)'
<1>1. /\ D!ExigeParticipante(d) /\ d.tipo \in {"NFE", "CTE"}
      /\ d.outro \in {"", "CLIENTE"}
  BY DEF SemParte, D!ExigeParticipante, D!TemParticipante
<1>2. CASE d.outro = ""
  <2>1. <<"PARTICIPANTE_DOCUMENTO_AUSENTE", d.id>> \in inconsistencias'
    BY <1>1, <1>2 DEF D!QueixasDoParticipante
  <2>2. <<"PARTICIPANTE_DOCUMENTO_AUSENTE", d.id>>[1] \notin D!Avisos
    BY DEF D!Avisos
  <2> QED
    BY <2>1, <2>2 DEF Motivo, Barrada
<1>3. CASE d.outro = "CLIENTE"
  BY <1>1, <1>3 DEF Motivo
<1> QED
  BY <1>1, <1>2, <1>3

(* A step that reads no document to its end. *)
LEMMA QuietoO ==
  ASSUME OInv, UNCHANGED <<entrada, fila, nfe, cte, excluded>>,
         fase' = fase \/ fase \in Pronto, inconsistencias \subseteq inconsistencias'
  PROVE  OInv'
<1>1. UNCHANGED <<D!Lidos, D!Incluidos>>
  BY DEF D!Lidos, D!Incluidos
<1>2. /\ \A x : Motivo(x) => Motivo(x)'
      /\ \A x : Excluido(x)' <=> Excluido(x)
      /\ \A x : Entra(x)' <=> Entra(x)
  BY DEF Motivo, Barrada, Excluido, Entra
<1>3. {x \in D!Lidos' : Excluido(x)} = {x \in D!Lidos : Excluido(x)}
  BY <1>1
<1> QED
  BY <1>1, <1>2, <1>3 DEF OInv

LEMMA PassoO ==
  ASSUME D!EfdAssumption, LInv, OInv, D!EfdNext
  PROVE  OInv'
<1> USE DEF D!Lendo, D!SemCodigo, D!Doc, D!catalogos
<1>1. excluded \in Nat
  BY DEF LInv, D!EfdTypeOK
<1>2. CASE D!Recusar
  BY <1>2 DEF D!Recusar, OInv, Pronto
<1>3. CASE D!Abrir
  BY <1>3, AbrirO
<1>4. CASE D!Denegado
  <2>1. PICK d : d = Head(fila)
    OBVIOUS
  <2>2. /\ fase = "DOCUMENTOS" /\ fila # <<>> /\ fila' = Tail(fila) /\ entrada' = entrada
        /\ fase' = fase /\ UNCHANGED <<nfe, cte>> /\ excluded' = excluded + 1
        /\ inconsistencias \subseteq inconsistencias' /\ d.situacao = "DENEGADA"
    BY <1>4, <2>1 DEF D!Denegado
  <2>3. Excluido(d) /\ ~Entra(d)
    BY <2>2 DEF D!Livre, Excluido, Entra
  <2>4. Motivo(d)'
    BY <2>2 DEF Motivo
  <2>5. D!Incluidos' = D!Incluidos \cup {x \in {d} : Entra(x)}
    BY <2>2, <2>3 DEF D!Incluidos
  <2> QED
    BY <2>1, <2>2, <2>3, <2>4, <2>5, LidoO
<1>5. CASE D!DocumentoImpedido
  <2>1. PICK d : d = Head(fila)
    OBVIOUS
  <2>2. /\ fase = "DOCUMENTOS" /\ fila # <<>> /\ fila' = Tail(fila) /\ entrada' = entrada
        /\ fase' = fase /\ UNCHANGED <<nfe, cte>> /\ excluded' = excluded + 1
        /\ inconsistencias' = inconsistencias \cup {<<D!Impedimento(d), d.id>>}
        /\ D!Impedido(d)
    BY <1>5, <2>1 DEF D!DocumentoImpedido
  <2>3. Excluido(d) /\ ~Entra(d)
    BY <2>2 DEF D!Livre, Excluido, Entra
  <2>4. Motivo(d)'
    <3>1. D!Impedimento(d) \notin D!Avisos
      BY <2>2, ImpedimentoBarra
    <3>2. /\ <<D!Impedimento(d), d.id>> \in inconsistencias'
          /\ <<D!Impedimento(d), d.id>>[1] = D!Impedimento(d)
      BY <2>2
    <3>3. \E q \in inconsistencias' : q[1] \notin D!Avisos
      BY <3>1, <3>2
    <3>4. Barrada'
      BY <3>3 DEF Barrada, D!Avisos
    <3> QED
      BY <3>4 DEF Motivo
  <2>5. D!Incluidos' = D!Incluidos \cup {x \in {d} : Entra(x)}
    BY <2>2, <2>3 DEF D!Incluidos
  <2>6. inconsistencias \subseteq inconsistencias'
    BY <2>2
  <2> QED
    BY <2>1, <2>2, <2>3, <2>4, <2>5, <2>6, LidoO
<1>6. CASE D!CteNaoEscriturado
  <2>1. PICK d : d = Head(fila)
    OBVIOUS
  <2>2. /\ fase = "DOCUMENTOS" /\ fila # <<>> /\ fila' = Tail(fila) /\ entrada' = entrada
        /\ fase' = fase /\ UNCHANGED <<nfe, cte, excluded, inconsistencias>>
        /\ D!Livre(d) /\ Ausente(d)
    BY <1>6, <2>1 DEF D!CteNaoEscriturado, Ausente
  <2>3. ~Excluido(d) /\ ~Entra(d)
    BY <2>2 DEF Excluido, Entra
  <2>4. Motivo(d)'
    BY <2>2 DEF Motivo
  <2>5. D!Incluidos' = D!Incluidos \cup {x \in {d} : Entra(x)}
    BY <2>2, <2>3 DEF D!Incluidos
  <2> QED
    BY <2>1, <2>2, <2>3, <2>4, <2>5, LidoO
<1>7. CASE D!SemParticipante
  <2>1. PICK d : d = Head(fila)
    OBVIOUS
  <2>2. /\ fase = "DOCUMENTOS" /\ fila # <<>> /\ fila' = Tail(fila) /\ entrada' = entrada
        /\ fase' = fase /\ UNCHANGED <<nfe, cte>> /\ excluded' = excluded + 1
        /\ inconsistencias' = inconsistencias \cup D!QueixasDoParticipante(d)
        /\ D!Livre(d) /\ ~Ausente(d) /\ SemParte(d)
    BY <1>7, <2>1 DEF D!SemParticipante, D!EmEscrituracao, Ausente, SemParte
  <2>3. Excluido(d) /\ ~Entra(d)
    BY <2>2 DEF Excluido, Entra
  <2>4. Motivo(d)'
    BY <2>2, SemParteMotivo
  <2>5. D!Incluidos' = D!Incluidos \cup {x \in {d} : Entra(x)}
    BY <2>2, <2>3 DEF D!Incluidos
  <2>6. inconsistencias \subseteq inconsistencias'
    BY <2>2
  <2> QED
    BY <2>1, <2>2, <2>3, <2>4, <2>5, <2>6, LidoO
<1>8. CASE D!EscriturarCte
  <2>1. PICK d : d = Head(fila)
    OBVIOUS
  <2>2. /\ fase = "DOCUMENTOS" /\ fila # <<>> /\ fila' = Tail(fila) /\ entrada' = entrada
        /\ fase' = fase /\ nfe' = nfe /\ excluded' = excluded
        /\ inconsistencias \subseteq inconsistencias'
        /\ D!Livre(d) /\ ~Ausente(d) /\ D!TemParticipante(d)
    BY <1>8, <2>1 DEF D!EscriturarCte, D!EmEscrituracao, Ausente
  <2>3. Entra(d) /\ ~Excluido(d)
    BY <2>2 DEF Excluido, Entra, SemParte
  <2>4. Motivo(d)'
    BY <2>2, <2>3 DEF Motivo, Entra
  <2>5. D!Incluidos' = D!Incluidos \cup {x \in {d} : Entra(x)}
    <3>1. PICK n : n.doc = d /\ cte' = cte \cup {n}
      BY <1>8, <2>1 DEF D!EscriturarCte
    <3> QED
      BY <2>2, <2>3, <3>1 DEF D!Incluidos
  <2> QED
    BY <2>1, <2>2, <2>3, <2>4, <2>5, LidoO
<1>9. CASE D!EscriturarNfe
  <2>1. UNCHANGED <<entrada, fase, fila, nfe, cte, excluded>>
        /\ inconsistencias \subseteq inconsistencias'
    BY <1>9 DEF D!EscriturarNfe
  <2> QED
    BY <2>1, QuietoO
<1>10. CASE D!PrepararItem
  <2>1. UNCHANGED <<entrada, fase, fila, nfe, cte, excluded>>
        /\ inconsistencias \subseteq inconsistencias'
    BY <1>10 DEF D!PrepararItem
  <2> QED
    BY <2>1, QuietoO
<1>11. CASE D!FecharNfe
  <2>1. PICK d : d = Head(fila)
    OBVIOUS
  <2>2. /\ fase = "DOCUMENTOS" /\ fila # <<>> /\ fila' = Tail(fila) /\ entrada' = entrada
        /\ fase' = fase /\ UNCHANGED <<cte, excluded, inconsistencias>>
        /\ atual.doc = d /\ Entra(d)
    BY <1>11, <2>1 DEF D!FecharNfe, LInv, D!EfdTypeOK, EmCurso
  <2>3. ~Excluido(d)
    BY <2>2 DEF Excluido, Entra
  <2>4. Motivo(d)'
    BY <2>2 DEF Motivo, Entra
  <2>5. D!Incluidos' = D!Incluidos \cup {x \in {d} : Entra(x)}
    <3>1. PICK n : n.doc = d /\ nfe' = nfe \cup {n}
      BY <1>11, <2>2 DEF D!FecharNfe
    <3> QED
      BY <2>2, <3>1 DEF D!Incluidos
  <2> QED
    BY <2>1, <2>2, <2>3, <2>4, <2>5, LidoO
<1>12. CASE D!CarregarInventario
  <2>1. /\ UNCHANGED <<entrada, fila, nfe, cte, excluded>> /\ fase = "DOCUMENTOS"
        /\ inconsistencias \subseteq inconsistencias'
    BY <1>12 DEF D!CarregarInventario
  <2> QED
    BY <2>1, QuietoO DEF Pronto
<1>13. CASE D!Montar
  <2>1. /\ UNCHANGED <<entrada, fila, nfe, cte, excluded>> /\ fase = "MONTAGEM"
        /\ inconsistencias \subseteq inconsistencias'
    BY <1>13 DEF D!Montar
  <2> QED
    BY <2>1, QuietoO DEF Pronto
<1> QED
  BY <1>2, <1>3, <1>4, <1>5, <1>6, <1>7, <1>8, <1>9, <1>10, <1>11, <1>12, <1>13
     DEF D!EfdNext

(* A document read is counted once. *)
LEMMA ContagemO ==
  ASSUME NEW L, NEW I, NEW X, NEW V, IsFiniteSet(L),
         L = I \cup X \cup V, I \cap X = {}, I \cap V = {}, X \cap V = {}
  PROVE  Cardinality(L) = Cardinality(X) + Cardinality(I) + Cardinality(V)
<1>1. IsFiniteSet(I) /\ IsFiniteSet(X) /\ IsFiniteSet(V) /\ IsFiniteSet(I \cup X)
  BY FS_Subset
<1>2. Cardinality({}) = 0
  BY FS_EmptySet
<1>3. Cardinality((I \cup X) \cap V) = 0
  <2>1. (I \cup X) \cap V = {}
    OBVIOUS
  <2> QED
    BY <1>2, <2>1, Zenon
<1>9. Cardinality(I \cap X) = 0
  BY <1>2, Zenon
<1>4. Cardinality(I \cup X) = Cardinality(I) + Cardinality(X) - Cardinality(I \cap X)
  BY <1>1, FS_Union
<1>5. Cardinality(L) = Cardinality(I \cup X) + Cardinality(V)
                          - Cardinality((I \cup X) \cap V)
  BY <1>1, FS_Union
<1>6. Cardinality(I) \in Nat /\ Cardinality(X) \in Nat /\ Cardinality(V) \in Nat
  BY <1>1, FS_CardinalityType
<1>7. Cardinality(I \cup X) = Cardinality(I) + Cardinality(X)
  BY <1>4, <1>6, <1>9
<1>8. Cardinality(L) = Cardinality(I \cup X) + Cardinality(V)
  <2>1. Cardinality(I \cup X) \in Nat
    BY <1>1, FS_CardinalityType
  <2> QED
    BY <1>3, <1>5, <1>6, <2>1
<1> QED
  BY <1>6, <1>7, <1>8

(* What a document that passes the checks is. *)
LivreEm(d) ==
    /\ D!Livre(d) => d.situacao \notin {"DENEGADA", "RESUMIDA"}
    /\ D!Livre(d) /\ d.tipo # "CTE" /\ d.situacao # "CANCELADA" =>
          d.status = "ESCRITURADO" /\ d.integridade = "OK"
    /\ D!Livre(d) /\ d.tipo = "CTE" /\ d.situacao # "CANCELADA" => d.cte = "PRONTO"

LEMMA LivreDe ==
  ASSUME NEW d
  PROVE  LivreEm(d)
<1>1. DOMAIN D!Impedimentos(d) = 1..5
  BY DEF D!Impedimentos
<1>2. /\ D!Impedimentos(d)[1].vale <=> d.situacao = "RESUMIDA"
      /\ D!Impedimentos(d)[2].vale <=> ~D!Cancelado(d) /\ d.status # "ESCRITURADO"
      /\ D!Impedimentos(d)[3].vale <=> ~D!Cancelado(d) /\ d.tipo = "CTE" /\ d.cte # "PRONTO"
      /\ D!Impedimentos(d)[4].vale <=>
            ~D!Cancelado(d) /\ d.tipo # "CTE" /\ d.integridade # "OK"
  BY DEF D!Impedimentos
<1>3. D!Livre(d) => \A i \in 1..5 : ~D!Impedimentos(d)[i].vale
  BY <1>1 DEF D!Livre, D!Impedido
<1>4. D!Livre(d) => /\ ~D!Impedimentos(d)[1].vale /\ ~D!Impedimentos(d)[2].vale
                   /\ ~D!Impedimentos(d)[3].vale /\ ~D!Impedimentos(d)[4].vale
  BY <1>3
<1>5. d.situacao = "AUTORIZADA" => D!Livre(d) \/ D!Impedido(d)
  BY DEF D!Livre
<1> QED
  BY <1>2, <1>4, <1>5 DEF LivreEm, D!Livre, D!Cancelado

(* The documents read are those of the schema. *)
LEMMA LidosValidos ==
  ASSUME D!EfdAssumption, LInv, NEW d \in D!Lidos
  PROVE  d.situacao \in D!Situacoes
<1>1. PICK i \in 1..(Len(entrada.documentos) - Len(fila)) : d = entrada.documentos[i]
  BY DEF D!Lidos
<1>2. i \in DOMAIN entrada.documentos
  BY <1>1, Documentos DEF LInv, Resto
<1> QED
  BY <1>1, <1>2, Documentos DEF LInv, D!EntradaValida

(* The accounts of the month say that no document is left out in silence. *)
LEMMA FechaOmissao ==
  ASSUME D!EfdAssumption, LInv, OInv
  PROVE  D!NadaSeOmite
<1>1. CASE fase \in Pronto
  <2>1. /\ D!Incluidos = {d \in D!Lidos : Entra(d)}
        /\ excluded = Cardinality({d \in D!Lidos : Excluido(d)})
        /\ \A d \in D!Lidos : Motivo(d)
    BY <1>1 DEF OInv
  <2>2. ASSUME D!PodeGerar, NEW d \in D!Lidos
        PROVE  /\ d.situacao = "AUTORIZADA" =>
                     d \in D!Incluidos \/ (D!ExigeParticipante(d) /\ d.outro = "CLIENTE")
               /\ d.situacao \in {"DENEGADA", "RESUMIDA"} => d \notin D!Incluidos
               /\ d \in D!Incluidos /\ ~D!Elegivel(d) => D!Cancelado(d) \/ d.tipo = "CTE"
    <3>1. ~Barrada
      BY <2>2 DEF Barrada, D!PodeGerar
    <3>2. Motivo(d) /\ (d \in D!Incluidos <=> Entra(d))
      BY <2>1, <2>2
    <3>3. LivreEm(d) /\ d.situacao \in D!Situacoes
      BY <2>2, LivreDe, LidosValidos
    <3>4. ASSUME d.situacao = "AUTORIZADA"
          PROVE  d \in D!Incluidos \/ (D!ExigeParticipante(d) /\ d.outro = "CLIENTE")
      BY <3>1, <3>2, <3>3, <3>4 DEF Motivo, LivreEm, Ausente
    <3>5. d.situacao \in {"DENEGADA", "RESUMIDA"} => d \notin D!Incluidos
      BY <3>2, <3>3 DEF Entra, LivreEm
    <3>6. d \in D!Incluidos /\ ~D!Elegivel(d) => D!Cancelado(d) \/ d.tipo = "CTE"
      BY <3>2, <3>3 DEF Entra, LivreEm, D!Elegivel, D!Cancelado, D!Situacoes
    <3> QED
      BY <3>4, <3>5, <3>6
  <2>3. Cardinality(D!Lidos) = excluded + Cardinality(D!Incluidos)
           + Cardinality({d \in D!Lidos \ D!Incluidos :
                            D!Livre(d) /\ d.tipo = "CTE" /\ d.cte = "AUSENTE"})
    <3> DEFINE X == {d \in D!Lidos : Excluido(d)}
               V == {d \in D!Lidos \ D!Incluidos :
                            D!Livre(d) /\ d.tipo = "CTE" /\ d.cte = "AUSENTE"}
    <3>1. /\ D!Lidos = D!Incluidos \cup X \cup V
          /\ D!Incluidos \cap X = {} /\ D!Incluidos \cap V = {} /\ X \cap V = {}
      BY <2>1 DEF Excluido, Entra, Ausente
    <3>2. IsFiniteSet(D!Lidos)
      BY LidosFinitos
    <3>3. excluded = Cardinality(X)
      BY <2>1
    <3> HIDE DEF V, X
    <3>4. Cardinality(D!Lidos) = Cardinality(X) + Cardinality(D!Incluidos) + Cardinality(V)
      BY <3>1, <3>2, ContagemO
    <3> QED
      BY <3>3, <3>4 DEF V
  <2> QED
    BY <2>2, <2>3, MesmoTamanho DEF D!NadaSeOmite
<1>2. CASE fase \notin Pronto
  BY <1>2 DEF D!NadaSeOmite, D!PodeGerar, Pronto
<1> QED
  BY <1>1, <1>2

(* EfdIcmsIpiService.gerar and SpedInventarioService.atualizar: in the      *)
(* composition the catalogue and the files are written by nothing else, so  *)
(* what is proved of the generations holds there.                           *)
THEOREM GeracoesNoSped == SpedSpec => GeracaoSpec
<1>1. SpedInit => GeracaoInit
  BY DEF SpedInit
<1>2. [SpedNext]_<<parte, doPreparo, geracaoVars, daApuracao>> => [GeracaoNext]_geracaoVars
  <2> SUFFICES ASSUME [SpedNext]_<<parte, doPreparo, geracaoVars, daApuracao>>
               PROVE  [GeracaoNext]_geracaoVars
    OBVIOUS
  <2>1. CASE PassoGeracao
    <3>1. CASE \E d \in Datas, s \in {"RASCUNHO", "FECHADO"} :
                 \E I \in SUBSET Itens : \E ls \in [I -> Unidades] :
                    NaGeracao(EditarInventario(d, s, ls))
      BY <3>1 DEF NaGeracao, GeracaoNext
    <3>2. CASE \E g \in Geracoes :
                 \/ \E c \in Competencias : NaGeracao(Iniciar(g, c))
                 \/ NaGeracao(Preparar(g)) \/ NaGeracao(Gravar(g)) \/ NaGeracao(Abortar(g))
                 \/ NaGeracao(Armazenar(g)) \/ NaGeracao(Registrar(g))
                 \/ NaGeracao(Falhar(g)) \/ NaGeracao(Interromper(g))
      BY <3>2 DEF NaGeracao, GeracaoNext
    <3> QED
      BY <2>1, <3>1, <3>2 DEF PassoGeracao
  <2>2. CASE PassoPreparo \/ NaApuracao(A!Apurar)
    BY <2>2 DEF PassoPreparo, NoPreparo, NaApuracao
  <2>3. CASE UNCHANGED <<parte, doPreparo, geracaoVars, daApuracao>>
    BY <2>3
  <2> QED
    BY <2>1, <2>2, <2>3 DEF SpedNext
<1> QED
  BY <1>1, <1>2, PTL DEF SpedSpec, GeracaoSpec

-----------------------------------------------------------------------------
(* The preparation inside the composed specification. *)

PInv == parte = "preparo" => LInv /\ RInv /\ OInv

LEMMA InicioP ==
  ASSUME SpedAssumption, SpedInit
  PROVE  PInv
<1> SUFFICES ASSUME parte = "preparo" PROVE LInv /\ RInv /\ OInv
  BY DEF PInv
<1>1. D!EfdAssumption /\ D!EfdInit
  BY DEF SpedAssumption, SpedInit
<1> QED
  BY <1>1, InicioL, InicioR, InicioO

LEMMA PassoP ==
  ASSUME SpedAssumption, PInv,
         [SpedNext]_<<parte, doPreparo, geracaoVars, daApuracao>>
  PROVE  PInv'
<1>1. D!EfdAssumption
  BY DEF SpedAssumption
<1>2. CASE PassoPreparo
  <2>1. parte = "preparo" /\ D!EfdNext
    BY <1>2 DEF PassoPreparo, NoPreparo, D!EfdNext
  <2> QED
    BY <1>1, <2>1, PassoL, PassoR, PassoO DEF PInv
<1>3. CASE PassoGeracao \/ NaApuracao(A!Apurar)
  <2>1. parte # "preparo" /\ parte' = parte
    BY <1>3 DEF PassoGeracao, NaGeracao, NaApuracao
  <2> QED
    BY <2>1 DEF PInv
<1>4. CASE UNCHANGED <<parte, doPreparo, geracaoVars, daApuracao>>
  <2>1. /\ parte' = parte
        /\ UNCHANGED <<entrada, fase, fila, atual, participantes, unidades, itensCatalogo>>
        /\ UNCHANGED <<nfe, cte, excluded, pending, inconsistencias>>
    BY <1>4 DEF doPreparo
  <2>2. LInv => LInv'
    BY <2>1 DEF LInv, D!EfdTypeOK, EmCurso
  <2>3. RInv => RInv'
    <3>1. /\ UNCHANGED D!Inventario
          /\ \A r : Declarado(r) => Declarado(r)'
          /\ \A l : Contada(l) => Contada(l)'
      BY <2>1 DEF D!Inventario, Declarado, Contada
    <3>2. Codigos => Codigos'
      BY <2>1 DEF Codigos, D!CodigoParticipante
    <3>3. Partes => Partes'
      BY <2>1 DEF Partes, D!R0150
    <3>4. Registros => Registros'
      BY <2>1 DEF Registros
    <3>5. Declarados => Declarados'
      BY <2>1, <3>1 DEF Declarados, D!EmiteC170
    <3>6. Grafias(unidades)' <=> Grafias(unidades)
      BY <2>1 DEF Grafias
    <3> QED
      BY <2>1, <3>1, <3>2, <3>3, <3>4, <3>5, <3>6 DEF RInv
  <2>4. OInv => OInv'
    BY <2>1, QuietoO
  <2> QED
    BY <2>1, <2>2, <2>3, <2>4 DEF PInv
<1> QED
  BY <1>2, <1>3, <1>4 DEF SpedNext

(* EfdIcmsIpiService.preparar: where the loop stands, what block 0 holds    *)
(* and what became of every document read agree at every step.              *)
THEOREM InvarianteDoPreparo ==
  ASSUME SpedAssumption
  PROVE  SpedSpec => []PInv
<1>1. SpedInit => PInv
  BY InicioP
<1>2. PInv /\ [SpedNext]_<<parte, doPreparo, geracaoVars, daApuracao>> => PInv'
  BY PassoP
<1> QED
  BY <1>1, <1>2, PTL DEF SpedSpec

(* preparar, runPreflightPva: whatever the documents, the spellings of the  *)
(* units, the inventory and the codes stored before, every code of the file *)
(* refers to one register of block 0.                                       *)
THEOREM ReferenciasSempreFecham ==
  ASSUME SpedAssumption
  PROVE  SpedSpec => []ReferenciasFecham
<1>1. PInv => ReferenciasFecham
  <2> SUFFICES ASSUME PInv, parte = "preparo"
               PROVE  D!EfdTypeOK /\ D!ReferenciasFecham /\ D!UnidadeFiel
    BY DEF ReferenciasFecham
  <2>1. D!EfdAssumption /\ LInv /\ RInv
    BY DEF SpedAssumption, PInv
  <2> QED
    BY <2>1, FechaReferencias DEF LInv
<1> QED
  BY <1>1, InvarianteDoPreparo, PTL

(* preparar: a file that may be generated holds every authorised document   *)
(* but the invoices and CT-es whose other party is the client itself, which *)
(* resolveParticipant counts as excluded with no finding                    *)
(* (efd-icms-ipi.service.ts:1340); it holds no refused one and no summary;  *)
(* and every document read is in it, excluded, or a cancelled CT-e never    *)
(* booked.                                                                  *)
THEOREM NadaSempreSeOmite ==
  ASSUME SpedAssumption
  PROVE  SpedSpec => []NadaSeOmite
<1>1. PInv => NadaSeOmite
  <2> SUFFICES ASSUME PInv, parte = "preparo" PROVE D!NadaSeOmite
    BY DEF NadaSeOmite
  <2>1. D!EfdAssumption /\ LInv /\ OInv
    BY DEF SpedAssumption, PInv
  <2> QED
    BY <2>1, FechaOmissao
<1> QED
  BY <1>1, InvarianteDoPreparo, PTL

-----------------------------------------------------------------------------
(* Sums. The library adds the values of a function in the order CHOOSE      *)
(* takes the elements of its domain; over natural numbers and a finite      *)
(* domain the order does not matter, a sum may be taken part by part, and   *)
(* elements may be renamed.                                                 *)

(* What holds of a finite set because it holds of the sets with one element *)
(* fewer holds of all its subsets.                                          *)
LEMMA InducaoFinita ==
  ASSUME NEW T, IsFiniteSet(T), NEW G,
         \A s \in SUBSET T : (\A x \in s : s \ {x} \in G) => s \in G
  PROVE  SUBSET T \subseteq G
<1> DEFINE Maus == {n \in Nat : \E s \in SUBSET T : Cardinality(s) = n /\ s \notin G}
<1>1. \A s \in SUBSET T : IsFiniteSet(s) /\ Cardinality(s) \in Nat
  BY FS_Subset, FS_CardinalityType
<1>2. Maus = {}
  <2> SUFFICES ASSUME Maus # {} PROVE FALSE
    OBVIOUS
  <2>1. PICK n \in Maus : \A k \in Maus : n <= k
    BY MenorNumero
  <2>2. PICK s \in SUBSET T : Cardinality(s) = n /\ s \notin G
    BY <2>1
  <2>3. PICK x \in s : s \ {x} \notin G
    BY <2>2
  <2>4. Cardinality(s \ {x}) = n - 1 /\ s \ {x} \in SUBSET T
    BY <1>1, <2>2, <2>3, FS_RemoveElement
  <2>5. n - 1 \in Maus
    BY <1>1, <2>3, <2>4
  <2> QED
    BY <2>1, <2>5
<1> QED
  BY <1>1, <1>2

(* An element fewer. *)
Escolha(s) == CHOOSE x \in s : TRUE

LEMMA UmAMenos ==
  ASSUME NEW s, IsFiniteSet(s), s # {}
  PROVE  /\ Escolha(s) \in s /\ IsFiniteSet(s \ {Escolha(s)})
         /\ Cardinality(s) \in Nat \ {0}
         /\ Cardinality(s \ {Escolha(s)}) = Cardinality(s) - 1
<1>1. Escolha(s) \in s
  BY DEF Escolha
<1>2. Cardinality(s) \in Nat /\ Cardinality(s) # 0
  BY FS_CardinalityType, FS_EmptySet
<1> QED
  BY <1>1, <1>2, FS_RemoveElement

Passada(f, T, g) ==
  [s \in SUBSET T |-> IF s = {} THEN 0 ELSE f[Escolha(s)] + g[s \ {Escolha(s)}]]

Fixa(f, T, g) == g = Passada(f, T, g)

Soma(f, T) == (CHOOSE g : g = Passada(f, T, g))[T]

Somavel(f, T) == IsFiniteSet(T) /\ \A x \in T : f[x] \in Nat

LEMMA SomaDaBiblioteca ==
  ASSUME NEW f
  PROVE  A!SumFunction(f) = Soma(f, DOMAIN f)
BY DEF A!SumFunction, A!SumFunctionOnSet, A!FoldFunctionOnSet, A!MapThenFoldSet, Passada,
       Escolha, Soma

(* A function that sums every subset of up to n elements. *)
SomaAte(f, T, n, g) ==
  /\ g \in [SUBSET T -> Nat]
  /\ \A s \in SUBSET T : Cardinality(s) <= n => g[s] = Passada(f, T, g)[s]

LEMMA PassadaEm ==
  ASSUME NEW f, NEW T, NEW g, NEW s \in SUBSET T
  PROVE  Passada(f, T, g)[s] = IF s = {} THEN 0 ELSE f[Escolha(s)] + g[s \ {Escolha(s)}]
BY DEF Passada

(* A function that sums every subset exists. *)
LEMMA HaSoma ==
  ASSUME NEW f, NEW T, Somavel(f, T)
  PROVE  \E g : Fixa(f, T, g) /\ g \in [SUBSET T -> Nat]
<1>0. IsFiniteSet(T) /\ \A x \in T : f[x] \in Nat
  BY DEF Somavel
<1>1. \A s \in SUBSET T : /\ IsFiniteSet(s) /\ Cardinality(s) \in Nat
                          /\ Cardinality(s) <= Cardinality(T)
  BY <1>0, FS_Subset, FS_CardinalityType
<1> DEFINE Faltam == {n \in Nat : ~ \E g : SomaAte(f, T, n, g)}
<1>2. Faltam = {}
  <2> SUFFICES ASSUME Faltam # {} PROVE FALSE
    OBVIOUS
  <2>1. PICK n \in Faltam : \A k \in Faltam : n <= k
    BY MenorNumero
  <2>2. n # 0
    <3> DEFINE g == [s \in SUBSET T |-> 0]
    <3>1. ASSUME NEW s \in SUBSET T, Cardinality(s) <= 0 PROVE s = {}
      <4>1. IsFiniteSet(s) /\ Cardinality(s) = 0
        BY <1>1, <3>1
      <4> QED
        BY <4>1, FS_EmptySet
    <3>2. SomaAte(f, T, 0, g)
      BY <3>1 DEF SomaAte, Passada
    <3> HIDE DEF g
    <3> QED
      BY <2>1, <3>2
  <2>3. n - 1 \in Nat /\ n - 1 \notin Faltam /\ n \in Nat
    BY <2>1, <2>2
  <2>4. PICK g : SomaAte(f, T, n - 1, g)
    BY <2>3
  <2> DEFINE h == [s \in SUBSET T |->
                     IF Cardinality(s) <= n - 1 THEN g[s] ELSE Passada(f, T, g)[s]]
  <2>5. ASSUME NEW s \in SUBSET T PROVE Passada(f, T, g)[s] \in Nat
    <3>0. Passada(f, T, g)[s] = IF s = {} THEN 0 ELSE f[Escolha(s)] + g[s \ {Escolha(s)}]
      BY DEF Passada
    <3>1. CASE s = {}
      BY <3>0, <3>1
    <3>2. CASE s # {}
      <4>1. Escolha(s) \in T /\ s \ {Escolha(s)} \in SUBSET T
        BY <1>1, <3>2, UmAMenos
      <4>2. f[Escolha(s)] \in Nat /\ g[s \ {Escolha(s)}] \in Nat
        BY <1>0, <2>4, <4>1 DEF SomaAte
      <4> QED
        BY <3>0, <3>2, <4>2
    <3> QED
      BY <3>1, <3>2
  <2>6. h \in [SUBSET T -> Nat]
    BY <2>4, <2>5 DEF SomaAte
  <2>7. \A s \in SUBSET T : Cardinality(s) <= n => h[s] = Passada(f, T, g)[s]
    BY <2>4 DEF SomaAte
  <2>8. \A s \in SUBSET T : Cardinality(s) <= n - 1 => h[s] = g[s]
    OBVIOUS
  <2> HIDE DEF h
  <2>9. ASSUME NEW s \in SUBSET T, Cardinality(s) <= n
        PROVE  Passada(f, T, h)[s] = Passada(f, T, g)[s]
    <3>1. CASE s = {}
      BY <3>1, PassadaEm
    <3>2. CASE s # {}
      <4>1. s \ {Escolha(s)} \in SUBSET T /\ Cardinality(s \ {Escolha(s)}) <= n - 1
        BY <1>1, <2>3, <2>9, <3>2, UmAMenos
      <4>2. h[s \ {Escolha(s)}] = g[s \ {Escolha(s)}]
        BY <2>8, <4>1
      <4> QED
        BY <3>2, <4>2, PassadaEm
    <3> QED
      BY <3>1, <3>2
  <2>10. SomaAte(f, T, n, h)
    BY <2>6, <2>7, <2>9 DEF SomaAte
  <2> QED
    BY <2>1, <2>10
<1>3. PICK g : SomaAte(f, T, Cardinality(T), g)
  <2>1. Cardinality(T) \in Nat
    BY <1>0, FS_CardinalityType
  <2> HIDE DEF Faltam
  <2>2. Cardinality(T) \notin Faltam
    BY <1>2
  <2> QED
    BY <2>1, <2>2 DEF Faltam
<1>4. g = Passada(f, T, g)
  <2>1. /\ DOMAIN Passada(f, T, g) = SUBSET T
        /\ Passada(f, T, g) = [s \in SUBSET T |-> Passada(f, T, g)[s]]
    BY DEF Passada
  <2>2. g = [s \in SUBSET T |-> g[s]]
    BY <1>3 DEF SomaAte
  <2>3. \A s \in SUBSET T : g[s] = Passada(f, T, g)[s]
    BY <1>1, <1>3 DEF SomaAte
  <2> QED
    BY <2>1, <2>2, <2>3
<1> QED
  BY <1>3, <1>4 DEF Fixa, SomaAte

(* Such a function says of each subset what its sum is. *)
LEMMA FixaEm ==
  ASSUME NEW f, NEW T, NEW g, Fixa(f, T, g), NEW s \in SUBSET T
  PROVE  g[s] = IF s = {} THEN 0 ELSE f[Escolha(s)] + g[s \ {Escolha(s)}]
<1>1. g[s] = Passada(f, T, g)[s]
  BY DEF Fixa
<1> QED
  BY <1>1, PassadaEm

LEMMA Unica ==
  ASSUME NEW f, NEW T, NEW g, Fixa(f, T, g), NEW e, NEW U, NEW h, Fixa(e, U, h),
         NEW S, IsFiniteSet(S), S \subseteq T, S \subseteq U, \A x \in S : f[x] = e[x]
  PROVE  g[S] = h[S]
<1> DEFINE G == {s \in SUBSET S : g[s] = h[s]}
<1>1. ASSUME NEW s \in SUBSET S, \A x \in s : s \ {x} \in G
      PROVE  s \in G
  <2>1. /\ g[s] = IF s = {} THEN 0 ELSE f[Escolha(s)] + g[s \ {Escolha(s)}]
        /\ h[s] = IF s = {} THEN 0 ELSE e[Escolha(s)] + h[s \ {Escolha(s)}]
    BY FixaEm
  <2>2. s # {} => Escolha(s) \in s
    BY DEF Escolha
  <2> QED
    BY <1>1, <2>1, <2>2
<1> HIDE DEF G
<1>2. SUBSET S \subseteq G
  BY <1>1, InducaoFinita
<1> QED
  BY <1>2 DEF G

LEMMA SomaFixa ==
  ASSUME NEW f, NEW T, Somavel(f, T)
  PROVE  \E g : /\ Fixa(f, T, g) /\ g \in [SUBSET T -> Nat]
                /\ \A s \in SUBSET T : Soma(f, s) = g[s]
<1>1. PICK g : Fixa(f, T, g) /\ g \in [SUBSET T -> Nat]
  BY HaSoma
<1>2. ASSUME NEW s \in SUBSET T PROVE Soma(f, s) = g[s]
  <2> DEFINE h == CHOOSE h : h = Passada(f, s, h)
  <2>1. Somavel(f, s)
    BY FS_Subset DEF Somavel
  <2>2. Fixa(f, s, h)
    BY <2>1, HaSoma DEF Fixa
  <2>3. Soma(f, s) = h[s]
    BY DEF Soma
  <2> HIDE DEF h
  <2> QED
    BY <1>1, <2>1, <2>2, <2>3, Unica DEF Somavel
<1> QED
  BY <1>1, <1>2

(* Only the values over the set count. *)
LEMMA SomaLocal ==
  ASSUME NEW f, NEW e, NEW S, Somavel(f, S), \A x \in S : f[x] = e[x]
  PROVE  Soma(f, S) = Soma(e, S)
<1>1. Somavel(e, S) /\ IsFiniteSet(S) /\ S \in SUBSET S
  BY DEF Somavel
<1>2. PICK g : Fixa(f, S, g) /\ Soma(f, S) = g[S]
  BY <1>1, SomaFixa
<1>3. PICK h : Fixa(e, S, h) /\ Soma(e, S) = h[S]
  BY <1>1, SomaFixa
<1> QED
  BY <1>1, <1>2, <1>3, Unica

(* One element at a time, the one CHOOSE takes. *)
LEMMA SomaPasso ==
  ASSUME NEW f, NEW S, Somavel(f, S)
  PROVE  /\ Soma(f, S) \in Nat
         /\ S = {} => Soma(f, S) = 0
         /\ S # {} => Soma(f, S) = f[Escolha(S)] + Soma(f, S \ {Escolha(S)})
<1>1. PICK g : /\ Fixa(f, S, g) /\ g \in [SUBSET S -> Nat]
               /\ \A s \in SUBSET S : Soma(f, s) = g[s]
  BY SomaFixa
<1>2. S \in SUBSET S /\ S \ {Escolha(S)} \in SUBSET S
  OBVIOUS
<1> QED
  BY <1>1, <1>2, FixaEm

(* One element at a time, in any order. *)
LEMMA SomaRetira ==
  ASSUME NEW f, NEW S, Somavel(f, S), NEW y \in S
  PROVE  Soma(f, S) = f[y] + Soma(f, S \ {y})
<1> DEFINE G == {s \in SUBSET S : \A x \in s : Soma(f, s) = f[x] + Soma(f, s \ {x})}
<1>1. ASSUME NEW s \in SUBSET S PROVE Somavel(f, s)
  BY FS_Subset DEF Somavel
<1>2. ASSUME NEW s \in SUBSET S, \A x \in s : s \ {x} \in G
      PROVE  s \in G
  <2> SUFFICES ASSUME NEW x \in s PROVE Soma(f, s) = f[x] + Soma(f, s \ {x})
    OBVIOUS
  <2> DEFINE z == Escolha(s)
  <2>1. z \in s /\ Soma(f, s) = f[z] + Soma(f, s \ {z})
    BY <1>1, SomaPasso DEF Escolha
  <2> HIDE DEF z
  <2>2. CASE x = z
    BY <2>1, <2>2
  <2>3. CASE x # z
    <3>1. Soma(f, s \ {z}) = f[x] + Soma(f, (s \ {z}) \ {x})
      BY <1>2, <2>1, <2>3
    <3>2. Soma(f, s \ {x}) = f[z] + Soma(f, (s \ {x}) \ {z})
      BY <1>2, <2>1, <2>3
    <3>3. Soma(f, (s \ {z}) \ {x}) = Soma(f, (s \ {x}) \ {z})
      <4>1. (s \ {z}) \ {x} = (s \ {x}) \ {z}
        OBVIOUS
      <4> QED
        BY <4>1, Zenon
    <3>4. f[x] \in Nat /\ f[z] \in Nat /\ Soma(f, (s \ {x}) \ {z}) \in Nat
      <4>1. (s \ {x}) \ {z} \in SUBSET S
        OBVIOUS
      <4> QED
        BY <1>1, <2>1, <4>1, SomaPasso DEF Somavel
    <3> QED
      BY <2>1, <3>1, <3>2, <3>3, <3>4
  <2> QED
    BY <2>2, <2>3
<1> HIDE DEF G
<1>3. SUBSET S \subseteq G
  BY <1>2, InducaoFinita DEF Somavel
<1> QED
  BY <1>3 DEF G

(* Two sets apart. *)
LEMMA SomaUniao ==
  ASSUME NEW f, NEW R, NEW S, Somavel(f, R \cup S), R \cap S = {}
  PROVE  Soma(f, R \cup S) = Soma(f, R) + Soma(f, S)
<1> DEFINE G == {s \in SUBSET S : Soma(f, R \cup s) = Soma(f, R) + Soma(f, s)}
<1>1. ASSUME NEW s \in SUBSET (R \cup S) PROVE Somavel(f, s)
  BY FS_Subset DEF Somavel
<1>2. ASSUME NEW s \in SUBSET S, \A x \in s : s \ {x} \in G
      PROVE  s \in G
  <2>1. CASE s = {}
    <3>1. Soma(f, s) = 0 /\ Soma(f, R) \in Nat
      BY <1>1, <2>1, SomaPasso
    <3>2. R \cup s = R
      BY <2>1
    <3>3. Soma(f, R \cup s) = Soma(f, R)
      BY <3>2, Zenon
    <3> QED
      BY <3>1, <3>3
  <2>2. CASE s # {}
    <3>1. PICK x : x \in s
      BY <2>2
    <3>2. Soma(f, s) = f[x] + Soma(f, s \ {x})
      BY <1>1, <3>1, SomaRetira
    <3>3. Soma(f, R \cup s) = f[x] + Soma(f, R \cup (s \ {x}))
      <4>1. (R \cup s) \ {x} = R \cup (s \ {x}) /\ x \in R \cup s
        BY <3>1
      <4>2. Somavel(f, R \cup s)
        BY <1>1
      <4> QED
        BY <4>1, <4>2, SomaRetira
    <3>4. Soma(f, R \cup (s \ {x})) = Soma(f, R) + Soma(f, s \ {x})
      BY <1>2, <3>1
    <3>5. f[x] \in Nat /\ Soma(f, R) \in Nat /\ Soma(f, s \ {x}) \in Nat
      <4>1. s \ {x} \in SUBSET (R \cup S) /\ R \in SUBSET (R \cup S) /\ x \in R \cup S
        BY <3>1
      <4> QED
        BY <1>1, <4>1, SomaPasso DEF Somavel
    <3> QED
      BY <3>2, <3>3, <3>4, <3>5
  <2> QED
    BY <2>1, <2>2
<1> HIDE DEF G
<1>3. SUBSET S \subseteq G
  <2>1. IsFiniteSet(S)
    BY FS_Subset DEF Somavel
  <2> QED
    BY <1>2, <2>1, InducaoFinita
<1> QED
  BY <1>3 DEF G

(* Part by part: the parts have names, and no two share an element. *)
Repartida(S, K, P) ==
  /\ P = [k \in K |-> P[k]] /\ S = UNION {P[k] : k \in K}
  /\ \A k, l \in K : k # l => P[k] \cap P[l] = {}

LEMMA SomaPorPartes ==
  ASSUME NEW f, NEW S, NEW K, NEW P, NEW q, Somavel(f, S), IsFiniteSet(K),
         Repartida(S, K, P), \A k \in K : q[k] = Soma(f, P[k])
  PROVE  Soma(f, S) = Soma(q, K) /\ Somavel(q, K)
<1> DEFINE U(J) == UNION {P[k] : k \in J}
           G == {J \in SUBSET K : Soma(f, U(J)) = Soma(q, J)}
<1>1. ASSUME NEW s \in SUBSET S PROVE Somavel(f, s)
  BY FS_Subset DEF Somavel
<1>2. \A k \in K : P[k] \in SUBSET S
  BY DEF Repartida
<1>3. \A k \in K : q[k] \in Nat
  BY <1>1, <1>2, SomaPasso
<1>4. ASSUME NEW J \in SUBSET K PROVE Somavel(q, J) /\ U(J) \in SUBSET S
  <2>1. Somavel(q, J)
    BY <1>3, FS_Subset DEF Somavel
  <2> QED
    BY <1>2, <2>1
<1>5. ASSUME NEW J \in SUBSET K, \A k \in J : J \ {k} \in G
      PROVE  J \in G
  <2>1. CASE J = {}
    <3>1. U(J) = {}
      BY <2>1
    <3>2. Soma(f, U(J)) = 0
      BY <1>1, <3>1, SomaPasso
    <3>3. Soma(q, J) = 0
      BY <1>4, <2>1, SomaPasso
    <3> QED
      BY <3>2, <3>3
  <2>2. CASE J # {}
    <3>1. PICK k : k \in J
      BY <2>2
    <3>2. U(J) = P[k] \cup U(J \ {k})
      BY <3>1
    <3>3. P[k] \cap U(J \ {k}) = {}
      BY <3>1 DEF Repartida
    <3>4. Somavel(f, P[k] \cup U(J \ {k}))
      BY <1>1, <1>4, <3>2
    <3>5. Soma(f, U(J)) = Soma(f, P[k]) + Soma(f, U(J \ {k}))
      <4>1. Soma(f, P[k] \cup U(J \ {k})) = Soma(f, P[k]) + Soma(f, U(J \ {k}))
        BY <3>3, <3>4, SomaUniao
      <4>2. Soma(f, U(J)) = Soma(f, P[k] \cup U(J \ {k}))
        BY <3>2, Zenon
      <4> QED
        BY <4>1, <4>2
    <3>6. Soma(q, J) = q[k] + Soma(q, J \ {k})
      BY <1>4, <3>1, SomaRetira
    <3>7. Soma(f, U(J \ {k})) = Soma(q, J \ {k})
      BY <1>5, <3>1
    <3>8. q[k] = Soma(f, P[k])
      BY <3>1
    <3> QED
      BY <3>5, <3>6, <3>7, <3>8
  <2> QED
    BY <2>1, <2>2
<1>6. S = U(K) /\ K \in SUBSET K
  BY DEF Repartida
<1> HIDE DEF G, U
<1>7. SUBSET K \subseteq G
  BY <1>5, InducaoFinita
<1>8. Somavel(q, K)
  BY <1>4, <1>6
<1> QED
  BY <1>6, <1>7, <1>8 DEF G

(* The elements may be renamed. *)
LEMMA SomaRenomeia ==
  ASSUME NEW f, NEW K, NEW r, NEW q, IsFiniteSet(K), \A k \in K : f[r[k]] \in Nat,
         \A k, l \in K : r[k] = r[l] => k = l, \A k \in K : q[k] = f[r[k]]
  PROVE  Soma(f, {r[k] : k \in K}) = Soma(q, K)
<1> DEFINE S == {r[k] : k \in K}
           P == [k \in K |-> {r[k]}]
<1>1. ASSUME NEW y, f[y] \in Nat PROVE Soma(f, {y}) = f[y]
  <2>1. IsFiniteSet({y}) /\ IsFiniteSet({}) /\ y \in {y} /\ {y} \ {y} = {}
    BY FS_Singleton, FS_EmptySet
  <2>2. Somavel(f, {y}) /\ Somavel(f, {})
    BY <1>1, <2>1 DEF Somavel
  <2>3. Soma(f, {y}) = f[y] + Soma(f, {})
    BY <2>1, <2>2, SomaRetira
  <2>4. Soma(f, {}) = 0
    BY <2>2, SomaPasso
  <2> QED
    BY <1>1, <2>3, <2>4
<1>2. IsFiniteSet(S)
  <2> DEFINE g == [k \in K |-> r[k]]
  <2>1. g \in Surjection(K, S)
    BY DEF Surjection
  <2> HIDE DEF g, S
  <2> QED
    BY <2>1, FS_Surjection
<1>3. Somavel(f, S)
  BY <1>2 DEF Somavel
<1>4. Repartida(S, K, P)
  BY DEF Repartida
<1>5. \A k \in K : q[k] = Soma(f, P[k])
  BY <1>1
<1> HIDE DEF S, P
<1>6. Soma(f, S) = Soma(q, K)
  BY <1>3, <1>4, <1>5, SomaPorPartes
<1> QED
  BY <1>6 DEF S

(* What adds nothing may be left out. *)
LEMMA SomaSemZeros ==
  ASSUME NEW f, NEW S, NEW R, Somavel(f, S), R \subseteq S, \A x \in S \ R : f[x] = 0
  PROVE  Soma(f, S) = Soma(f, R)
<1> DEFINE Z == S \ R
           G == {s \in SUBSET Z : Soma(f, s) = 0}
<1>1. ASSUME NEW s \in SUBSET S PROVE Somavel(f, s)
  BY FS_Subset DEF Somavel
<1>2. ASSUME NEW s \in SUBSET Z, \A x \in s : s \ {x} \in G
      PROVE  s \in G
  <2>1. CASE s = {}
    BY <1>1, <2>1, SomaPasso
  <2>2. CASE s # {}
    <3>1. PICK x : x \in s
      BY <2>2
    <3>2. Soma(f, s) = f[x] + Soma(f, s \ {x})
      BY <1>1, <3>1, SomaRetira
    <3>3. f[x] = 0 /\ Soma(f, s \ {x}) = 0
      BY <1>2, <3>1
    <3> QED
      BY <3>2, <3>3
  <2> QED
    BY <2>1, <2>2
<1> HIDE DEF G, Z
<1>3. SUBSET Z \subseteq G
  <2>1. IsFiniteSet(Z)
    BY <1>1 DEF Somavel, Z
  <2> QED
    BY <1>2, <2>1, InducaoFinita
<1>4. Soma(f, Z) = 0
  BY <1>3 DEF G
<1>5. R \cup Z = S /\ R \cap Z = {}
  BY DEF Z
<1>6. Soma(f, S) = Soma(f, R) + Soma(f, Z)
  BY <1>5, SomaUniao
<1>7. Soma(f, R) \in Nat
  BY <1>1, SomaPasso
<1> QED
  BY <1>4, <1>6, <1>7

-----------------------------------------------------------------------------
(* The taxes of a month. *)

(* What is computed has a natural sum. *)
LEMMA SomaDe ==
  ASSUME NEW f, Somavel(f, DOMAIN f)
  PROVE  A!SumFunction(f) = Soma(f, DOMAIN f) /\ A!SumFunction(f) \in Nat
BY SomaDaBiblioteca, SomaPasso

ItensDaNota(c, n) == {<<n, k>> : k \in DOMAIN c.notas[n].itens}

LEMMA Finitos ==
  ASSUME NEW c, A!CasoValido(c), NEW saida
  PROVE  /\ IsFiniteSet(A!Notas(c, saida)) /\ IsFiniteSet(A!ItensDe(c, saida))
         /\ \A n \in A!Notas(c, saida) : IsFiniteSet(ItensDaNota(c, n))
<1>1. IsFiniteSet(A!Notas(c, saida))
  <2>1. IsFiniteSet(DOMAIN c.notas) /\ A!Notas(c, saida) \subseteq DOMAIN c.notas
    BY DEF A!CasoValido, A!Notas, A!IsFiniteSet, IsFiniteSet
  <2> QED
    BY <2>1, FS_Subset
<1>2. ASSUME NEW n \in A!Notas(c, saida) PROVE IsFiniteSet(ItensDaNota(c, n))
  <2> DEFINE K == DOMAIN c.notas[n].itens
             g == [k \in K |-> <<n, k>>]
  <2>1. IsFiniteSet(K)
    BY DEF A!CasoValido, A!Notas, A!IsFiniteSet, IsFiniteSet
  <2>2. g \in Surjection(K, ItensDaNota(c, n))
    BY DEF Surjection, ItensDaNota
  <2> HIDE DEF g, K
  <2> QED
    BY <2>1, <2>2, FS_Surjection
<1>3. IsFiniteSet(A!ItensDe(c, saida))
  <2> DEFINE N == A!Notas(c, saida)
             S == {ItensDaNota(c, n) : n \in N}
             g == [n \in N |-> ItensDaNota(c, n)]
  <2>1. g \in Surjection(N, S)
    BY DEF Surjection
  <2>2. A!ItensDe(c, saida) = UNION S
    BY DEF A!ItensDe, ItensDaNota
  <2>3. \A s \in S : IsFiniteSet(s)
    BY <1>2
  <2> HIDE DEF g, N, S
  <2>4. IsFiniteSet(S)
    BY <1>1, <2>1, FS_Surjection DEF N
  <2> QED
    BY <2>2, <2>3, <2>4, FS_UNION
<1> QED
  BY <1>1, <1>2, <1>3

(* An item of an invoice. *)
LEMMA ItemNatural ==
  ASSUME NEW c, A!CasoValido(c), NEW saida, NEW p \in A!ItensDe(c, saida)
  PROVE  /\ p[1] \in A!Notas(c, saida) /\ p \in ItensDaNota(c, p[1])
         /\ p[2] \in DOMAIN c.notas[p[1]].itens
         /\ LET i == A!ItemDe(c, p)
            IN  {i.icms, i.creditoSn, i.st, i.fcp, i.fcpSt, i.difal, i.fcpDestino, i.ipi}
                   \subseteq Nat
<1>1. PICK n \in A!Notas(c, saida) : p \in {<<n, k>> : k \in DOMAIN c.notas[n].itens}
  BY DEF A!ItensDe
<1>2. PICK k \in DOMAIN c.notas[n].itens : p = <<n, k>>
  BY <1>1
<1>3. p[1] = n /\ p[2] = k
  BY <1>2
<1>4. n \in DOMAIN c.notas
  BY DEF A!Notas
<1> QED
  BY <1>1, <1>3, <1>4 DEF A!CasoValido, A!ItemDe, ItensDaNota

(* The C190 of an invoice add up to its items. *)
LEMMA C190Soma ==
  ASSUME NEW c, A!CasoValido(c), NEW n \in A!Notas(c, TRUE), NEW f,
         \A k \in DOMAIN c.notas[n].itens : f[<<n, k>>] = c.notas[n].itens[k].icms
  PROVE  Soma(f, ItensDaNota(c, n)) = A!SumFunction(A!C190(c, n))
<1> DEFINE itens == c.notas[n].itens
           K == DOMAIN itens
           w == [k \in K |-> itens[k].icms]
           r == [k \in K |-> <<n, k>>]
           grupos == {itens[k].grupo : k \in K}
           P == [g \in grupos |-> {j \in K : itens[j].grupo = g}]
           q == A!C190(c, n)
<1>1. IsFiniteSet(K) /\ \A k \in K : itens[k].icms \in Nat
  <2>1. n \in DOMAIN c.notas
    BY DEF A!Notas
  <2> QED
    BY <2>1 DEF A!CasoValido, A!IsFiniteSet, IsFiniteSet
<1>2. Somavel(w, K)
  BY <1>1 DEF Somavel
<1>3. Soma(f, ItensDaNota(c, n)) = Soma(w, K)
  <2>1. \A k \in K : r[k] = <<n, k>> /\ f[r[k]] = w[k] /\ f[r[k]] \in Nat
    BY <1>1
  <2>2. \A k, l \in K : r[k] = r[l] => k = l
    OBVIOUS
  <2>3. ItensDaNota(c, n) = {r[k] : k \in K}
    BY DEF ItensDaNota
  <2> HIDE DEF r, w, K
  <2>4. Soma(f, {r[k] : k \in K}) = Soma(w, K)
    BY <1>1, <2>1, <2>2, SomaRenomeia
  <2> QED
    BY <2>3, <2>4
<1>4. IsFiniteSet(grupos)
  <2> DEFINE h == [k \in K |-> itens[k].grupo]
  <2>1. h \in Surjection(K, grupos)
    BY DEF Surjection
  <2> HIDE DEF h, grupos, K
  <2> QED
    BY <1>1, <2>1, FS_Surjection
<1>5. Repartida(K, grupos, P)
  <2>1. K = UNION {P[g] : g \in grupos}
    <3>1. \A j \in K : itens[j].grupo \in grupos /\ j \in P[itens[j].grupo]
      OBVIOUS
    <3>2. \A g \in grupos : P[g] \subseteq K
      OBVIOUS
    <3> HIDE DEF P, K, grupos
    <3> QED
      BY <3>1, <3>2
  <2>2. \A g, h \in grupos : g # h => P[g] \cap P[h] = {}
    OBVIOUS
  <2> QED
    BY <2>1, <2>2 DEF Repartida
<1>6. DOMAIN q = grupos
  BY DEF A!C190
<1>7. ASSUME NEW g \in grupos PROVE q[g] = Soma(w, P[g])
  <2> DEFINE v == [k \in {j \in K : itens[j].grupo = g} |-> itens[k].icms]
  <2>1. q[g] = A!SumFunction(v)
    BY DEF A!C190
  <2>2. DOMAIN v = P[g] /\ P[g] \subseteq K /\ \A k \in P[g] : v[k] = w[k]
    OBVIOUS
  <2>3. Somavel(w, P[g])
    BY <1>2, <2>2, FS_Subset DEF Somavel
  <2> HIDE DEF v, P, w, q
  <2>4. Somavel(v, P[g])
    BY <2>2, <2>3 DEF Somavel
  <2>5. Soma(v, P[g]) = Soma(w, P[g])
    BY <2>2, <2>4, SomaLocal
  <2>6. A!SumFunction(v) = Soma(v, P[g])
    BY <2>2, SomaDaBiblioteca
  <2> QED
    BY <2>1, <2>5, <2>6
<1> HIDE DEF itens, K, w, r, grupos, P, q
<1>8. Soma(w, K) = Soma(q, grupos)
  BY <1>2, <1>4, <1>5, <1>7, SomaPorPartes
<1>9. A!SumFunction(q) = Soma(q, grupos)
  BY <1>6, SomaDaBiblioteca
<1> QED
  BY <1>3, <1>8, <1>9 DEF q

(* The debits of the invoices are those of their C190. *)
LEMMA DebitosDasNotas ==
  ASSUME NEW c, A!CasoValido(c)
  PROVE  /\ A!SumFunction([p \in A!ItensDe(c, TRUE) |-> A!ItemDe(c, p).icms])
            = A!SumFunction([n \in A!Notas(c, TRUE) |-> A!SumFunction(A!C190(c, n))])
<1> DEFINE I == A!ItensDe(c, TRUE)
           N == A!Notas(c, TRUE)
           f == [p \in I |-> A!ItemDe(c, p).icms]
           q == [n \in N |-> A!SumFunction(A!C190(c, n))]
           P == [n \in N |-> ItensDaNota(c, n)]
<1>1. Somavel(f, I)
  <2>1. \A p \in I : A!ItemDe(c, p).icms \in Nat
    BY ItemNatural
  <2> QED
    BY <2>1, Finitos DEF Somavel
<1>2. Repartida(I, N, P)
  <2>1. I = UNION {P[n] : n \in N}
    BY DEF A!ItensDe, ItensDaNota
  <2>2. \A n, m \in N : n # m => P[n] \cap P[m] = {}
    BY DEF ItensDaNota
  <2> QED
    BY <2>1, <2>2 DEF Repartida
<1>3. ASSUME NEW n \in N PROVE q[n] = Soma(f, P[n])
  <2>1. ASSUME NEW k \in DOMAIN c.notas[n].itens
        PROVE  f[<<n, k>>] = c.notas[n].itens[k].icms
    <3>1. <<n, k>> \in I
      <4>1. <<n, k>> \in {<<n, j>> : j \in DOMAIN c.notas[n].itens}
        OBVIOUS
      <4> QED
        BY <4>1 DEF A!ItensDe
    <3>2. <<n, k>>[1] = n /\ <<n, k>>[2] = k
      OBVIOUS
    <3> QED
      BY <3>1, <3>2 DEF A!ItemDe
  <2> HIDE DEF f
  <2> QED
    BY <2>1, C190Soma
<1>4. DOMAIN f = I /\ DOMAIN q = N
  OBVIOUS
<1>5. IsFiniteSet(N)
  BY Finitos
<1> HIDE DEF I, N, f, q, P
<1>6. Soma(f, I) = Soma(q, N)
  BY <1>1, <1>2, <1>3, <1>5, SomaPorPartes
<1>7. A!SumFunction(f) = A!SumFunction(q)
  BY <1>4, <1>6, SomaDaBiblioteca
<1> QED
  BY <1>7 DEF f, q, I, N

-----------------------------------------------------------------------------
(* The debits of E110 are those of C190 and D190, when the conciliation of  *)
(* the CT-e complains of nothing.                                           *)
LEMMA DebitosAnaliticos ==
  ASSUME NEW c, A!CasoValido(c), ~c.simples, A!QueixaD190(c) = {}
  PROVE  A!Debitos(c) =
           A!SumFunction([n \in A!Notas(c, TRUE) |-> A!SumFunction(A!C190(c, n))])
           + A!SumFunction([t \in {x \in DOMAIN c.ctes : /\ c.ctes[x].saida
                                                        /\ A!EmD190(c.ctes[x])}
                              |-> c.ctes[t].icms])
<1> DEFINE T == DOMAIN c.ctes
           S == {t \in T : c.ctes[t].saida}
           d == [t \in T |-> A!DebitoCte(c.ctes[t])]
           e == [t \in S |-> A!DebitoCte(c.ctes[t])]
           a == [t \in {x \in T : c.ctes[x].saida /\ A!EmD190(c.ctes[x])}
                    |-> c.ctes[t].icms]
           b == [t \in {x \in S : A!EmD190(c.ctes[x])} |-> c.ctes[t].icms]
<1>1. A!SumFunction(b) = A!SumFunction(e)
  BY DEF A!QueixaD190
<1>2. a = b
  <2>1. {x \in T : c.ctes[x].saida /\ A!EmD190(c.ctes[x])}
           = {x \in S : A!EmD190(c.ctes[x])}
    OBVIOUS
  <2> QED
    BY <2>1
<1>3. IsFiniteSet(T) /\ \A t \in T : c.ctes[t].icms \in Nat
  BY DEF A!CasoValido, A!IsFiniteSet, IsFiniteSet
<1>4. Somavel(d, T)
  BY <1>3 DEF Somavel, A!DebitoCte
<1>5. A!SumFunction(d) = A!SumFunction(e)
  <2>1. S \subseteq T /\ \A t \in T \ S : d[t] = 0
    BY DEF A!DebitoCte
  <2>2. \A t \in S : d[t] = e[t]
    OBVIOUS
  <2>3. DOMAIN d = T /\ DOMAIN e = S
    OBVIOUS
  <2> HIDE DEF S, T, d, e
  <2>4. Soma(d, T) = Soma(d, S)
    BY <1>4, <2>1, SomaSemZeros
  <2>5. Somavel(d, S)
    BY <1>4, <2>1, FS_Subset DEF Somavel
  <2>6. Soma(d, S) = Soma(e, S)
    BY <2>2, <2>5, SomaLocal
  <2> QED
    BY <2>3, <2>4, <2>6, SomaDaBiblioteca
<1>6. A!Debitos(c) = A!SumFunction([p \in A!ItensDe(c, TRUE) |-> A!ItemDe(c, p).icms])
                     + A!SumFunction(d)
  BY DEF A!Debitos
<1>7. A!SumFunction(d) = A!SumFunction(a)
  <2> HIDE DEF a, b, d, e
  <2> QED
    BY <1>1, <1>2, <1>5
<1> HIDE DEF d
<1> QED
  BY <1>6, <1>7, DebitosDasNotas

(* The states of the ICMS-ST, and what each has. *)
LEMMA StNatural ==
  ASSUME NEW c, A!CasoValido(c), NEW u
  PROVE  /\ A!StDaUf(c, u) \in Nat
         /\ u \notin {c.notas[n].uf : n \in A!Notas(c, TRUE)} => A!StDaUf(c, u) = 0
<1> DEFINE K == A!ItensDaUf(c, u)
           f == [p \in K |-> A!ItemDe(c, p).st]
<1>1. A!StDaUf(c, u) = A!SumFunction(f) /\ DOMAIN f = K
  BY DEF A!StDaUf
<1>2. Somavel(f, K)
  <2>1. IsFiniteSet(K)
    BY Finitos, FS_Subset DEF A!ItensDaUf
  <2>2. \A p \in K : A!ItemDe(c, p).st \in Nat
    BY ItemNatural DEF A!ItensDaUf
  <2> QED
    BY <2>1, <2>2 DEF Somavel
<1>3. ASSUME u \notin {c.notas[n].uf : n \in A!Notas(c, TRUE)} PROVE K = {}
  BY <1>3, ItemNatural DEF A!ItensDaUf
<1> HIDE DEF f, K
<1> QED
  BY <1>1, <1>2, <1>3, SomaDaBiblioteca, SomaPasso

LEMMA UfsDoSt ==
  ASSUME NEW c, A!CasoValido(c)
  PROVE  /\ IsFiniteSet(A!UfsSt(c)) /\ A!SemUf \notin A!UfsSt(c)
         /\ \A u \in {c.notas[n].uf : n \in A!Notas(c, TRUE)} \ {A!SemUf} :
               u \in A!UfsSt(c) \/ A!StDaUf(c, u) = 0
<1> DEFINE N == A!Notas(c, TRUE)
           V == {c.notas[n].uf : n \in N}
           X == {x \in c.responsabilidades : x[1] = "ICMS_ST"}
           R == {r[2] : r \in X}
           J == {k \in DOMAIN c.ajustes : c.ajustes[k].registro = "E220"
                                          /\ c.ajustes[k].uf # A!SemUf}
           E == {c.ajustes[j].uf : j \in J}
<1>1. A!UfsSt(c) = {u \in V \ {A!SemUf} : A!StDaUf(c, u) > 0} \cup R \cup E
  BY DEF A!UfsSt, A!UfsDe
<1>2. IsFiniteSet(V)
  <2> DEFINE g == [n \in N |-> c.notas[n].uf]
  <2>1. g \in Surjection(N, V)
    BY DEF Surjection
  <2>2. IsFiniteSet(N)
    BY Finitos
  <2> HIDE DEF g, N, V
  <2> QED
    BY <2>1, <2>2, FS_Surjection
<1>3. IsFiniteSet(R)
  <2> DEFINE g == [r \in X |-> r[2]]
  <2>1. g \in Surjection(X, R)
    BY DEF Surjection
  <2>2. IsFiniteSet(c.responsabilidades) /\ X \subseteq c.responsabilidades
    BY DEF A!CasoValido, A!IsFiniteSet, IsFiniteSet
  <2>3. IsFiniteSet(X)
    BY <2>2, FS_Subset
  <2> HIDE DEF g, X, R
  <2> QED
    BY <2>1, <2>3, FS_Surjection
<1>4. IsFiniteSet(E)
  <2> DEFINE g == [j \in J |-> c.ajustes[j].uf]
  <2>1. g \in Surjection(J, E)
    BY DEF Surjection
  <2>2. IsFiniteSet(DOMAIN c.ajustes) /\ J \subseteq DOMAIN c.ajustes
    BY DEF A!CasoValido, A!IsFiniteSet, IsFiniteSet
  <2>3. IsFiniteSet(J)
    BY <2>2, FS_Subset
  <2> HIDE DEF g, J, E
  <2> QED
    BY <2>1, <2>3, FS_Surjection
<1>5. A!SemUf \notin R /\ A!SemUf \notin E
  BY DEF A!CasoValido
<1>6. ASSUME NEW u \in V \ {A!SemUf}, ~(A!StDaUf(c, u) > 0) PROVE A!StDaUf(c, u) = 0
  <2>1. A!StDaUf(c, u) \in Nat
    BY StNatural
  <2> QED
    BY <1>6, <2>1
<1> DEFINE Vp == {u \in V \ {A!SemUf} : A!StDaUf(c, u) > 0}
<1>7. IsFiniteSet(Vp) /\ A!SemUf \notin Vp
  <2>1. Vp \subseteq V
    OBVIOUS
  <2> HIDE DEF V
  <2>2. IsFiniteSet(Vp)
    BY <1>2, <2>1, FS_Subset
  <2> QED
    BY <2>2
<1>8. \A u \in V \ {A!SemUf} : u \in Vp \/ A!StDaUf(c, u) = 0
  BY <1>6
<1>9. A!UfsSt(c) = Vp \cup R \cup E
  BY <1>1
<1> HIDE DEF Vp, R, E, J, X
<1>10. IsFiniteSet(A!UfsSt(c))
  BY <1>3, <1>4, <1>7, <1>9, FS_Union
<1> QED
  BY <1>5, <1>7, <1>8, <1>9, <1>10

(* The ICMS-ST of the sales to parties with UF is in the computations. *)
LEMMA StDasUfs ==
  ASSUME NEW c, A!CasoValido(c)
  PROVE  A!SumFunction([u \in A!UfsSt(c) |-> A!StDaUf(c, u)])
           = A!SumFunction([p \in {q \in A!ItensDe(c, TRUE) : c.notas[q[1]].uf # A!SemUf}
                              |-> A!ItemDe(c, p).st])
<1> DEFINE S == A!UfsSt(c)
           V == {c.notas[n].uf : n \in A!Notas(c, TRUE)}
           W == S \cup (V \ {A!SemUf})
           Z == {q \in A!ItensDe(c, TRUE) : c.notas[q[1]].uf # A!SemUf}
           f == [p \in Z |-> A!ItemDe(c, p).st]
           P == [u \in W |-> A!ItensDaUf(c, u)]
           q == [u \in W |-> A!StDaUf(c, u)]
           s == [u \in S |-> A!StDaUf(c, u)]
<1>1. IsFiniteSet(W)
  <2> DEFINE g == [n \in A!Notas(c, TRUE) |-> c.notas[n].uf]
  <2>1. g \in Surjection(A!Notas(c, TRUE), V) /\ IsFiniteSet(A!Notas(c, TRUE))
    BY Finitos DEF Surjection
  <2> HIDE DEF g, V, S
  <2>2. IsFiniteSet(V) /\ IsFiniteSet(S)
    BY <2>1, FS_Surjection, UfsDoSt DEF S
  <2>3. IsFiniteSet(V \ {A!SemUf})
    BY <2>2, FS_Subset
  <2> QED
    BY <2>2, <2>3, FS_Union
<1>2. A!SemUf \notin W
  BY UfsDoSt
<1>3. Somavel(f, Z)
  <2>1. IsFiniteSet(Z)
    BY Finitos, FS_Subset
  <2>2. \A p \in Z : A!ItemDe(c, p).st \in Nat
    BY ItemNatural
  <2> QED
    BY <2>1, <2>2 DEF Somavel
<1>4. ASSUME NEW p PROVE p \in Z <=> p \in UNION {P[u] : u \in W}
  <2>1. ASSUME p \in Z PROVE \E u \in W : p \in P[u]
    <3>1. p[1] \in A!Notas(c, TRUE)
      BY <2>1, ItemNatural
    <3>2. c.notas[p[1]].uf \in W
      BY <2>1, <3>1
    <3>3. p \in A!ItensDaUf(c, c.notas[p[1]].uf)
      BY <2>1 DEF A!ItensDaUf
    <3> QED
      BY <3>2, <3>3
  <2>2. ASSUME NEW u \in W, p \in P[u] PROVE p \in Z
    BY <1>2, <2>2 DEF A!ItensDaUf
  <2> QED
    BY <2>1, <2>2
<1>5. Repartida(Z, W, P)
  <2>1. Z = UNION {P[u] : u \in W}
    BY <1>4
  <2>2. \A u, v \in W : u # v => P[u] \cap P[v] = {}
    BY DEF A!ItensDaUf
  <2> QED
    BY <2>1, <2>2 DEF Repartida
<1>6. ASSUME NEW u \in W PROVE q[u] = Soma(f, P[u])
  <2> DEFINE v == [p \in A!ItensDaUf(c, u) |-> A!ItemDe(c, p).st]
  <2>1. q[u] = A!SumFunction(v)
    BY DEF A!StDaUf
  <2>2. DOMAIN v = P[u] /\ P[u] \subseteq Z
    BY <1>4
  <2>3. \A p \in P[u] : f[p] = v[p]
    BY <2>2
  <2>4. Somavel(f, P[u])
    BY <1>3, <2>2, FS_Subset DEF Somavel
  <2> HIDE DEF v, f, P, q, Z
  <2>5. Soma(f, P[u]) = Soma(v, P[u])
    BY <2>3, <2>4, SomaLocal
  <2> QED
    BY <2>1, <2>2, <2>5, SomaDaBiblioteca
<1>7. S \subseteq W /\ \A u \in W \ S : q[u] = 0
  BY UfsDoSt
<1>8. DOMAIN s = S /\ DOMAIN f = Z /\ \A u \in S : q[u] = s[u]
  OBVIOUS
<1>9. A!SumFunction(s) = A!SumFunction(f)
  <2> HIDE DEF S, W, Z, f, P, q, s
  <2>1. Soma(f, Z) = Soma(q, W) /\ Somavel(q, W)
    BY <1>1, <1>3, <1>5, <1>6, SomaPorPartes
  <2>2. Soma(q, W) = Soma(q, S)
    BY <1>7, <2>1, SomaSemZeros
  <2>3. Somavel(q, S)
    BY <1>7, <2>1, FS_Subset DEF Somavel
  <2>4. Soma(q, S) = Soma(s, S)
    BY <1>8, <2>3, SomaLocal
  <2> QED
    BY <1>8, <2>1, <2>2, <2>4, SomaDaBiblioteca
<1> QED
  BY <1>9

-----------------------------------------------------------------------------
(* What a computation closes with: a credit or something to pay, not both. *)
LEMMA FecharExclui ==
  ASSUME NEW d \in Nat, NEW k \in Nat, NEW x \in Nat, A!Fechar(d, k, x).credor > 0
  PROVE  A!Fechar(d, k, x).recolher = 0
BY DEF A!Fechar, A!Positivo

LEMMA AjustesNaturais ==
  ASSUME NEW c, A!CasoValido(c), NEW reg, NEW u, NEW I
  PROVE  A!Ajustes(c, reg, u, I) \in Nat
<1> DEFINE K == {k \in DOMAIN c.ajustes : /\ c.ajustes[k].registro = reg
                                          /\ c.ajustes[k].uf = u
                                          /\ c.ajustes[k].indicador \in I}
           f == [j \in K |-> c.ajustes[j].valor]
<1>1. A!Ajustes(c, reg, u, I) = A!SumFunction(f) /\ DOMAIN f = K
  BY DEF A!Ajustes
<1>2. IsFiniteSet(DOMAIN c.ajustes) /\ K \subseteq DOMAIN c.ajustes
  BY DEF A!CasoValido, A!IsFiniteSet, IsFiniteSet
<1>3. \A j \in K : f[j] \in Nat
  BY DEF A!CasoValido
<1> HIDE DEF f, K
<1>4. Somavel(f, K)
  BY <1>2, <1>3, FS_Subset DEF Somavel
<1> QED
  BY <1>1, <1>4, SomaDe

(* E110 closes with a credit or something to pay, not both. *)
LEMMA E110Exclui ==
  ASSUME NEW c, A!CasoValido(c), A!E110(c).credor > 0
  PROVE  A!E110(c).recolher = 0
<1> DEFINE d == A!Debitos(c) + A!AjustesE111(c, {"DEBITO", "ESTORNO_CREDITO"})
           k == A!CreditosMercadorias(c) + A!CreditosFrete(c)
                  + A!AjustesE111(c, {"CREDITO", "ESTORNO_DEBITO"})
                  + A!Saldo(c, "ICMS_PROPRIO", A!SemUf)
           x == A!AjustesE111(c, {"DEDUCAO"})
<1>1. A!E110(c) = A!Fechar(d, k, x)
  BY DEF A!E110
<1>2. ASSUME NEW I PROVE A!AjustesE111(c, I) \in Nat
  BY AjustesNaturais DEF A!AjustesE111
<1>3. IsFiniteSet(DOMAIN c.ctes)
      /\ \A t \in DOMAIN c.ctes : c.ctes[t].icms \in Nat /\ c.ctes[t].creditavel \in Nat
  BY DEF A!CasoValido, A!IsFiniteSet, IsFiniteSet
<1>4. A!SumFunction([t \in DOMAIN c.ctes |-> A!DebitoCte(c.ctes[t])]) \in Nat
  <2> DEFINE f == [t \in DOMAIN c.ctes |-> A!DebitoCte(c.ctes[t])]
  <2>1. Somavel(f, DOMAIN f)
    BY <1>3 DEF Somavel, A!DebitoCte
  <2> HIDE DEF f
  <2>2. A!SumFunction(f) \in Nat
    BY <2>1, SomaDe
  <2> QED
    BY <2>2 DEF f
<1>5. A!SumFunction([p \in A!ItensDe(c, TRUE) |-> A!ItemDe(c, p).icms]) \in Nat
  <2> DEFINE f == [p \in A!ItensDe(c, TRUE) |-> A!ItemDe(c, p).icms]
  <2>1. \A p \in A!ItensDe(c, TRUE) : A!ItemDe(c, p).icms \in Nat
    BY ItemNatural
  <2>2. Somavel(f, DOMAIN f)
    BY <2>1, Finitos DEF Somavel
  <2> HIDE DEF f
  <2>3. A!SumFunction(f) \in Nat
    BY <2>2, SomaDe
  <2> QED
    BY <2>3 DEF f
<1>6. A!Debitos(c) \in Nat
  BY <1>4, <1>5 DEF A!Debitos
<1>7. A!CreditosMercadorias(c) \in Nat
  <2> DEFINE f == [p \in A!ItensDe(c, FALSE) |-> A!Admitido(A!ItemDe(c, p))]
  <2>1. \A p \in A!ItensDe(c, FALSE) :
           A!ItemDe(c, p).icms \in Nat /\ A!ItemDe(c, p).creditoSn \in Nat
    BY ItemNatural
  <2>2. \A i : i.icms \in Nat /\ i.creditoSn \in Nat => A!Admitido(i) \in Nat
    BY DEF A!Admitido
  <2>3. Somavel(f, DOMAIN f)
    BY <2>1, <2>2, Finitos DEF Somavel
  <2> HIDE DEF f
  <2>4. A!SumFunction(f) \in Nat
    BY <2>3, SomaDe
  <2> QED
    BY <2>4 DEF f, A!CreditosMercadorias
<1>8. A!CreditosFrete(c) \in Nat
  <2> DEFINE f == [t \in DOMAIN c.ctes |-> c.ctes[t].creditavel]
  <2>1. Somavel(f, DOMAIN f)
    BY <1>3 DEF Somavel
  <2> HIDE DEF f
  <2>2. A!SumFunction(f) \in Nat
    BY <2>1, SomaDe
  <2> QED
    BY <2>2 DEF f, A!CreditosFrete
<1>9. A!Saldo(c, "ICMS_PROPRIO", A!SemUf) \in Nat
  BY DEF A!Saldo, A!CasoValido
<1>10. d \in Nat /\ k \in Nat /\ x \in Nat
  BY <1>2, <1>6, <1>7, <1>8, <1>9
<1> HIDE DEF d, k, x
<1> QED
  BY <1>1, <1>10, FecharExclui

(* validarObrigacao: what no complaint says of an obligation. *)
Quitada(c, tipo, u, valor) ==
    IF valor > 0
    THEN <<tipo, u>> \in DOMAIN c.obrigacoes /\ A!Perto(c.obrigacoes[<<tipo, u>>], valor)
    ELSE <<tipo, u>> \in DOMAIN c.obrigacoes => c.obrigacoes[<<tipo, u>>] = 0

LEMMA ObrigacaoQuitada ==
  ASSUME NEW c, A!CasoValido(c), NEW tipo, NEW u, NEW valor,
         A!QueixaDeObrigacao(c, tipo, u, valor) = {}
  PROVE  Quitada(c, tipo, u, valor)
<1>1. \A o \in DOMAIN c.obrigacoes : c.obrigacoes[o] \in Nat
  BY DEF A!CasoValido
<1> DEFINE o == <<tipo, u>>
           informada == o \in DOMAIN c.obrigacoes
<1>2. \A x, y, z : {<<x, y, z>>} # {}
  OBVIOUS
<1>3. valor > 0 => informada /\ A!Perto(c.obrigacoes[o], valor)
  BY <1>2 DEF A!QueixaDeObrigacao
<1>4. ~(valor > 0) /\ informada => ~(c.obrigacoes[o] > 0)
  BY <1>2 DEF A!QueixaDeObrigacao
<1>5. ~(valor > 0) /\ informada => c.obrigacoes[o] = 0
  BY <1>1, <1>4
<1> QED
  BY <1>3, <1>5 DEF Quitada

(* What the builder computes for a month. *)
Calculada(c) ==
    [debitos |-> A!Debitos(c), creditos |-> A!CreditosMercadorias(c) + A!CreditosFrete(c),
     e110 |-> A!E110(c), st |-> [u \in A!UfsSt(c) |-> A!E210(c, u)],
     difal |-> [u \in A!UfsDifal(c) |-> A!RecolherDifal(c, u)],
     ipi |-> IF c.industrial THEN A!E520(c) ELSE A!SemApuracao,
     queixas |-> A!Queixas(c)]

LEMMA FechaApuracao ==
  ASSUME A!CasoValido(caso), apuracao = A!SemApuracao \/ apuracao = Calculada(caso)
  PROVE  A!ApuracaoConfere
<1> SUFFICES ASSUME apuracao # A!SemApuracao, apuracao.queixas = {}
             PROVE  A!ApuracaoConfere
  BY DEF A!ApuracaoConfere, A!PodeEntregar
<1>1. /\ apuracao.debitos = A!Debitos(caso) /\ apuracao.e110 = A!E110(caso)
      /\ apuracao.st = [u \in A!UfsSt(caso) |-> A!E210(caso, u)]
      /\ apuracao.difal = [u \in A!UfsDifal(caso) |-> A!RecolherDifal(caso, u)]
      /\ A!Queixas(caso) = {}
  BY DEF Calculada
<1>2. /\ A!QueixaD190(caso) = {}
      /\ A!QueixaDeObrigacao(caso, "ICMS_PROPRIO", A!SemUf, A!E110(caso).recolher) = {}
      /\ \A u \in A!UfsSt(caso) :
            A!QueixaDeObrigacao(caso, "ICMS_ST", u, A!E210(caso, u).recolher) = {}
      /\ \A u \in A!UfsDifal(caso) :
            A!QueixaDeObrigacao(caso, "DIFAL_FCP", u, A!RecolherDifal(caso, u)) = {}
      /\ \A u \in A!UfsSt(caso) :
            A!E210(caso, u).recolher > 0 => A!Responde(caso, "ICMS_ST", u)
  <2> DEFINE st == {A!QueixaDeObrigacao(caso, "ICMS_ST", u, A!E210(caso, u).recolher) :
                       u \in A!UfsSt(caso)}
             difal == {A!QueixaDeObrigacao(caso, "DIFAL_FCP", u, A!RecolherDifal(caso, u)) :
                          u \in A!UfsDifal(caso)}
             sem == {x \in A!UfsSt(caso) :
                       /\ \/ A!StDaUf(caso, x) > 0 \/ A!E210(caso, x).recolher > 0
                          \/ A!Especiais(caso, {"E220"}, x)
                       /\ ~A!Responde(caso, "ICMS_ST", x)}
             nao == {<<"RESPONSABILIDADE_ICMS_ST_NAO_CONFIGURADA", u>> : u \in sem}
             proprio == A!QueixaDeObrigacao(caso, "ICMS_PROPRIO", A!SemUf,
                                            A!E110(caso).recolher)
  <2>1. /\ A!QueixaD190(caso) \subseteq A!Queixas(caso)
        /\ proprio \subseteq A!Queixas(caso) /\ UNION st \subseteq A!Queixas(caso)
        /\ UNION difal \subseteq A!Queixas(caso) /\ nao \subseteq A!Queixas(caso)
    <3>1. PICK r : A!Queixas(caso) = A!QueixasDeItens(caso) \cup A!QueixaD190(caso)
                      \cup A!QueixasDeFcp(caso) \cup proprio \cup (UNION st)
                      \cup (UNION difal) \cup nao \cup r
      BY DEF A!Queixas
    <3> DEFINE u1 == UNION st
               u2 == UNION difal
    <3> HIDE DEF proprio, st, difal, nao
    <3>2. A!Queixas(caso) = A!QueixasDeItens(caso) \cup A!QueixaD190(caso)
                      \cup A!QueixasDeFcp(caso) \cup proprio \cup u1
                      \cup u2 \cup nao \cup r
      BY <3>1
    <3> HIDE DEF u1, u2
    <3>3. /\ A!QueixaD190(caso) \subseteq A!Queixas(caso)
          /\ proprio \subseteq A!Queixas(caso) /\ u1 \subseteq A!Queixas(caso)
          /\ u2 \subseteq A!Queixas(caso) /\ nao \subseteq A!Queixas(caso)
      BY <3>2
    <3> QED
      BY <3>3 DEF u1, u2
  <2>2. UNION st = {} /\ UNION difal = {} /\ nao = {}
    BY <1>1, <2>1
  <2>3. ASSUME NEW u \in sem PROVE FALSE
    <3>1. <<"RESPONSABILIDADE_ICMS_ST_NAO_CONFIGURADA", u>> \in nao
      OBVIOUS
    <3> QED
      BY <2>2, <3>1
  <2> HIDE DEF nao
  <2>4. \A u \in A!UfsSt(caso) :
           A!QueixaDeObrigacao(caso, "ICMS_ST", u, A!E210(caso, u).recolher) = {}
    BY <2>2
  <2>5. \A u \in A!UfsDifal(caso) :
           A!QueixaDeObrigacao(caso, "DIFAL_FCP", u, A!RecolherDifal(caso, u)) = {}
    BY <2>2
  <2> QED
    BY <1>1, <2>1, <2>3, <2>4, <2>5
<1>3. ~caso.simples => apuracao.debitos = A!AnaliticoSaidas
  BY <1>1, <1>2, DebitosAnaliticos DEF A!AnaliticoSaidas
<1>4. ASSUME NEW r \in A!Recolhidos
      PROVE  Quitada(caso, r[1], r[2], r[3])
  <2>1. CASE r = <<"ICMS_PROPRIO", A!SemUf, apuracao.e110.recolher>>
    BY <1>1, <1>2, <2>1, ObrigacaoQuitada
  <2>2. ASSUME NEW u \in DOMAIN apuracao.st, r = <<"ICMS_ST", u, apuracao.st[u].recolher>>
        PROVE  Quitada(caso, r[1], r[2], r[3])
    BY <1>1, <1>2, <2>2, ObrigacaoQuitada
  <2>3. ASSUME NEW u \in DOMAIN apuracao.difal, r = <<"DIFAL_FCP", u, apuracao.difal[u]>>
        PROVE  Quitada(caso, r[1], r[2], r[3])
    BY <1>1, <1>2, <2>3, ObrigacaoQuitada
  <2> QED
    BY <2>1, <2>2, <2>3 DEF A!Recolhidos
<1>5. \A u \in DOMAIN apuracao.st :
         apuracao.st[u].recolher > 0 => A!Responde(caso, "ICMS_ST", u)
  BY <1>1, <1>2
<1>6. A!SumFunction([u \in DOMAIN apuracao.st |-> A!StDaUf(caso, u)]) = A!StDeSaidas
  <2>1. DOMAIN apuracao.st = A!UfsSt(caso)
    BY <1>1
  <2> QED
    BY <2>1, StDasUfs DEF A!StDeSaidas
<1>7. apuracao.e110.credor > 0 => apuracao.e110.recolher = 0
  BY <1>1, E110Exclui
<1>8. \A r \in A!Recolhidos :
         LET o == <<r[1], r[2]>>
         IN  IF r[3] > 0
             THEN o \in DOMAIN caso.obrigacoes /\ A!Perto(caso.obrigacoes[o], r[3])
             ELSE o \in DOMAIN caso.obrigacoes => caso.obrigacoes[o] = 0
  BY <1>4 DEF Quitada
<1> QED
  BY <1>3, <1>5, <1>6, <1>7, <1>8 DEF A!ApuracaoConfere

(* The invariant of the taxes: nothing is computed, or what the builder     *)
(* computes for the month.                                                  *)
AInv ==
    parte = "apuracao" => /\ caso \in Casos
                          /\ apuracao = A!SemApuracao \/ apuracao = Calculada(caso)

(* validarApuracao: when nothing is complained of, the analytic registers   *)
(* add up to the debits and the ICMS-ST of the computation, what remains to *)
(* pay and what is carried forward exclude each other, what is to pay of    *)
(* the ICMS, the ICMS-ST and the DIFAL and FCP has an obligation within two *)
(* cents of it (the tolerance of sped-decimal.ts:50), and the ICMS-ST of a  *)
(* UF somebody responsible, whatever the invoices, CT-es, adjustments,      *)
(* balances and obligations of the month. Nothing is said of the IPI, whose *)
(* computation has no obligations.                                          *)
THEOREM ApuracaoSempreConfere ==
  ASSUME SpedAssumption
  PROVE  SpedSpec => []ApuracaoConfere
<1>1. SpedInit => AInv
  BY DEF SpedInit, AInv, A!ApuracaoInit
<1>2. AInv /\ [SpedNext]_<<parte, doPreparo, geracaoVars, daApuracao>> => AInv'
  <2> SUFFICES ASSUME AInv, [SpedNext]_<<parte, doPreparo, geracaoVars, daApuracao>>
               PROVE  AInv'
    OBVIOUS
  <2>1. CASE NaApuracao(A!Apurar)
    <3>1. caso' = caso /\ parte' = parte /\ parte = "apuracao" /\ caso \in Casos
      BY <2>1 DEF NaApuracao, A!Apurar, AInv
    <3>2. apuracao' = Calculada(caso)
      BY <2>1 DEF NaApuracao, A!Apurar, Calculada
    <3>3. PICK c : c = caso
      OBVIOUS
    <3>4. apuracao' = Calculada(c) /\ caso' = c
      BY <3>1, <3>2, <3>3
    <3> QED
      BY <3>1, <3>4 DEF AInv
  <2>2. CASE PassoPreparo \/ PassoGeracao
    <3>1. parte # "apuracao" /\ parte' = parte
      BY <2>2 DEF PassoPreparo, NoPreparo, PassoGeracao, NaGeracao
    <3> QED
      BY <3>1 DEF AInv
  <2>3. CASE UNCHANGED <<parte, doPreparo, geracaoVars, daApuracao>>
    <3>1. parte' = parte /\ caso' = caso /\ apuracao' = apuracao
      BY <2>3 DEF daApuracao
    <3> QED
      BY <3>1 DEF AInv, Calculada
  <2> QED
    BY <2>1, <2>2, <2>3 DEF SpedNext
<1>3. AInv => ApuracaoConfere
  <2> SUFFICES ASSUME AInv, parte = "apuracao" PROVE A!ApuracaoConfere
    BY DEF ApuracaoConfere
  <2>1. A!CasoValido(caso)
    BY DEF AInv, SpedAssumption, A!ApuracaoAssumption
  <2> QED
    BY <2>1, FechaApuracao DEF AInv
<1> QED
  BY <1>1, <1>2, <1>3, PTL DEF SpedSpec
=============================================================================
