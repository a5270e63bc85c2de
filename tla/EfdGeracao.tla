----------------------------- MODULE EfdGeracao ------------------------------
(***************************************************************************)
(* The generation of the EFD ICMS/IPI against the catalogue of the SPED    *)
(* (EfdIcmsIpiService.gerar, persistirCatalogos, marcarFalha) while the    *)
(* inventory of the same client is edited (SpedInventarioService).         *)
(* A generation is a REPEATABLE READ transaction under the advisory lock   *)
(* of its month, then the upload of the file outside any transaction; the  *)
(* edition of an inventory is a READ COMMITTED transaction under another   *)
(* lock.  Both write sped_itens: what a generation writes there is what    *)
(* its snapshot showed.                                                    *)
(*                                                                         *)
(* The edition writes what its request brings and reads nothing it writes  *)
(* back, and the writes of a generation wait for those of the other        *)
(* transactions: each is one step.  A snapshot is taken by the first       *)
(* statement of the transaction, the one that waits for the lock.          *)
(***************************************************************************)
EXTENDS Integers, FiniteSets

CONSTANTS
  Geracoes,         \* calls of gerar
  Itens,            \* own products, by codigoExterno
  Outros,           \* the rows of the catalogue that purchases bring
  Unidades,
  Datas,            \* dates an inventory bears, by number of the month
  Competencias,     \* months generated, by number
  Mes,              \* the month the inventory is delivered with
  MaxEdicoes        \* bound on the editions of inventories

VARIABLES
  unidadeItem,      \* sped_itens.unidade_id, by product
  versao,           \* the committed version of each row of the catalogue
  inventarios,      \* sped_inventarios with their lines, by date
  pedida,           \* the unit each product had in the last edition that named it
  edicoes,
  trava,            \* the advisory lock of each month
  geracao,          \* each call of gerar
  linha,            \* the status of its row of sped_arquivos_gerados
  arquivos          \* the files stored, by generation

geracaoVars == <<unidadeItem, versao, inventarios, pedida, edicoes, trava, geracao, linha,
                 arquivos>>

Nenhuma == "nenhuma"    \* no unit, no lock holder, no row
Linhas == Itens \cup Unidades \cup Outros
todas == <<unidadeItem, versao, inventarios, pedida, edicoes>>  \* what editions write

\* An inventory is deleted by nothing; one never saved is a draft without lines.
Vazio == [status |-> "RASCUNHO", linhas |-> <<>>]

GeracaoAssumption ==
    /\ Nenhuma \notin Unidades \cup Geracoes
    /\ Itens \cap (Unidades \cup Outros) = {}
    /\ Datas \subseteq Int /\ Competencias \subseteq Int

-----------------------------------------------------------------------------
(* What a generation reads. *)

ComInventario(c) == c = Mes

\* loadInventario: the last closed one dated in the month or the two before it.
Fechados(c, inv) == {d \in Datas : /\ inv[d].status = "FECHADO"
                                   /\ d <= c /\ d >= c - 2}
Ultimo(ds) == CHOOSE d \in ds : \A e \in ds : e <= d
LinhasLidas(c, foto) ==
    IF ~ComInventario(c) THEN <<>>
    ELSE foto.inventarios[Ultimo(Fechados(c, foto.inventarios))].linhas

\* The findings of a preparation that come from the inventory.
Impeditiva(c, foto) ==
    ComInventario(c) /\ (\/ Fechados(c, foto.inventarios) = {}
                         \/ LET ls == LinhasLidas(c, foto)
                            IN  \E i \in DOMAIN ls : ls[i] # foto.unidadeItem[i])

Foto == [unidadeItem |-> unidadeItem, versao |-> versao, inventarios |-> inventarios]
FotoVazia == [unidadeItem |-> [i \in Itens |-> Nenhuma], versao |-> [r \in Linhas |-> 0],
              inventarios |-> [d \in Datas |-> Vazio]]

\* The rows of the catalogue a generation writes: those of its purchases, which
\* every month has, and the products and the units of the inventory.
Nomeadas(ls) == DOMAIN ls \cup {ls[i] : i \in DOMAIN ls}
Escritas(g) == Outros \cup Nomeadas(LinhasLidas(geracao[g].mes, geracao[g].foto))

\* Variant for mutation: the isolation level the edition of inventories has.
ConflitoRC(g) == FALSE
\* REPEATABLE READ: a row changed since the snapshot cannot be written.
Conflito(g) == \E r \in Escritas(g) : versao[r] # geracao[g].foto.versao[r]

-----------------------------------------------------------------------------
GeracaoInit ==
    /\ unidadeItem = [i \in Itens |-> Nenhuma]
    /\ versao = [r \in Linhas |-> 0]
    /\ inventarios = [d \in Datas |-> Vazio]
    /\ pedida = [i \in Itens |-> Nenhuma]
    /\ edicoes = 0
    /\ trava = [c \in Competencias |-> Nenhuma]
    /\ geracao = [g \in Geracoes |->
                    [fase |-> "PARADA", mes |-> CHOOSE c \in Competencias : TRUE,
                     foto |-> FotoVazia]]
    /\ linha = [g \in Geracoes |-> Nenhuma]
    /\ arquivos = {}

ComUnidades(us, linhas) ==
    [i \in Itens |-> IF i \in DOMAIN linhas THEN linhas[i] ELSE us[i]]

\* SpedInventarioService.atualizar: the catalogue takes the units of the request
\* before the inventory is written, whatever its status was.
EditarInventario(d, status, linhas) ==
    /\ edicoes < MaxEdicoes
    /\ edicoes' = edicoes + 1
    /\ unidadeItem' = ComUnidades(unidadeItem, linhas)
    /\ pedida' = ComUnidades(pedida, linhas)
    /\ versao' = [r \in Linhas |-> IF r \in Nomeadas(linhas) THEN versao[r] + 1
                                    ELSE versao[r]]
    /\ inventarios' = [inventarios EXCEPT ![d] = [status |-> status, linhas |-> linhas]]
    /\ UNCHANGED <<trava, geracao, linha, arquivos>>

Fase(g, f) == geracao' = [geracao EXCEPT ![g].fase = f]
Livra(g) == [c \in Competencias |-> IF trava[c] = g THEN Nenhuma ELSE trava[c]]

\* The transaction begins: snapshot first, then the wait for the lock.
Iniciar(g, c) ==
    /\ geracao[g].fase = "PARADA"
    /\ geracao' = [geracao EXCEPT ![g] = [fase |-> "ESPERA", mes |-> c, foto |-> Foto]]
    /\ UNCHANGED <<todas, trava, linha, arquivos>>

Preparar(g) ==
    /\ geracao[g].fase = "ESPERA" /\ trava[geracao[g].mes] = Nenhuma
    /\ IF Impeditiva(geracao[g].mes, geracao[g].foto)
       THEN Fase(g, "RECUSADA") /\ UNCHANGED trava
       ELSE Fase(g, "PREPARADA") /\ trava' = [trava EXCEPT ![geracao[g].mes] = g]
    /\ UNCHANGED <<todas, linha, arquivos>>

\* persistirCatalogos, the row in PROCESSANDO, and the commit.
Gravar(g) ==
    /\ geracao[g].fase = "PREPARADA" /\ ~Conflito(g)
    /\ unidadeItem' = [i \in Itens |->
                          IF i \in Escritas(g) THEN geracao[g].foto.unidadeItem[i]
                          ELSE unidadeItem[i]]
    /\ versao' = [r \in Linhas |-> IF r \in Escritas(g) THEN versao[r] + 1 ELSE versao[r]]
    /\ linha' = [linha EXCEPT ![g] = "PROCESSANDO"]
    /\ Fase(g, "GRAVADA") /\ trava' = Livra(g)
    /\ UNCHANGED <<inventarios, pedida, edicoes, arquivos>>

\* The transaction is undone: a conflict, an error of the database, a crash.
Abortar(g) ==
    /\ geracao[g].fase \in {"ESPERA", "PREPARADA"}
    /\ Fase(g, "ABORTADA") /\ trava' = Livra(g)
    /\ UNCHANGED <<todas, linha, arquivos>>

\* storage.upload of a file that was built and passed the validation.
Armazenar(g) ==
    /\ geracao[g].fase = "GRAVADA"
    /\ arquivos' = arquivos \cup {g} /\ Fase(g, "ARMAZENADA")
    /\ UNCHANGED <<todas, trava, linha>>

\* Variant for mutation: the row says GERADO before the file is stored.
RegistrarAntes(g) ==
    /\ geracao[g].fase \in {"GRAVADA", "ARMAZENADA"}
    /\ linha' = [linha EXCEPT ![g] = "GERADO"] /\ Fase(g, "FEITA")
    /\ UNCHANGED <<todas, trava, arquivos>>

Registrar(g) ==
    /\ geracao[g].fase = "ARMAZENADA"
    /\ linha' = [linha EXCEPT ![g] = "GERADO"] /\ Fase(g, "FEITA")
    /\ UNCHANGED <<todas, trava, arquivos>>

\* marcarFalha: the file cannot be built, is invalid, cannot be stored or
\* cannot be registered.
Falhar(g) ==
    /\ geracao[g].fase \in {"GRAVADA", "ARMAZENADA"}
    /\ linha' = [linha EXCEPT ![g] = "FALHOU"] /\ Fase(g, "FEITA")
    /\ UNCHANGED <<todas, trava, arquivos>>

\* The server goes down, or marcarFalha fails too: nobody comes back to the row.
Interromper(g) ==
    /\ geracao[g].fase \in {"GRAVADA", "ARMAZENADA"}
    /\ Fase(g, "FEITA")
    /\ UNCHANGED <<todas, trava, linha, arquivos>>

GeracaoNext ==
    \/ \E d \in Datas, s \in {"RASCUNHO", "FECHADO"} :
          \E D \in SUBSET Itens : \E ls \in [D -> Unidades] : EditarInventario(d, s, ls)
    \/ \E g \in Geracoes :
          \/ \E c \in Competencias : Iniciar(g, c)
          \/ Preparar(g) \/ Gravar(g) \/ Abortar(g)
          \/ Armazenar(g) \/ Registrar(g) \/ Falhar(g) \/ Interromper(g)

GeracaoSpec == GeracaoInit /\ [][GeracaoNext]_geracaoVars

-----------------------------------------------------------------------------
(* Properties *)

\* A product keeps the unit the last edition of an inventory gave it: no
\* generation, which writes back what an older snapshot showed, undoes an edition.
CatalogoDoInventario == \A i \in Itens : unidadeItem[i] = pedida[i]

Gravada(g) == geracao[g].fase \in {"GRAVADA", "ARMAZENADA", "FEITA"}

\* A stored file has the row of its generation, committed with the catalogue it
\* was made from; a row says GERADO only of a stored file; and of two generations
\* that committed, one saw the catalogue the other had written.
GeracaoRastreada ==
    /\ \A g \in arquivos : Gravada(g) /\ linha[g] # Nenhuma
    /\ \A g \in Geracoes : linha[g] = "GERADO" => g \in arquivos
    /\ \A g, h \in Geracoes : g # h /\ Gravada(g) /\ Gravada(h) =>
          \A o \in Outros : geracao[g].foto.versao[o] # geracao[h].foto.versao[o]
=============================================================================
