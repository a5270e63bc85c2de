------------------------ MODULE FiscalClosing_proofs ------------------------
(***************************************************************************)
(* Proofs about FiscalClosing, for every set of processes, every bound on  *)
(* the versions, every set of inputs and every isolation level of the      *)
(* writers.                                                                *)
(*                                                                         *)
(* CorrenteUnica is not inductive: it says nothing of what open            *)
(* transactions are about to commit. The invariant adds that a transaction *)
(* past the lock holds it, that open transactions write disjoint rows, and *)
(* that every row an open transaction wrote is one permitted edit of the   *)
(* row as it is committed NOW, although it was made from a snapshot.       *)
(*                                                                         *)
(* HInv adds the history: versions without gap, and what the writes of an  *)
(* open transaction would make of them if it committed now. The steps that *)
(* commit are then those of HistoricoFechamento, and all others stutter.   *)
(***************************************************************************)
EXTENDS FiscalClosing, FiniteSetTheorems, SequenceTheorems, TLAPS

(* Which operation each program point belongs to. *)
TiposEm == [ocioso    |-> {"NENHUMA"},
            lock      |-> {"ABRIR", "RETIFICAR", "FECHAR", "ESCREVER"},
            inserir   |-> {"ABRIR", "RETIFICAR"},
            sinalizar |-> {"ESCREVER"},
            atualizar |-> {"TRANSICIONAR"},
            desmarcar |-> {"FECHAR"},
            promover  |-> {"FECHAR"},
            confirmar |-> {"ABRIR", "RETIFICAR", "FECHAR", "ESCREVER", "TRANSICIONAR"}]

Controle(p) ==
  /\ op[p].tipo \in TiposEm[pc[p]]
  /\ op[p].tipo # "ESCREVER" => op[p].isol = "RR"
  /\ pc[p] \notin {"promover", "confirmar"} => tocadas[p] = {}

(* Past the lock statement a transaction holds the lock until it ends. *)
ComLock(p) ==
  \/ pc[p] \in {"ocioso", "lock", "atualizar"}
  \/ op[p].tipo = "TRANSICIONAR"
  \/ lock = p

(* What was read with the snapshot and is still to be written. *)
Leitura(p) ==
  /\ op[p].tipo = "TRANSICIONAR" =>
       /\ op[p].alvo \in Versoes
       /\ TransicaoPermitida(snap[p][op[p].alvo].estado, op[p].destino)
       /\ op[p].destino \in Abertos
  /\ op[p].tipo = "FECHAR" =>
       /\ op[p].alvo \in Versoes
       /\ snap[p][op[p].alvo].estado = "REVISADO"

(* A row written by an open transaction, as an edit of the committed row. *)
Nova(p, v) ==
  /\ pc[p] = "confirmar"
  /\ op[p].tipo \in {"ABRIR", "RETIFICAR", "ESCREVER"}
  /\ linhas[v].estado = "AUSENTE"
  /\ area[p][v].estado = "RASCUNHO"
  /\ ~area[p][v].corrente

Avancada(p, v) ==
  /\ op[p].tipo = "TRANSICIONAR"
  /\ TransicaoPermitida(linhas[v].estado, op[p].destino)
  /\ op[p].destino \in Abertos
  /\ area[p][v] = [linhas[v] EXCEPT !.estado = op[p].destino]

Desmarcada(p, v) ==
  /\ op[p].tipo = "FECHAR"
  /\ linhas[v].corrente
  /\ area[p][v] = [linhas[v] EXCEPT !.corrente = FALSE]

Promovida(p, v) ==
  /\ op[p].tipo = "FECHAR"
  /\ pc[p] = "confirmar"
  /\ v = op[p].alvo
  /\ linhas[v].estado = "REVISADO"
  /\ area[p][v] = [linhas[v] EXCEPT !.estado = "FECHADO", !.corrente = TRUE]

Escrita(p) ==
  \A v \in tocadas[p] :
    Nova(p, v) \/ Avancada(p, v) \/ Desmarcada(p, v) \/ Promovida(p, v)

(* A closing about to commit replaces every committed current version. *)
Fechamento(p) ==
  op[p].tipo = "FECHAR" /\ pc[p] = "confirmar" =>
    /\ op[p].alvo \in tocadas[p]
    /\ Promovida(p, op[p].alvo)
    /\ Correntes(linhas) \subseteq tocadas[p]

ProcOK(p) ==
  /\ Controle(p)
  /\ ComLock(p)
  /\ Leitura(p)
  /\ Escrita(p)
  /\ Fechamento(p)

Disjuntas ==
  \A p, q \in Procs : p # q => tocadas[p] \cap tocadas[q] = {}

IInv ==
  /\ TypeOK
  /\ \A p \in Procs : ProcOK(p)
  /\ Disjuntas
  /\ CorrenteUnica

-----------------------------------------------------------------------------
(* Type correctness.                                                       *)

LEMMA TiposConstantes ==
  /\ Ausente \in Linha
  /\ TabelaVazia \in [Versoes -> Linha]
  /\ Ociosa \in Operacao
BY DEF Ausente, Linha, TabelaVazia, Ociosa, Pedido, Operacao, Tipos, Abertos

(* The edits the statements make of a row keep it a row. *)
LEMMA EdicaoTypeOK ==
  ASSUME NEW l \in Linha
  PROVE  /\ \A d \in Abertos : [l EXCEPT !.estado = d] \in Linha
         /\ [l EXCEPT !.corrente = FALSE] \in Linha
         /\ [l EXCEPT !.estado = "FECHADO", !.corrente = TRUE] \in Linha
BY DEF Linha, Abertos

LEMMA InitTypeOK == Init => TypeOK
BY TiposConstantes DEF Init, TypeOK, Pontos

(* Terminar resets one process and nothing else. *)
LEMMA TerminarTypeOK ==
  ASSUME TypeOK, NEW p \in Procs, Terminar(p), lock' \in Procs \cup {Nada},
         linhas' \in [Versoes -> Linha]
  PROVE  TypeOK'
BY TiposConstantes DEF TypeOK, Terminar, Pontos

LEMMA LiberarTypeOK ==
  ASSUME TypeOK, NEW p \in Procs, Liberar(p), linhas' \in [Versoes -> Linha]
  PROVE  TypeOK'
<1>1. lock' \in Procs \cup {Nada}
  BY DEF Liberar, TypeOK
<1> QED BY <1>1, TerminarTypeOK DEF Liberar

LEMMA GravarTypeOK ==
  ASSUME TypeOK, NEW p \in Procs, NEW v \in Versoes, NEW linha \in Linha,
         Gravar(p, v, linha)
  PROVE  /\ area' \in [Procs -> [Versoes -> Linha]]
         /\ tocadas' \in [Procs -> SUBSET Versoes]
BY DEF TypeOK, Gravar

LEMMA IniciarTypeOK ==
  ASSUME TypeOK, NEW p \in Procs, NEW o \in Operacao, NEW ponto \in Pontos,
         Iniciar(p, o, ponto)
  PROVE  TypeOK'
BY TiposConstantes DEF TypeOK, Iniciar

LEMMA InserirTypeOK ==
  ASSUME TypeOK, NEW p \in Procs, NEW e \in Entradas \cup {Nada},
         NEW o \in {0} \cup Versoes, InserirNovaVersao(p, e, o)
  PROVE  /\ area' \in [Procs -> [Versoes -> Linha]]
         /\ tocadas' \in [Procs -> SUBSET Versoes]
<1>1. ProximaVersao(Visao(p)) \in Versoes
  BY DEF InserirNovaVersao, VersaoColide
<1>2. [estado |-> "RASCUNHO", corrente |-> FALSE, entradas |-> e, original |-> o] \in Linha
  BY DEF Linha, Abertos
<1> QED BY <1>1, <1>2, GravarTypeOK DEF InserirNovaVersao

(* The type invariant is preserved; one step per action. It needs the rest *)
(* of the invariant: what an operation's fields are at each program point. *)
LEMMA NextTypeOK == IInv /\ [Next]_vars => TypeOK'
<1> SUFFICES ASSUME IInv, [Next]_vars PROVE TypeOK'
  OBVIOUS
<1>0. TypeOK
  BY DEF IInv
<1>1. CASE UNCHANGED vars
  BY <1>0, <1>1 DEF TypeOK, vars
<1>2. ASSUME NEW p \in Procs, Comecar(p) PROVE TypeOK'
  <2>1. PICK o, ponto : o \in Operacao /\ ponto \in Pontos /\ Iniciar(p, o, ponto)
    <3>1. CASE IniciarAbrir(p)
      BY <3>1 DEF IniciarAbrir, Pedido, Operacao, Tipos, Pontos
    <3>2. CASE IniciarTransicionar(p)
      BY <3>2 DEF IniciarTransicionar, Pedido, Operacao, Tipos, Pontos, Existentes
    <3>3. CASE IniciarFechar(p)
      BY <3>3 DEF IniciarFechar, Pedido, Operacao, Tipos, Pontos, Existentes
    <3>4. CASE IniciarRetificar(p)
      BY <3>4 DEF IniciarRetificar, Pedido, Operacao, Tipos, Pontos, Existentes
    <3>5. CASE IniciarEscrita(p)
      BY <3>5, FechamentoAssumption
         DEF IniciarEscrita, Pedido, Operacao, Tipos, Pontos, FechamentoAssumption
    <3> QED BY <1>2, <3>1, <3>2, <3>3, <3>4, <3>5 DEF Comecar
  <2> QED BY <1>0, <2>1, IniciarTypeOK
<1>3. ASSUME NEW p \in Procs, Prosseguir(p) \/ Cair(p) PROVE TypeOK'
  <2>0. op[p] \in Operacao /\ op[p].tipo \in TiposEm[pc[p]] /\ Leitura(p)
    BY <1>0 DEF IInv, ProcOK, Controle, TypeOK
  <2>1. CASE ObterLock(p)
    <3>1. DepoisDoLock[op[p].tipo] \in Pontos
      BY <2>0, <2>1 DEF ObterLock, TiposEm, DepoisDoLock, Pontos
    <3> QED BY <1>0, <2>1, <3>1 DEF ObterLock, TypeOK
  <2>2. CASE Inserir(p)
    <3>1. op[p].entradas \in Entradas \cup {Nada} /\ op[p].alvo \in {0} \cup Versoes
      BY <2>0 DEF Operacao
    <3> QED BY <1>0, <2>2, <3>1, InserirTypeOK DEF Inserir, Avancar, TypeOK, Pontos
  <2>3. CASE SinalizarSemEntrega(p) \/ SinalizarReutiliza(p)
    BY <1>0, <2>3 DEF SinalizarSemEntrega, SinalizarReutiliza, Avancar, TypeOK, Pontos
  <2>4. CASE SinalizarAbre(p)
    <3>1. PICK c \in Versoes : InserirNovaVersao(p, Visao(p)[c].entradas, 0)
      BY <2>4 DEF SinalizarAbre, CorrenteFechada, Correntes
    <3>2. Visao(p)[c].entradas \in Entradas \cup {Nada}
      BY <1>0 DEF Visao, TypeOK, Linha
    <3>3. area' \in [Procs -> [Versoes -> Linha]] /\ tocadas' \in [Procs -> SUBSET Versoes]
      BY <1>0, <3>1, <3>2, InserirTypeOK
    <3> QED BY <1>0, <2>4, <3>3 DEF SinalizarAbre, Avancar, TypeOK, Pontos
  <2>5. CASE Atualizar(p)
    <3>1. op[p].alvo \in Versoes /\ op[p].destino \in Abertos
      BY <2>0, <2>5 DEF Atualizar, TiposEm, Leitura
    <3>2. [snap[p][op[p].alvo] EXCEPT !.estado = op[p].destino] \in Linha
      <4>1. snap[p][op[p].alvo] \in Linha
        BY <1>0, <3>1 DEF TypeOK
      <4> QED BY <3>1, <4>1, EdicaoTypeOK
    <3>3. area' \in [Procs -> [Versoes -> Linha]] /\ tocadas' \in [Procs -> SUBSET Versoes]
      BY <1>0, <2>5, <3>1, <3>2, GravarTypeOK DEF Atualizar
    <3> QED BY <1>0, <2>5, <3>3 DEF Atualizar, Avancar, TypeOK, Pontos
  <2>6. CASE Desmarcar(p)
    <3>1. \A v \in Versoes : [snap[p][v] EXCEPT !.corrente = FALSE] \in Linha
      BY <1>0, EdicaoTypeOK DEF TypeOK
    <3>2. Correntes(snap[p]) \subseteq Versoes
      BY DEF Correntes
    <3>3. area' \in [Procs -> [Versoes -> Linha]] /\ tocadas' \in [Procs -> SUBSET Versoes]
      BY <1>0, <2>6, <3>1, <3>2 DEF Desmarcar, TypeOK
    <3> QED BY <1>0, <2>6, <3>3 DEF Desmarcar, Avancar, TypeOK, Pontos
  <2>7. CASE Promover(p)
    <3>1. op[p].alvo \in Versoes
      BY <2>0, <2>7 DEF Promover, TiposEm, Leitura
    <3>2. [snap[p][op[p].alvo] EXCEPT !.estado = "FECHADO", !.corrente = TRUE] \in Linha
      <4>1. snap[p][op[p].alvo] \in Linha
        BY <1>0, <3>1 DEF TypeOK
      <4> QED BY <3>1, <4>1, EdicaoTypeOK
    <3>3. area' \in [Procs -> [Versoes -> Linha]] /\ tocadas' \in [Procs -> SUBSET Versoes]
      BY <1>0, <2>7, <3>1, <3>2, GravarTypeOK DEF Promover
    <3> QED BY <1>0, <2>7, <3>3 DEF Promover, Avancar, TypeOK, Pontos
  <2>8. CASE Confirmar(p)
    <3>1. linhas' \in [Versoes -> Linha]
      BY <1>0, <2>8 DEF Confirmar, TypeOK
    <3> QED BY <1>0, <2>8, <3>1, LiberarTypeOK DEF Confirmar
  <2>9. CASE Falhar(p) \/ Cair(p)
    <3>1. linhas' \in [Versoes -> Linha] /\ Liberar(p)
      BY <1>0, <2>9 DEF Falhar, Cair, TypeOK
    <3> QED BY <1>0, <3>1, LiberarTypeOK
  <2> QED BY <1>3, <2>1, <2>2, <2>3, <2>4, <2>5, <2>6, <2>7, <2>8, <2>9 DEF Prosseguir
<1> QED BY <1>1, <1>2, <1>3 DEF Next

-----------------------------------------------------------------------------
(* The rest of the invariant.                                              *)

(* A step that changes neither the table nor q's part leaves q's part good. *)
LEMMA Alheio ==
  ASSUME NEW q \in Procs, ProcOK(q), linhas' = linhas,
         pc'[q] = pc[q], op'[q] = op[q], snap'[q] = snap[q],
         area'[q] = area[q], tocadas'[q] = tocadas[q],
         lock = q => lock' = q
  PROVE  ProcOK(q)'
<1>1. /\ Controle(q)'
      /\ ComLock(q)'
  BY DEF ProcOK, Controle, ComLock
<1>4. Leitura(q)'
  BY DEF ProcOK, Leitura
<1>2. Escrita(q)'
  <2> SUFFICES ASSUME NEW v \in tocadas[q]
               PROVE  (Nova(q, v) \/ Avancada(q, v) \/ Desmarcada(q, v) \/ Promovida(q, v))'
    BY DEF Escrita
  <2>1. Nova(q, v) \/ Avancada(q, v) \/ Desmarcada(q, v) \/ Promovida(q, v)
    BY DEF ProcOK, Escrita
  <2>2. Nova(q, v) => Nova(q, v)'
    BY DEF Nova
  <2>3. Avancada(q, v) => Avancada(q, v)'
    BY DEF Avancada
  <2>4. Desmarcada(q, v) => Desmarcada(q, v)'
    BY DEF Desmarcada
  <2>5. Promovida(q, v) => Promovida(q, v)'
    BY DEF Promovida
  <2> QED BY <2>1, <2>2, <2>3, <2>4, <2>5
<1>3. Fechamento(q)'
  BY DEF ProcOK, Fechamento, Promovida, Correntes
<1> QED BY <1>1, <1>2, <1>3, <1>4 DEF ProcOK

LEMMA CorrenteUnicaEstavel ==
  ASSUME CorrenteUnica, linhas' = linhas
  PROVE  CorrenteUnica'
BY DEF CorrenteUnica, Correntes

(* A step of p that leaves the table alone: what is left to show is p's    *)
(* own part, and that p writes no row another open transaction wrote.      *)
LEMMA PassoLocal ==
  ASSUME IInv, TypeOK', NEW p \in Procs, linhas' = linhas,
         \A q \in Procs \ {p} :
           /\ pc'[q] = pc[q] /\ op'[q] = op[q] /\ snap'[q] = snap[q]
           /\ area'[q] = area[q] /\ tocadas'[q] = tocadas[q]
           /\ lock = q => lock' = q
           /\ tocadas'[p] \cap tocadas[q] = {},
         ProcOK(p)'
  PROVE  IInv'
<1>1. \A q \in Procs : ProcOK(q)'
  <2> SUFFICES ASSUME NEW q \in Procs, q # p PROVE ProcOK(q)'
    OBVIOUS
  <2>1. ProcOK(q)
    BY DEF IInv
  <2> QED BY <2>1, Alheio
<1>2. Disjuntas'
  BY DEF IInv, Disjuntas
<1>3. CorrenteUnica'
  BY CorrenteUnicaEstavel DEF IInv
<1> QED BY <1>1, <1>2, <1>3 DEF IInv

(* A transaction starts: it has written nothing. *)
LEMMA ComecarOK ==
  ASSUME IInv, TypeOK', NEW p \in Procs, Comecar(p)
  PROVE  IInv'
<1>1. PICK o, ponto :
        /\ Iniciar(p, o, ponto)
        /\ ponto \in {"lock", "atualizar"}
        /\ o.tipo \in TiposEm[ponto]
        /\ o.tipo # "ESCREVER" => o.isol = "RR"
        /\ o.tipo = "TRANSICIONAR" =>
             /\ o.alvo \in Versoes
             /\ TransicaoPermitida(linhas[o.alvo].estado, o.destino)
             /\ o.destino \in Abertos
        /\ o.tipo = "FECHAR" =>
             /\ o.alvo \in Versoes
             /\ linhas[o.alvo].estado = "REVISADO"
  <2>1. CASE IniciarAbrir(p)
    BY <2>1 DEF IniciarAbrir, Pedido, TiposEm
  <2>2. CASE IniciarTransicionar(p)
    BY <2>2 DEF IniciarTransicionar, Pedido, TiposEm, Existentes
  <2>3. CASE IniciarFechar(p)
    BY <2>3 DEF IniciarFechar, Pedido, TiposEm, Existentes, TransicaoPermitida
  <2>4. CASE IniciarRetificar(p)
    BY <2>4 DEF IniciarRetificar, Pedido, TiposEm
  <2>5. CASE IniciarEscrita(p)
    BY <2>5 DEF IniciarEscrita, Pedido, TiposEm
  <2> QED BY <2>1, <2>2, <2>3, <2>4, <2>5 DEF Comecar
<1>2. /\ pc[p] = "ocioso"
      /\ pc'[p] = ponto /\ op'[p] = o
      /\ o.isol = "RR" => snap'[p] = linhas
      /\ linhas' = linhas /\ lock' = lock /\ area' = area /\ tocadas' = tocadas
      /\ \A q \in Procs \ {p} : pc'[q] = pc[q] /\ op'[q] = op[q] /\ snap'[q] = snap[q]
  BY <1>1 DEF IInv, TypeOK, Iniciar
<1>3. tocadas[p] = {}
  BY <1>2 DEF IInv, ProcOK, Controle
<1>4. ProcOK(p)'
  <2>1. Controle(p)' /\ ComLock(p)'
    BY <1>1, <1>2, <1>3 DEF Controle, ComLock
  <2>2. Leitura(p)'
    BY <1>1, <1>2 DEF Leitura
  <2>3. Escrita(p)'
    BY <1>2, <1>3 DEF Escrita
  <2>4. Fechamento(p)'
    BY <1>1, <1>2 DEF Fechamento
  <2> QED BY <2>1, <2>2, <2>3, <2>4 DEF ProcOK
<1> QED BY <1>2, <1>3, <1>4, PassoLocal

(* p's variables after its transaction ended. *)
LEMMA AposTerminar ==
  ASSUME TypeOK, NEW p \in Procs, Liberar(p)
  PROVE  /\ pc'[p] = "ocioso" /\ op'[p] = Ociosa /\ tocadas'[p] = {}
         /\ \A q \in Procs \ {p} :
              /\ pc'[q] = pc[q] /\ op'[q] = op[q] /\ snap'[q] = snap[q]
              /\ area'[q] = area[q] /\ tocadas'[q] = tocadas[q]
              /\ lock = q => lock' = q
         /\ ProcOK(p)'
<1>1. /\ pc'[p] = "ocioso" /\ op'[p] = Ociosa /\ tocadas'[p] = {}
      /\ \A q \in Procs \ {p} :
           /\ pc'[q] = pc[q] /\ op'[q] = op[q] /\ snap'[q] = snap[q]
           /\ area'[q] = area[q] /\ tocadas'[q] = tocadas[q]
           /\ lock = q => lock' = q
  BY FechamentoAssumption DEF TypeOK, Liberar, Terminar, FechamentoAssumption
<1>2. Controle(p)' /\ ComLock(p)' /\ Leitura(p)' /\ Escrita(p)' /\ Fechamento(p)'
  BY <1>1 DEF Controle, ComLock, Leitura, Escrita, Fechamento, Ociosa, Pedido, TiposEm
<1> QED BY <1>1, <1>2 DEF ProcOK

(* A rollback. *)
LEMMA ReverterOK ==
  ASSUME IInv, TypeOK', NEW p \in Procs, linhas' = linhas, Liberar(p)
  PROVE  IInv'
<1>1. TypeOK
  BY DEF IInv
<1> QED BY <1>1, AposTerminar, PassoLocal

(* The lock is granted: p is the only one that holds it. *)
LEMMA ObterLockOK ==
  ASSUME IInv, TypeOK', NEW p \in Procs, ObterLock(p)
  PROVE  IInv'
<1>1. /\ linhas' = linhas /\ op' = op /\ snap' = snap /\ area' = area
      /\ tocadas' = tocadas /\ lock' = p
      /\ pc[p] = "lock" /\ pc'[p] = DepoisDoLock[op[p].tipo]
      /\ \A q \in Procs \ {p} : pc'[q] = pc[q] /\ lock # q
  BY FechamentoAssumption DEF IInv, TypeOK, ObterLock, FechamentoAssumption
<1>2. ProcOK(p) /\ tocadas[p] = {}
  BY <1>1 DEF IInv, ProcOK, Controle
<1>3. pc'[p] \in {"inserir", "desmarcar", "sinalizar"} /\ op[p].tipo \in TiposEm[pc'[p]]
  BY <1>1, <1>2 DEF ProcOK, Controle, TiposEm, DepoisDoLock
<1>4. ProcOK(p)'
  <2>1. Controle(p)' /\ ComLock(p)' /\ Leitura(p)'
    BY <1>1, <1>2, <1>3 DEF ProcOK, Controle, ComLock, Leitura
  <2>2. Escrita(p)' /\ Fechamento(p)'
    BY <1>1, <1>2, <1>3 DEF Escrita, Fechamento
  <2> QED BY <2>1, <2>2 DEF ProcOK
<1> QED BY <1>1, <1>2, <1>4, PassoLocal

(* Avancar changes p's program point only. *)
LEMMA AvancarOK ==
  ASSUME TypeOK, NEW p \in Procs, NEW ponto, Avancar(p, ponto)
  PROVE  /\ linhas' = linhas /\ lock' = lock /\ op' = op /\ snap' = snap
         /\ pc'[p] = ponto
         /\ \A q \in Procs \ {p} : pc'[q] = pc[q]
BY DEF TypeOK, Avancar

LEMMA SinalizarSemEscritaOK ==
  ASSUME IInv, TypeOK', NEW p \in Procs,
         SinalizarSemEntrega(p) \/ SinalizarReutiliza(p)
  PROVE  IInv'
<1>1. /\ linhas' = linhas /\ lock' = lock /\ op' = op /\ snap' = snap
      /\ area' = area /\ tocadas' = tocadas
      /\ pc[p] = "sinalizar" /\ pc'[p] = "confirmar"
      /\ \A q \in Procs \ {p} : pc'[q] = pc[q]
  BY AvancarOK DEF IInv, SinalizarSemEntrega, SinalizarReutiliza
<1>2. ProcOK(p) /\ tocadas[p] = {} /\ op[p].tipo = "ESCREVER"
  BY <1>1 DEF IInv, ProcOK, Controle, TiposEm
<1>3. ProcOK(p)'
  BY <1>1, <1>2 DEF ProcOK, Controle, ComLock, Leitura, Escrita, Fechamento, TiposEm
<1> QED BY <1>1, <1>2, <1>3, PassoLocal

(* p writes row v and nothing else. *)
LEMMA GravarOK ==
  ASSUME TypeOK, NEW p \in Procs, NEW v \in Versoes, NEW linha, Gravar(p, v, linha)
  PROVE  /\ area'[p][v] = linha
         /\ \A w \in Versoes \ {v} : area'[p][w] = area[p][w]
         /\ tocadas'[p] = tocadas[p] \cup {v}
         /\ \A q \in Procs \ {p} : area'[q] = area[q] /\ tocadas'[q] = tocadas[q]
BY DEF TypeOK, Gravar

(* Only the holder of the lock has inserted a row that is not committed. *)
LEMMA LinhaAusenteLivre ==
  ASSUME IInv, NEW p \in Procs, lock = p, NEW q \in Procs, q # p,
         NEW v \in Versoes, linhas[v].estado = "AUSENTE"
  PROVE  v \notin tocadas[q]
<1> SUFFICES ASSUME v \in tocadas[q] PROVE FALSE
  OBVIOUS
<1>1. ~linhas[v].corrente
  BY DEF IInv, CorrenteUnica
<1>2. ~Avancada(q, v)
  BY DEF Avancada, TransicaoPermitida
<1>3. ~Desmarcada(q, v) /\ ~Promovida(q, v)
  BY <1>1 DEF Desmarcada, Promovida
<1>4. ProcOK(q)
  BY DEF IInv
<1>5. Nova(q, v)
  BY <1>2, <1>3, <1>4 DEF ProcOK, Escrita
<1> QED BY <1>4, <1>5 DEF ProcOK, ComLock, Nova

(* A new version. *)
LEMMA InserirOK ==
  ASSUME IInv, TypeOK', NEW p \in Procs, NEW e, NEW o,
         pc[p] \in {"inserir", "sinalizar"},
         InserirNovaVersao(p, e, o), Avancar(p, "confirmar")
  PROVE  IInv'
<1>0. TypeOK /\ ProcOK(p)
  BY DEF IInv
<1>1. PICK n \in Versoes : n = ProximaVersao(Visao(p)) /\ linhas[n].estado = "AUSENTE"
  BY DEF InserirNovaVersao, VersaoColide
<1>2. /\ linhas' = linhas /\ lock' = lock /\ op' = op /\ snap' = snap
      /\ pc'[p] = "confirmar"
      /\ \A q \in Procs \ {p} : pc'[q] = pc[q]
  BY <1>0, AvancarOK
<1>3. /\ area'[p][n].estado = "RASCUNHO" /\ ~area'[p][n].corrente
      /\ tocadas'[p] = tocadas[p] \cup {n}
      /\ \A q \in Procs \ {p} : area'[q] = area[q] /\ tocadas'[q] = tocadas[q]
  BY <1>0, <1>1, GravarOK DEF InserirNovaVersao
<1>4. tocadas'[p] = {n} /\ lock = p /\ op[p].tipo \in {"ABRIR", "RETIFICAR", "ESCREVER"}
  BY <1>0, <1>3 DEF ProcOK, Controle, ComLock, TiposEm
<1>5. ProcOK(p)'
  <2>1. Controle(p)' /\ ComLock(p)' /\ Leitura(p)'
    BY <1>0, <1>2, <1>4 DEF ProcOK, Controle, ComLock, Leitura, TiposEm
  <2>2. Nova(p, n)'
    BY <1>1, <1>2, <1>3, <1>4 DEF Nova
  <2>3. Escrita(p)' /\ Fechamento(p)'
    BY <1>2, <1>4, <2>2 DEF Escrita, Fechamento
  <2> QED BY <2>1, <2>3 DEF ProcOK
<1>6. \A q \in Procs \ {p} : tocadas'[p] \cap tocadas[q] = {}
  BY <1>1, <1>4, LinhaAusenteLivre
<1> QED BY <1>2, <1>3, <1>5, <1>6, PassoLocal

(* transicionar writes the row it read, which is still the committed one. *)
LEMMA AtualizarOK ==
  ASSUME IInv, TypeOK', NEW p \in Procs, Atualizar(p)
  PROVE  IInv'
<1>0. TypeOK /\ ProcOK(p)
  BY DEF IInv
<1>1. op[p].tipo = "TRANSICIONAR" /\ tocadas[p] = {} /\ op[p].isol = "RR"
  BY <1>0 DEF Atualizar, ProcOK, Controle, TiposEm
<1>2. PICK v \in Versoes : v = op[p].alvo
  BY <1>0, <1>1 DEF ProcOK, Leitura
<1>3. /\ linhas' = linhas /\ lock' = lock /\ op' = op /\ snap' = snap
      /\ pc'[p] = "confirmar"
      /\ \A q \in Procs \ {p} : pc'[q] = pc[q]
  BY <1>0, AvancarOK DEF Atualizar
<1>4. /\ area'[p][v] = [snap[p][v] EXCEPT !.estado = op[p].destino]
      /\ tocadas'[p] = {v}
      /\ \A q \in Procs \ {p} : area'[q] = area[q] /\ tocadas'[q] = tocadas[q]
  BY <1>0, <1>1, <1>2, GravarOK DEF Atualizar
<1>5. snap[p][v] = linhas[v]
  BY <1>1, <1>2 DEF Atualizar, Conflito, Visao
<1>6. ProcOK(p)'
  <2>1. Controle(p)' /\ ComLock(p)'
    BY <1>0, <1>1, <1>3 DEF ProcOK, Controle, ComLock, TiposEm
  <2>2. Leitura(p)'
    BY <1>0, <1>3 DEF ProcOK, Leitura
  <2>3. area'[p][v] = [linhas'[v] EXCEPT !.estado = op'[p].destino]
    BY <1>3, <1>4, <1>5
  <2>4. TransicaoPermitida(linhas[v].estado, op[p].destino) /\ op[p].destino \in Abertos
    BY <1>0, <1>1, <1>2, <1>5 DEF ProcOK, Leitura
  <2>5. Avancada(p, v)'
    BY <1>1, <1>3, <2>3, <2>4 DEF Avancada
  <2>6. Escrita(p)' /\ Fechamento(p)'
    BY <1>1, <1>3, <1>4, <2>5 DEF Escrita, Fechamento
  <2> QED BY <2>1, <2>2, <2>6 DEF ProcOK
<1>7. \A q \in Procs \ {p} : tocadas'[p] \cap tocadas[q] = {}
  BY <1>2, <1>4 DEF Atualizar, Travada
<1> QED BY <1>3, <1>4, <1>6, <1>7, PassoLocal

(* fechar clears rows that are still as its snapshot shows them. *)
LEMMA DesmarcarOK ==
  ASSUME IInv, TypeOK', NEW p \in Procs, Desmarcar(p)
  PROVE  IInv'
<1>0. TypeOK /\ ProcOK(p)
  BY DEF IInv
<1>1. op[p].tipo = "FECHAR" /\ op[p].isol = "RR"
  BY <1>0 DEF Desmarcar, ProcOK, Controle, TiposEm
<1>2. /\ linhas' = linhas /\ lock' = lock /\ op' = op /\ snap' = snap
      /\ pc'[p] = "promover"
      /\ \A q \in Procs \ {p} : pc'[q] = pc[q]
  BY <1>0, AvancarOK DEF Desmarcar
<1>3. /\ tocadas'[p] = Correntes(snap[p])
      /\ \A v \in Correntes(snap[p]) :
           area'[p][v] = [snap[p][v] EXCEPT !.corrente = FALSE]
      /\ \A q \in Procs \ {p} : area'[q] = area[q] /\ tocadas'[q] = tocadas[q]
  BY <1>0 DEF Desmarcar, TypeOK, Correntes
<1>4. \A v \in Correntes(snap[p]) : snap[p][v] = linhas[v] /\ linhas[v].corrente
  BY <1>1 DEF Desmarcar, Conflito, Visao, Correntes
<1>5. ProcOK(p)'
  <2>1. Controle(p)' /\ ComLock(p)'
    BY <1>0, <1>1, <1>2 DEF Desmarcar, ProcOK, Controle, ComLock, TiposEm
  <2>2. Leitura(p)'
    BY <1>0, <1>2 DEF ProcOK, Leitura
  <2>3. ASSUME NEW v \in Correntes(snap[p]) PROVE Desmarcada(p, v)'
    <3>1. area'[p][v] = [linhas'[v] EXCEPT !.corrente = FALSE]
      BY <1>2, <1>3, <1>4
    <3> QED BY <1>1, <1>2, <1>4, <3>1 DEF Desmarcada
  <2>4. Escrita(p)' /\ Fechamento(p)'
    BY <1>2, <1>3, <2>3 DEF Escrita, Fechamento
  <2> QED BY <2>1, <2>2, <2>4 DEF ProcOK
<1>6. \A q \in Procs \ {p} : tocadas'[p] \cap tocadas[q] = {}
  BY <1>3 DEF Desmarcar, Travada
<1> QED BY <1>2, <1>3, <1>5, <1>6, PassoLocal

(* fechar promotes its version; the unique index sees to it that every     *)
(* other committed current version is one it has cleared.                  *)
LEMMA PromoverOK ==
  ASSUME IInv, TypeOK', NEW p \in Procs, Promover(p)
  PROVE  IInv'
<1>0. TypeOK /\ ProcOK(p)
  BY DEF IInv
<1>1. op[p].tipo = "FECHAR" /\ op[p].isol = "RR"
  BY <1>0 DEF Promover, ProcOK, Controle, TiposEm
<1>2. PICK v \in Versoes : v = op[p].alvo
  BY <1>0, <1>1 DEF ProcOK, Leitura
<1>3. /\ linhas' = linhas /\ lock' = lock /\ op' = op /\ snap' = snap
      /\ pc'[p] = "confirmar"
      /\ \A q \in Procs \ {p} : pc'[q] = pc[q]
  BY <1>0, AvancarOK DEF Promover
<1>4. /\ area'[p][v] = [snap[p][v] EXCEPT !.estado = "FECHADO", !.corrente = TRUE]
      /\ tocadas'[p] = tocadas[p] \cup {v}
      /\ \A w \in Versoes \ {v} : area'[p][w] = area[p][w]
      /\ \A q \in Procs \ {p} : area'[q] = area[q] /\ tocadas'[q] = tocadas[q]
  BY <1>0, <1>2, GravarOK DEF Promover
<1>5. snap[p][v] = linhas[v] /\ linhas[v].estado = "REVISADO"
  BY <1>0, <1>1, <1>2 DEF Promover, Conflito, Visao, ProcOK, Leitura
<1>6. ProcOK(p)'
  <2>1. Controle(p)' /\ ComLock(p)'
    BY <1>0, <1>1, <1>3 DEF Promover, ProcOK, Controle, ComLock, TiposEm
  <2>2. Leitura(p)'
    BY <1>0, <1>3 DEF ProcOK, Leitura
  <2>3. Promovida(p, v)'
    <3>1. area'[p][v] = [linhas'[v] EXCEPT !.estado = "FECHADO", !.corrente = TRUE]
      BY <1>3, <1>4, <1>5
    <3> QED BY <1>1, <1>2, <1>3, <1>5, <3>1 DEF Promovida
  <2>4. ASSUME NEW w \in tocadas[p], w # v PROVE Desmarcada(p, w)'
    <3>1. w \in Versoes
      BY <1>0 DEF TypeOK
    <3>2. Desmarcada(p, w)
      BY <1>0, <1>1 DEF Promover, ProcOK, Escrita, Nova, Avancada, Promovida
    <3>3. area'[p][w] = [linhas'[w] EXCEPT !.corrente = FALSE]
      BY <1>3, <1>4, <2>4, <3>1, <3>2 DEF Desmarcada
    <3> QED BY <1>3, <3>2, <3>3 DEF Desmarcada
  <2>5. Escrita(p)'
    BY <1>4, <2>3, <2>4 DEF Escrita
  <2>6. Fechamento(p)'
    BY <1>2, <1>3, <1>4, <2>3 DEF Fechamento, Promover, CorrenteColide, Correntes
  <2> QED BY <2>1, <2>2, <2>5, <2>6 DEF ProcOK
<1>7. \A q \in Procs \ {p} : tocadas'[p] \cap tocadas[q] = {}
  BY <1>2, <1>4 DEF Promover, Travada, IInv, Disjuntas
<1> QED BY <1>3, <1>4, <1>6, <1>7, PassoLocal

(* What a commit does to a row, when the transaction is not a closing. *)
LEMMA CommitSemFechar ==
  ASSUME IInv, NEW p \in Procs, Confirmar(p), op[p].tipo # "FECHAR", NEW v \in Versoes
  PROVE  /\ linhas'[v].corrente = linhas[v].corrente
         /\ linhas'[v].estado = "FECHADO" <=> linhas[v].estado = "FECHADO"
<1>0. TypeOK /\ ProcOK(p)
  BY DEF IInv
<1>1. linhas'[v] = IF v \in tocadas[p] THEN area[p][v] ELSE linhas[v]
  BY DEF Confirmar
<1>2. CASE v \notin tocadas[p]
  BY <1>1, <1>2
<1>3. CASE v \in tocadas[p]
  <2>1. Nova(p, v) \/ Avancada(p, v)
    BY <1>0, <1>3 DEF ProcOK, Escrita, Desmarcada, Promovida
  <2>2. linhas[v].corrente \in BOOLEAN /\ area[p][v].corrente \in BOOLEAN
    BY <1>0 DEF TypeOK, Linha
  <2>3. CASE Nova(p, v)
    <3>1. ~linhas[v].corrente
      BY <2>3 DEF Nova, IInv, CorrenteUnica
    <3> QED BY <1>1, <1>3, <2>2, <2>3, <3>1 DEF Nova
  <2>4. CASE Avancada(p, v)
    <3>1. linhas[v] \in Linha
      BY <1>0 DEF TypeOK
    <3>2. area[p][v].corrente = linhas[v].corrente /\ area[p][v].estado = op[p].destino
      BY <2>4, <3>1 DEF Avancada, Linha
    <3> QED BY <1>1, <1>3, <2>4, <3>2 DEF Avancada, TransicaoPermitida, Abertos
  <2> QED BY <2>1, <2>3, <2>4
<1> QED BY <1>2, <1>3

(* After a closing commits, its version is the current one and the only one. *)
LEMMA CommitFechar ==
  ASSUME IInv, NEW p \in Procs, Confirmar(p), op[p].tipo = "FECHAR", NEW v \in Versoes
  PROVE  /\ linhas'[v].corrente <=> v = op[p].alvo
         /\ v = op[p].alvo => linhas'[v].estado = "FECHADO"
         /\ op[p].alvo \in Versoes
<1>0. TypeOK /\ ProcOK(p) /\ pc[p] = "confirmar"
  BY DEF IInv, Confirmar
<1>1. linhas'[v] = IF v \in tocadas[p] THEN area[p][v] ELSE linhas[v]
  BY DEF Confirmar
<1>2. /\ op[p].alvo \in tocadas[p] /\ op[p].alvo \in Versoes
      /\ Promovida(p, op[p].alvo)
      /\ Correntes(linhas) \subseteq tocadas[p]
  BY <1>0 DEF ProcOK, Fechamento, TypeOK
<1>3. linhas[v] \in Linha
  BY <1>0 DEF TypeOK
<1>4. CASE v = op[p].alvo
  <2>1. area[p][v].estado = "FECHADO" /\ area[p][v].corrente
    BY <1>2, <1>3, <1>4 DEF Promovida, Linha
  <2> QED BY <1>1, <1>2, <1>4, <2>1
<1>5. CASE v # op[p].alvo /\ v \in tocadas[p]
  <2>1. Desmarcada(p, v)
    BY <1>0, <1>5 DEF ProcOK, Escrita, Nova, Avancada, Promovida
  <2>2. ~area[p][v].corrente
    BY <1>3, <2>1 DEF Desmarcada, Linha
  <2> QED BY <1>1, <1>2, <1>5, <2>2
<1>6. CASE v # op[p].alvo /\ v \notin tocadas[p]
  <2>1. ~linhas[v].corrente
    BY <1>2, <1>6 DEF Correntes
  <2> QED BY <1>1, <1>2, <1>6, <2>1
<1> QED BY <1>4, <1>5, <1>6

LEMMA ConfirmarOK ==
  ASSUME IInv, TypeOK', NEW p \in Procs, Confirmar(p)
  PROVE  IInv'
<1>0. TypeOK /\ ProcOK(p) /\ pc[p] = "confirmar" /\ Liberar(p)
  BY DEF IInv, Confirmar
<1>1. /\ ProcOK(p)' /\ tocadas'[p] = {}
      /\ \A q \in Procs \ {p} :
           /\ pc'[q] = pc[q] /\ op'[q] = op[q] /\ snap'[q] = snap[q]
           /\ area'[q] = area[q] /\ tocadas'[q] = tocadas[q]
           /\ lock = q => lock' = q
  BY <1>0, AposTerminar
<1>2. ASSUME NEW q \in Procs, q # p PROVE ProcOK(q)'
  <2>0. ProcOK(q)
    BY DEF IInv
  <2>1. Controle(q)' /\ ComLock(q)'
    BY <1>1, <1>2, <2>0 DEF ProcOK, Controle, ComLock
  <2>2. Leitura(q)'
    BY <1>1, <1>2, <2>0 DEF ProcOK, Leitura
  <2>3. \A v \in tocadas[q] : v \in Versoes /\ linhas'[v] = linhas[v]
    BY <1>0, <1>2 DEF IInv, Disjuntas, Confirmar, TypeOK
  <2>4. ASSUME NEW v \in tocadas[q]
        PROVE  (Nova(q, v) \/ Avancada(q, v) \/ Desmarcada(q, v) \/ Promovida(q, v))'
    <3>1. linhas'[v] = linhas[v]
      BY <2>3
    <3>2. Nova(q, v) => Nova(q, v)'
      BY <1>1, <1>2, <3>1 DEF Nova
    <3>3. Avancada(q, v) => Avancada(q, v)'
      BY <1>1, <1>2, <3>1 DEF Avancada
    <3>4. Desmarcada(q, v) => Desmarcada(q, v)'
      BY <1>1, <1>2, <3>1 DEF Desmarcada
    <3>5. Promovida(q, v) => Promovida(q, v)'
      BY <1>1, <1>2, <3>1 DEF Promovida
    <3> QED BY <2>0, <3>2, <3>3, <3>4, <3>5 DEF ProcOK, Escrita
  <2>5. Escrita(q)'
    BY <1>1, <1>2, <2>4 DEF Escrita
  <2>6. Fechamento(q)'
    <3> SUFFICES ASSUME op[q].tipo = "FECHAR", pc[q] = "confirmar"
                 PROVE  /\ op[q].alvo \in tocadas[q]
                        /\ Promovida(q, op[q].alvo)'
                        /\ Correntes(linhas)' \subseteq tocadas[q]
      BY <1>1, <1>2 DEF Fechamento
    <3>1. /\ op[q].alvo \in tocadas[q] /\ Promovida(q, op[q].alvo)
          /\ Correntes(linhas) \subseteq tocadas[q]
      BY <2>0 DEF ProcOK, Fechamento
    <3>2. op[p].tipo = "TRANSICIONAR"
      BY <1>0, <1>2, <2>0 DEF ProcOK, ComLock
    <3>3. Correntes(linhas)' \subseteq tocadas[q]
      BY <3>1, <3>2, CommitSemFechar DEF Correntes
    <3>4. linhas'[op[q].alvo] = linhas[op[q].alvo]
      BY <2>3, <3>1
    <3>5. Promovida(q, op[q].alvo)'
      BY <1>1, <1>2, <3>1, <3>4 DEF Promovida
    <3> QED BY <3>1, <3>3, <3>5
  <2> QED BY <2>1, <2>2, <2>5, <2>6 DEF ProcOK
<1>3. Disjuntas'
  BY <1>1 DEF IInv, Disjuntas
<1>4. CorrenteUnica'
  <2>1. CASE op[p].tipo = "FECHAR"
    BY <2>1, CommitFechar DEF CorrenteUnica, Correntes
  <2>2. CASE op[p].tipo # "FECHAR"
    BY <2>2, CommitSemFechar DEF IInv, CorrenteUnica, Correntes
  <2> QED BY <2>1, <2>2
<1> QED BY <1>1, <1>2, <1>3, <1>4 DEF IInv

-----------------------------------------------------------------------------
(* The invariant of the specification.                                     *)

LEMMA InitIInv == Init => IInv
<1> SUFFICES ASSUME Init PROVE IInv
  OBVIOUS
<1>1. TypeOK
  BY InitTypeOK
<1>2. ASSUME NEW p \in Procs PROVE ProcOK(p)
  BY DEF Init, ProcOK, Controle, ComLock, Leitura, Escrita, Fechamento,
         TiposEm, Ociosa, Pedido
<1>3. Disjuntas
  BY DEF Init, Disjuntas
<1>4. CorrenteUnica
  BY DEF Init, CorrenteUnica, TabelaVazia, Ausente
<1> QED BY <1>1, <1>2, <1>3, <1>4 DEF IInv

LEMMA NextIInv == IInv /\ [Next]_vars => IInv'
<1> SUFFICES ASSUME IInv, [Next]_vars PROVE IInv'
  OBVIOUS
<1>0. TypeOK'
  BY NextTypeOK
<1>1. CASE UNCHANGED vars
  <2>1. \A q \in Procs : ProcOK(q)'
    BY <1>1, Alheio DEF IInv, vars
  <2>2. Disjuntas' /\ CorrenteUnica'
    BY <1>1, CorrenteUnicaEstavel DEF IInv, vars, Disjuntas
  <2> QED BY <1>0, <2>1, <2>2 DEF IInv
<1>2. ASSUME NEW p \in Procs, Comecar(p) PROVE IInv'
  BY <1>0, <1>2, ComecarOK
<1>3. ASSUME NEW p \in Procs, Prosseguir(p) PROVE IInv'
  <2>1. CASE ObterLock(p)
    BY <1>0, <2>1, ObterLockOK
  <2>2. CASE Inserir(p)
    BY <1>0, <2>2, InserirOK DEF Inserir
  <2>3. CASE SinalizarSemEntrega(p) \/ SinalizarReutiliza(p)
    BY <1>0, <2>3, SinalizarSemEscritaOK
  <2>4. CASE SinalizarAbre(p)
    BY <1>0, <2>4, InserirOK DEF SinalizarAbre
  <2>5. CASE Atualizar(p)
    BY <1>0, <2>5, AtualizarOK
  <2>6. CASE Desmarcar(p)
    BY <1>0, <2>6, DesmarcarOK
  <2>7. CASE Promover(p)
    BY <1>0, <2>7, PromoverOK
  <2>8. CASE Confirmar(p)
    BY <1>0, <2>8, ConfirmarOK
  <2>9. CASE Falhar(p)
    BY <1>0, <2>9, ReverterOK DEF Falhar
  <2> QED BY <1>3, <2>1, <2>2, <2>3, <2>4, <2>5, <2>6, <2>7, <2>8, <2>9 DEF Prosseguir
<1>4. ASSUME NEW p \in Procs, Cair(p) PROVE IInv'
  BY <1>0, <1>4, ReverterOK DEF Cair
<1> QED BY <1>1, <1>2, <1>3, <1>4 DEF Next

(* The inductive invariant holds of every behaviour. *)
THEOREM Invariante == Spec => []IInv
<1> QED BY InitIInv, NextIInv, PTL DEF Spec

(* Type correctness of the closing, for every number of requests and every *)
(* bound on the versions. *)
THEOREM TipoCorreto == Spec => []TypeOK
<1>1. IInv => TypeOK
  BY DEF IInv
<1> QED BY Invariante, <1>1, PTL

(* A delivered scope has exactly one current version, which is delivered,  *)
(* whatever snapshots fechar and transicionar worked from. *)
THEOREM UmaCorrente == Spec => []CorrenteUnica
<1>1. IInv => CorrenteUnica
  BY DEF IInv
<1> QED BY Invariante, <1>1, PTL

(* What any commit does to a row that exists: one permitted edit. *)
LEMMA CommitEdita ==
  ASSUME IInv, NEW p \in Procs, Confirmar(p), NEW v \in Existentes(linhas)
  PROVE  /\ linhas'[v].entradas = linhas[v].entradas
         /\ linhas'[v].original = linhas[v].original
         /\ \/ linhas'[v].estado = linhas[v].estado
            \/ TransicaoPermitida(linhas[v].estado, linhas'[v].estado)
<1>0. TypeOK /\ ProcOK(p) /\ v \in Versoes /\ linhas[v].estado # "AUSENTE"
  BY DEF IInv, Existentes
<1>1. linhas'[v] = IF v \in tocadas[p] THEN area[p][v] ELSE linhas[v]
  BY <1>0 DEF Confirmar
<1>2. linhas[v] \in Linha
  BY <1>0 DEF TypeOK
<1>3. CASE v \notin tocadas[p]
  BY <1>1, <1>3
<1>4. CASE v \in tocadas[p]
  <2>1. Avancada(p, v) \/ Desmarcada(p, v) \/ Promovida(p, v)
    BY <1>0, <1>4 DEF ProcOK, Escrita, Nova
  <2>2. CASE Avancada(p, v)
    BY <1>1, <1>2, <1>4, <2>2 DEF Avancada, Linha
  <2>3. CASE Desmarcada(p, v)
    BY <1>1, <1>2, <1>4, <2>3 DEF Desmarcada, Linha
  <2>4. CASE Promovida(p, v)
    BY <1>1, <1>2, <1>4, <2>4 DEF Promovida, Linha, TransicaoPermitida
  <2> QED BY <2>1, <2>2, <2>3, <2>4
<1> QED BY <1>3, <1>4

Edicao ==
  \A v \in Existentes(linhas) :
    /\ linhas'[v].entradas = linhas[v].entradas
    /\ linhas'[v].original = linhas[v].original
    /\ linhas'[v].estado = linhas[v].estado
         \/ <<linhas[v].estado, linhas'[v].estado>> \in
              {<<"RASCUNHO", "PENDENTE">>, <<"PENDENTE", "REVISADO">>,
               <<"REVISADO", "FECHADO">>}

(* A step other than a commit does not change the table. *)
LEMMA PassoEdita == IInv /\ [Next]_vars => [Edicao]_vars
<1> SUFFICES ASSUME IInv, Next PROVE Edicao
  OBVIOUS
<1>1. CASE linhas' = linhas
  BY <1>1 DEF Edicao
<1>2. ASSUME NEW p \in Procs, Confirmar(p) PROVE Edicao
  BY <1>2, CommitEdita DEF Edicao, TransicaoPermitida
<1>3. ASSUME NEW p \in Procs, Comecar(p) PROVE linhas' = linhas
  BY <1>3 DEF Comecar, IniciarAbrir, IniciarTransicionar, IniciarFechar,
              IniciarRetificar, IniciarEscrita, Iniciar
<1>4. ASSUME NEW p \in Procs, Prosseguir(p), ~Confirmar(p) PROVE linhas' = linhas
  BY <1>4 DEF Prosseguir, ObterLock, Inserir, SinalizarSemEntrega, SinalizarReutiliza,
              SinalizarAbre, Atualizar, Desmarcar, Promover, Falhar, Avancar
<1> QED BY <1>1, <1>2, <1>3, <1>4 DEF Next, Cair

(* A committed version keeps its inputs and origin, and its state moves    *)
(* only forward, one permitted step at a time: delivered versions are      *)
(* immutable. No lost update of a stale transaction undoes one. *)
THEOREM Imutabilidade == Spec => EntregaImutavel
<1>1. Spec => [][Edicao]_vars
  BY Invariante, PassoEdita, PTL DEF Spec
<1> QED BY <1>1 DEF EntregaImutavel, Edicao

-----------------------------------------------------------------------------
(* The history of the scope: what the committed versions are, in order,    *)
(* and where the versions still to be committed come from. The snapshot of *)
(* a transaction may be old, but what it shows of a version's inputs and   *)
(* of its delivery is still true.                                          *)

(* The versions that exist are the first ones, without a gap. *)
Sequencia(t) == \E n \in 0 .. MaxVersao : Existentes(t) = 1 .. n

Retrato(p) ==
  /\ Sequencia(snap[p])
  /\ \A v \in Existentes(snap[p]) :
       /\ v \in Existentes(linhas)
       /\ linhas[v].entradas = snap[p][v].entradas
       /\ snap[p][v].estado = "FECHADO" => linhas[v].estado = "FECHADO"

(* What a transaction was asked for. *)
Intencao(p) ==
  /\ op[p].tipo \in {"ABRIR", "RETIFICAR"} => op[p].entradas \in Entradas
  /\ op[p].tipo = "ABRIR" => op[p].alvo = 0
  /\ op[p].tipo = "RETIFICAR" =>
       op[p].alvo \in Versoes /\ snap[p][op[p].alvo].estado = "FECHADO"
  /\ op[p].tipo = "TRANSICIONAR" => tocadas[p] \subseteq {op[p].alvo}

Rascunho(e, o) ==
  [estado |-> "RASCUNHO", corrente |-> FALSE, entradas |-> e, original |-> o]

(* Why a version about to be committed exists. *)
Origem(p, v) ==
  \/ op[p].tipo = "ABRIR" /\ area[p][v] = Rascunho(op[p].entradas, 0)
  \/ op[p].tipo = "RETIFICAR" /\ area[p][v] = Rascunho(op[p].entradas, op[p].alvo)
  \/ /\ op[p].tipo = "ESCREVER"
     /\ \E c \in Versoes :
          /\ linhas[c].estado = "FECHADO"
          /\ area[p][v] = Rascunho(linhas[c].entradas, 0)

(* It is the next of the history, and all its transaction writes. *)
Seguinte(p) ==
  \A v \in tocadas[p] :
    linhas[v].estado = "AUSENTE" =>
      /\ tocadas[p] = {v}
      /\ Existentes(linhas) = 1 .. (v - 1)
      /\ Origem(p, v)

(* A writer that reads what is committed, past its sinalizar: the current  *)
(* delivery has a revision open, or gets the one the writer commits; it    *)
(* opened one only of a delivery without. *)
Sinalizada(p) ==
  op[p].tipo = "ESCREVER" /\ op[p].isol = "RC" /\ pc[p] = "confirmar" =>
    /\ tocadas[p] = {} => RevisaoEmAberto
    /\ tocadas[p] # {} =>
         \E c \in CorrenteFechada(linhas) :
           /\ RevisaoAberta(linhas, c) = {}
           /\ \A v \in tocadas[p] :
                v > c /\ area[p][v].entradas = linhas[c].entradas

HistoriaDe(p) ==
  Retrato(p) /\ Intencao(p) /\ Seguinte(p) /\ Sinalizada(p)

HInv ==
  /\ Sequencia(linhas)
  /\ \A v \in Existentes(linhas) : linhas[v].entradas \in Entradas
  /\ \A v \in Versoes : linhas[v].estado = "AUSENTE" => linhas[v].original = 0
  /\ RetificacaoApontaEntrega
  /\ \A p \in Procs : HistoriaDe(p)

(* The number of the next version. *)
LEMMA Proxima ==
  ASSUME NEW t, NEW n \in Nat, Existentes(t) = 1 .. n
  PROVE  ProximaVersao(t) = n + 1
<1>1. CASE n = 0
  <2>1. Existentes(t) = {}
    BY <1>1
  <2> QED BY <1>1, <2>1 DEF ProximaVersao
<1>2. CASE n # 0
  <2> DEFINE Maior(v) == \A w \in 1 .. n : w <= v
  <2>1. n \in 1 .. n /\ Maior(n)
    BY <1>2
  <2>2. \A v \in 1 .. n : Maior(v) => v = n
    BY <2>1
  <2>3. (CHOOSE v \in 1 .. n : Maior(v)) = n
    <3> HIDE DEF Maior
    <3> QED BY <2>1, <2>2
  <2>4. Existentes(t) # {}
    BY <2>1
  <2> QED BY <2>3, <2>4 DEF ProximaVersao
<1> QED BY <1>1, <1>2

(* A snapshot shows no more versions than there are. *)
LEMMA RetratoMenor ==
  ASSUME NEW m \in Nat, NEW n \in Nat, 1 .. m \subseteq 1 .. n
  PROVE  m <= n
<1>1. CASE m = 0
  BY <1>1
<1>2. CASE m # 0
  <2>1. m \in 1 .. m
    BY <1>2
  <2> QED BY <2>1
<1> QED BY <1>1, <1>2

(* A step that changes neither the table nor q's part leaves q's part good. *)
LEMMA HistoriaAlheia ==
  ASSUME NEW q \in Procs, HistoriaDe(q), linhas' = linhas,
         pc'[q] = pc[q], op'[q] = op[q], snap'[q] = snap[q],
         area'[q] = area[q], tocadas'[q] = tocadas[q]
  PROVE  HistoriaDe(q)'
<1>1. Retrato(q)'
  BY DEF HistoriaDe, Retrato, Sequencia, Existentes
<1>2. Intencao(q)'
  BY DEF HistoriaDe, Intencao
<1>3. Seguinte(q)'
  BY DEF HistoriaDe, Seguinte, Origem, Existentes
<1>4. Sinalizada(q)'
  BY DEF HistoriaDe, Sinalizada, RevisaoEmAberto, CorrenteFechada, Correntes, RevisaoAberta
<1> QED BY <1>1, <1>2, <1>3, <1>4 DEF HistoriaDe

(* A step of p that leaves the table alone. *)
LEMMA HistoriaLocal ==
  ASSUME HInv, NEW p \in Procs, linhas' = linhas,
         \A q \in Procs \ {p} :
           /\ pc'[q] = pc[q] /\ op'[q] = op[q] /\ snap'[q] = snap[q]
           /\ area'[q] = area[q] /\ tocadas'[q] = tocadas[q],
         HistoriaDe(p)'
  PROVE  HInv'
<1>1. \A q \in Procs : HistoriaDe(q)'
  <2> SUFFICES ASSUME NEW q \in Procs, q # p PROVE HistoriaDe(q)'
    OBVIOUS
  <2>1. HistoriaDe(q)
    BY DEF HInv
  <2> QED BY <2>1, HistoriaAlheia
<1>2. Sequencia(linhas)' /\ RetificacaoApontaEntrega'
  BY DEF HInv, Sequencia, RetificacaoApontaEntrega, Existentes
<1>3. /\ \A v \in Existentes(linhas)' : linhas'[v].entradas \in Entradas
      /\ \A v \in Versoes : linhas'[v].estado = "AUSENTE" => linhas'[v].original = 0
  BY DEF HInv, Existentes
<1> QED BY <1>1, <1>2, <1>3 DEF HInv

(* What remains of a transaction that ended. *)
LEMMA HistoriaVazia ==
  ASSUME TypeOK, NEW p \in Procs, Liberar(p)
  PROVE  HistoriaDe(p)'
<1>1. /\ pc'[p] = "ocioso" /\ op'[p] = Ociosa /\ tocadas'[p] = {}
      /\ snap'[p] = TabelaVazia
  BY DEF TypeOK, Liberar, Terminar
<1>2. Existentes(TabelaVazia) = {}
  BY DEF Existentes, TabelaVazia, Ausente
<1>3. Sequencia(TabelaVazia)
  <2>1. 0 \in 0 .. MaxVersao /\ 1 .. 0 = {}
    BY FechamentoAssumption DEF FechamentoAssumption
  <2> QED BY <1>2, <2>1 DEF Sequencia
<1>4. Retrato(p)'
  <2>1. Sequencia(snap[p])'
    BY <1>1, <1>3 DEF Sequencia, Existentes
  <2>2. Existentes(snap[p])' = {}
    BY <1>1, <1>2 DEF Existentes
  <2> QED BY <2>1, <2>2 DEF Retrato
<1>5. Intencao(p)' /\ Seguinte(p)' /\ Sinalizada(p)'
  BY <1>1 DEF Intencao, Seguinte, Sinalizada, Ociosa, Pedido
<1> QED BY <1>4, <1>5 DEF HistoriaDe

(* A transaction starts, with the table as it is. *)
LEMMA HistoriaComecar ==
  ASSUME IInv, HInv, NEW p \in Procs, Comecar(p)
  PROVE  HInv'
<1>1. PICK o \in Operacao, ponto \in {"lock", "atualizar"} :
        /\ Iniciar(p, o, ponto)
        /\ o.tipo \in {"ABRIR", "RETIFICAR"} => o.entradas \in Entradas
        /\ o.tipo = "ABRIR" => o.alvo = 0
        /\ o.tipo # "ESCREVER" => o.isol = "RR"
        /\ o.tipo = "RETIFICAR" =>
             /\ o.alvo \in Versoes
             /\ linhas[o.alvo].estado = "FECHADO"
  <2>1. CASE IniciarAbrir(p)
    BY <2>1 DEF IniciarAbrir, Pedido, Operacao, Tipos
  <2>2. CASE IniciarTransicionar(p)
    BY <2>2 DEF IniciarTransicionar, Pedido, Operacao, Tipos, Existentes
  <2>3. CASE IniciarFechar(p)
    BY <2>3 DEF IniciarFechar, Pedido, Operacao, Tipos, Existentes
  <2>4. CASE IniciarRetificar(p)
    BY <2>4 DEF IniciarRetificar, Pedido, Operacao, Tipos, Existentes
  <2>5. CASE IniciarEscrita(p)
    BY <2>5, FechamentoAssumption
       DEF IniciarEscrita, Pedido, Operacao, Tipos, FechamentoAssumption
  <2> QED BY <2>1, <2>2, <2>3, <2>4, <2>5 DEF Comecar
<1>2. /\ pc[p] = "ocioso"
      /\ pc'[p] = ponto /\ op'[p] = o
      /\ snap'[p] = IF o.isol = "RR" THEN linhas ELSE TabelaVazia
      /\ linhas' = linhas /\ area' = area /\ tocadas' = tocadas
      /\ \A q \in Procs \ {p} : pc'[q] = pc[q] /\ op'[q] = op[q] /\ snap'[q] = snap[q]
  BY <1>1 DEF IInv, TypeOK, Iniciar
<1>3. tocadas[p] = {}
  BY <1>2 DEF IInv, ProcOK, Controle
<1>4. Retrato(p)'
  <2>1. CASE o.isol = "RR"
    <3>1. snap'[p] = linhas'
      BY <1>2, <2>1
    <3>2. Sequencia(snap[p])'
      BY <1>2, <3>1 DEF HInv, Sequencia, Existentes
    <3> QED BY <3>1, <3>2 DEF Retrato
  <2>2. CASE o.isol # "RR"
    <3>1. Existentes(TabelaVazia) = {} /\ 0 \in 0 .. MaxVersao /\ 1 .. 0 = {}
      BY FechamentoAssumption
         DEF Existentes, TabelaVazia, Ausente, FechamentoAssumption
    <3>2. Existentes(snap[p])' = {}
      BY <1>2, <2>2, <3>1 DEF Existentes
    <3>3. Sequencia(snap[p])'
      BY <3>1, <3>2 DEF Sequencia
    <3> QED BY <3>2, <3>3 DEF Retrato
  <2> QED BY <2>1, <2>2
<1>5. Intencao(p)' /\ Seguinte(p)' /\ Sinalizada(p)'
  BY <1>1, <1>2, <1>3 DEF Intencao, Seguinte, Sinalizada
<1>6. HistoriaDe(p)'
  BY <1>4, <1>5 DEF HistoriaDe
<1> QED BY <1>2, <1>6, HistoriaLocal

(* A step of p that writes nothing and does not sign a revision. *)
LEMMA HistoriaSemEscrita ==
  ASSUME HInv, NEW p \in Procs, linhas' = linhas, op' = op, snap' = snap, area' = area,
         tocadas' = tocadas, \A q \in Procs \ {p} : pc'[q] = pc[q],
         Sinalizada(p)'
  PROVE  HInv'
<1>1. HistoriaDe(p)
  BY DEF HInv
<1>2. Retrato(p)' /\ Intencao(p)' /\ Seguinte(p)'
  BY <1>1 DEF HistoriaDe, Retrato, Intencao, Seguinte, Origem, Sequencia, Existentes
<1>3. HistoriaDe(p)'
  BY <1>2 DEF HistoriaDe
<1> QED BY <1>3, HistoriaLocal

(* sinalizarRevisaoPosFechamento finds nothing to do: there is no delivery *)
(* or its revision is open. *)
LEMMA HistoriaSinalizarSemEscrita ==
  ASSUME IInv, HInv, NEW p \in Procs,
         SinalizarSemEntrega(p) \/ SinalizarReutiliza(p)
  PROVE  HInv'
<1>1. /\ linhas' = linhas /\ op' = op /\ snap' = snap
      /\ area' = area /\ tocadas' = tocadas
      /\ \A q \in Procs \ {p} : pc'[q] = pc[q]
  BY AvancarOK DEF IInv, SinalizarSemEntrega, SinalizarReutiliza
<1>2. tocadas[p] = {}
  BY DEF IInv, ProcOK, Controle, SinalizarSemEntrega, SinalizarReutiliza
<1>3. ASSUME op[p].isol = "RC" PROVE RevisaoEmAberto
  <2>1. Visao(p) = linhas
    BY <1>3 DEF Visao
  <2>2. CASE SinalizarSemEntrega(p)
    BY <2>1, <2>2 DEF SinalizarSemEntrega, RevisaoEmAberto
  <2>3. CASE SinalizarReutiliza(p)
    <3>1. PICK c \in CorrenteFechada(linhas) : RevisaoAberta(linhas, c) # {}
      BY <2>1, <2>3 DEF SinalizarReutiliza
    <3>2. \A d \in CorrenteFechada(linhas) : d = c
      BY <3>1 DEF IInv, CorrenteUnica, CorrenteFechada, Correntes
    <3> QED BY <3>1, <3>2 DEF RevisaoEmAberto
  <2> QED BY <2>2, <2>3
<1>4. Sinalizada(p)'
  <2>1. RevisaoEmAberto => RevisaoEmAberto'
    BY <1>1 DEF RevisaoEmAberto, CorrenteFechada, Correntes, RevisaoAberta
  <2> QED BY <1>1, <1>2, <1>3, <2>1 DEF Sinalizada
<1> QED BY <1>1, <1>4, HistoriaSemEscrita

(* Where the number of a new version comes from: what p sees may be old,   *)
(* but the number it computes is free only if p sees every version. *)
LEMMA NumeroLivre ==
  ASSUME IInv, HInv, NEW p \in Procs, ~VersaoColide(p)
  PROVE  LET n == ProximaVersao(Visao(p))
         IN  /\ n \in Versoes
             /\ linhas[n].estado = "AUSENTE"
             /\ Existentes(linhas) = 1 .. (n - 1)
             /\ Existentes(Visao(p)) = 1 .. (n - 1)
<1>1. PICK n \in Versoes : n = ProximaVersao(Visao(p)) /\ linhas[n].estado = "AUSENTE"
  BY DEF VersaoColide
<1>2. PICK k \in 0 .. MaxVersao : Existentes(linhas) = 1 .. k
  BY DEF HInv, Sequencia
<1>3. PICK m \in 0 .. MaxVersao : Existentes(Visao(p)) = 1 .. m /\ 1 .. m \subseteq 1 .. k
  <2>1. CASE op[p].isol = "RR"
    <3>1. Visao(p) = snap[p] /\ Retrato(p)
      BY <2>1 DEF Visao, HInv, HistoriaDe
    <3> QED BY <1>2, <3>1 DEF Retrato, Sequencia
  <2>2. CASE op[p].isol # "RR"
    BY <1>2, <2>2 DEF Visao
  <2> QED BY <2>1, <2>2
<1>4. MaxVersao \in Nat
  BY FechamentoAssumption DEF FechamentoAssumption
<1>5. m <= k /\ n = m + 1
  BY <1>1, <1>3, <1>4, Proxima, RetratoMenor
<1>6. n \notin 1 .. k
  BY <1>1, <1>2 DEF Existentes
<1>7. m = k
  BY <1>4, <1>5, <1>6
<1> QED BY <1>1, <1>2, <1>3, <1>4, <1>5, <1>7

(* A new version: its place in the history and its origin. *)
LEMMA HistoriaInserir ==
  ASSUME IInv, HInv, NEW p \in Procs, NEW e, NEW o,
         pc[p] \in {"inserir", "sinalizar"},
         InserirNovaVersao(p, e, o), Avancar(p, "confirmar"),
         \/ op[p].tipo \in {"ABRIR", "RETIFICAR"} /\ e = op[p].entradas /\ o = op[p].alvo
         \/ /\ op[p].tipo = "ESCREVER" /\ o = 0
            /\ \E c \in CorrenteFechada(Visao(p)) :
                 RevisaoAberta(Visao(p), c) = {} /\ e = Visao(p)[c].entradas
  PROVE  HInv'
<1>0. TypeOK /\ ProcOK(p) /\ HistoriaDe(p)
  BY DEF IInv, HInv
<1>1. PICK n \in Versoes :
        /\ n = ProximaVersao(Visao(p)) /\ linhas[n].estado = "AUSENTE"
        /\ Existentes(linhas) = 1 .. (n - 1) /\ Existentes(Visao(p)) = 1 .. (n - 1)
  BY NumeroLivre DEF InserirNovaVersao
<1>2. /\ linhas' = linhas /\ op' = op /\ snap' = snap
      /\ pc'[p] = "confirmar"
      /\ \A q \in Procs \ {p} : pc'[q] = pc[q]
  BY <1>0, AvancarOK
<1>3. tocadas[p] = {}
  BY <1>0 DEF ProcOK, Controle
<1>4. /\ area'[p][n] = Rascunho(e, o)
      /\ tocadas'[p] = {n}
      /\ \A q \in Procs \ {p} : area'[q] = area[q] /\ tocadas'[q] = tocadas[q]
  BY <1>0, <1>1, <1>3, GravarOK DEF InserirNovaVersao, Rascunho
<1>5. op[p].tipo # "TRANSICIONAR"
  OBVIOUS
<1>6. Retrato(p)' /\ Intencao(p)'
  BY <1>0, <1>2, <1>5 DEF HistoriaDe, Retrato, Sequencia, Existentes, Intencao
<1>7. ASSUME op[p].tipo = "ESCREVER"
      PROVE  \E c \in CorrenteFechada(Visao(p)) :
               /\ RevisaoAberta(Visao(p), c) = {} /\ e = Visao(p)[c].entradas
               /\ c \in Versoes /\ c < n
               /\ linhas[c].estado = "FECHADO" /\ e = linhas[c].entradas
  <2>1. PICK c \in CorrenteFechada(Visao(p)) :
          RevisaoAberta(Visao(p), c) = {} /\ e = Visao(p)[c].entradas
    BY <1>7
  <2>2. c \in Versoes /\ c \in Existentes(Visao(p)) /\ Visao(p)[c].estado = "FECHADO"
    BY <2>1 DEF CorrenteFechada, Correntes, Existentes
  <2>3. c < n
    BY <1>1, <2>2 DEF Versoes
  <2>4. linhas[c].estado = "FECHADO" /\ Visao(p)[c].entradas = linhas[c].entradas
    BY <1>0, <2>2 DEF Visao, HistoriaDe, Retrato
  <2> QED BY <2>1, <2>2, <2>3, <2>4
<1>8. Origem(p, n)'
  <2>1. CASE op[p].tipo = "ABRIR"
    BY <1>0, <1>2, <1>4, <2>1 DEF Origem, HistoriaDe, Intencao
  <2>2. CASE op[p].tipo = "RETIFICAR"
    BY <1>2, <1>4, <2>2 DEF Origem
  <2>3. CASE op[p].tipo = "ESCREVER"
    BY <1>2, <1>4, <1>7, <2>3 DEF Origem
  <2> QED BY <2>1, <2>2, <2>3
<1>9. Seguinte(p)'
  <2>1. Existentes(linhas)' = 1 .. (n - 1)
    BY <1>1, <1>2 DEF Existentes
  <2> QED BY <1>4, <1>8, <2>1 DEF Seguinte
<1>10. Sinalizada(p)'
  <2> SUFFICES ASSUME op[p].tipo = "ESCREVER", op[p].isol = "RC"
               PROVE  (\E c \in CorrenteFechada(linhas) :
                         /\ RevisaoAberta(linhas, c) = {}
                         /\ \A v \in tocadas[p] :
                              v > c /\ area[p][v].entradas = linhas[c].entradas)'
    BY <1>2, <1>4 DEF Sinalizada
  <2>1. Visao(p) = linhas
    BY DEF Visao
  <2>2. PICK c \in CorrenteFechada(linhas) :
          /\ RevisaoAberta(linhas, c) = {} /\ c \in Versoes /\ c < n
          /\ e = linhas[c].entradas
    BY <1>7, <2>1
  <2>3. c \in CorrenteFechada(linhas)' /\ (RevisaoAberta(linhas, c) = {})'
    BY <1>2, <2>2 DEF CorrenteFechada, Correntes, RevisaoAberta
  <2>4. area'[p][n].entradas = e
    BY <1>4 DEF Rascunho
  <2>5. n > c
    BY <2>2 DEF Versoes
  <2> QED BY <1>2, <1>4, <2>2, <2>3, <2>4, <2>5
<1>11. HistoriaDe(p)'
  BY <1>6, <1>9, <1>10 DEF HistoriaDe
<1> QED BY <1>2, <1>4, <1>11, HistoriaLocal

(* The statements that write rows that exist. *)
LEMMA HistoriaAtualizar ==
  ASSUME IInv, HInv, NEW p \in Procs, Atualizar(p)
  PROVE  HInv'
<1>0. TypeOK /\ ProcOK(p) /\ HistoriaDe(p)
  BY DEF IInv, HInv
<1>1. op[p].tipo = "TRANSICIONAR" /\ tocadas[p] = {} /\ op[p].isol = "RR"
  BY <1>0 DEF Atualizar, ProcOK, Controle, TiposEm
<1>2. PICK v \in Versoes :
        /\ v = op[p].alvo
        /\ TransicaoPermitida(snap[p][v].estado, op[p].destino)
  BY <1>0, <1>1 DEF ProcOK, Leitura
<1>3. /\ linhas' = linhas /\ op' = op /\ snap' = snap
      /\ \A q \in Procs \ {p} : pc'[q] = pc[q]
  BY <1>0, AvancarOK DEF Atualizar
<1>4. /\ tocadas'[p] = {v}
      /\ \A q \in Procs \ {p} : area'[q] = area[q] /\ tocadas'[q] = tocadas[q]
  BY <1>0, <1>1, <1>2, GravarOK DEF Atualizar
<1>5. linhas[v].estado # "AUSENTE"
  BY <1>1, <1>2 DEF Atualizar, Conflito, Visao, TransicaoPermitida
<1>6. HistoriaDe(p)'
  <2>1. Retrato(p)' /\ Intencao(p)'
    BY <1>0, <1>1, <1>2, <1>3, <1>4
       DEF HistoriaDe, Retrato, Sequencia, Existentes, Intencao
  <2>2. Seguinte(p)' /\ Sinalizada(p)'
    BY <1>1, <1>3, <1>4, <1>5 DEF Seguinte, Sinalizada
  <2> QED BY <2>1, <2>2 DEF HistoriaDe
<1> QED BY <1>3, <1>4, <1>6, HistoriaLocal

LEMMA HistoriaFechar ==
  ASSUME IInv, HInv, NEW p \in Procs, Desmarcar(p) \/ Promover(p)
  PROVE  HInv'
<1>0. TypeOK /\ ProcOK(p) /\ HistoriaDe(p)
  BY DEF IInv, HInv
<1>1. op[p].tipo = "FECHAR" /\ op[p].isol = "RR"
  BY <1>0 DEF Desmarcar, Promover, ProcOK, Controle, TiposEm
<1>2. /\ linhas' = linhas /\ op' = op /\ snap' = snap
      /\ \A q \in Procs \ {p} : pc'[q] = pc[q]
  BY <1>0, AvancarOK DEF Desmarcar, Promover
<1>3. /\ \A v \in tocadas'[p] : linhas[v].estado # "AUSENTE"
      /\ \A q \in Procs \ {p} : area'[q] = area[q] /\ tocadas'[q] = tocadas[q]
  <2>1. CASE Desmarcar(p)
    <3>1. /\ tocadas'[p] = Correntes(snap[p])
          /\ \A q \in Procs \ {p} : area'[q] = area[q] /\ tocadas'[q] = tocadas[q]
      BY <1>0, <2>1 DEF Desmarcar, TypeOK, Correntes
    <3>2. \A v \in Correntes(snap[p]) : v \in Versoes /\ linhas[v].corrente
      BY <1>1, <2>1 DEF Desmarcar, Conflito, Visao, Correntes
    <3> QED BY <3>1, <3>2 DEF IInv, CorrenteUnica
  <2>2. CASE Promover(p)
    <3>1. PICK v \in Versoes : v = op[p].alvo /\ snap[p][v].estado = "REVISADO"
      BY <1>0, <1>1 DEF ProcOK, Leitura
    <3>2. /\ tocadas'[p] = tocadas[p] \cup {v}
          /\ \A q \in Procs \ {p} : area'[q] = area[q] /\ tocadas'[q] = tocadas[q]
      BY <1>0, <2>2, <3>1, GravarOK DEF Promover
    <3>3. linhas[v].estado = "REVISADO"
      BY <1>1, <2>2, <3>1 DEF Promover, Conflito, Visao
    <3>4. ASSUME NEW w \in tocadas[p] PROVE linhas[w].estado # "AUSENTE"
      <4>1. w \in Versoes
        BY <1>0 DEF TypeOK
      <4>2. Desmarcada(p, w)
        BY <1>0, <1>1, <2>2 DEF Promover, ProcOK, Escrita, Nova, Avancada, Promovida
      <4> QED BY <4>1, <4>2 DEF Desmarcada, IInv, CorrenteUnica
    <3> QED BY <3>2, <3>3, <3>4
  <2> QED BY <2>1, <2>2
<1>4. HistoriaDe(p)'
  <2>1. Retrato(p)' /\ Intencao(p)'
    BY <1>0, <1>1, <1>2 DEF HistoriaDe, Retrato, Sequencia, Existentes, Intencao
  <2>2. Seguinte(p)' /\ Sinalizada(p)'
    BY <1>1, <1>2, <1>3 DEF Seguinte, Sinalizada
  <2> QED BY <2>1, <2>2 DEF HistoriaDe
<1> QED BY <1>2, <1>3, <1>4, HistoriaLocal

LEMMA HistoriaObterLock ==
  ASSUME IInv, HInv, NEW p \in Procs, ObterLock(p)
  PROVE  HInv'
<1>1. /\ linhas' = linhas /\ op' = op /\ snap' = snap /\ area' = area
      /\ tocadas' = tocadas
      /\ pc[p] = "lock" /\ pc'[p] = DepoisDoLock[op[p].tipo]
      /\ \A q \in Procs \ {p} : pc'[q] = pc[q]
  BY DEF IInv, TypeOK, ObterLock
<1>2. pc'[p] # "confirmar"
  BY <1>1 DEF IInv, ProcOK, Controle, TiposEm, DepoisDoLock
<1>3. Sinalizada(p)'
  BY <1>2 DEF Sinalizada
<1> QED BY <1>1, <1>3, HistoriaSemEscrita

LEMMA HistoriaReverter ==
  ASSUME IInv, HInv, NEW p \in Procs, linhas' = linhas, Liberar(p)
  PROVE  HInv'
<1>1. TypeOK
  BY DEF IInv
<1>2. HistoriaDe(p)'
  BY <1>1, HistoriaVazia
<1> QED BY <1>1, <1>2, AposTerminar, HistoriaLocal

-----------------------------------------------------------------------------
(* A commit, as the history sees it.                                       *)

LEMMA CamposDoRascunho ==
  \A e, o : /\ Rascunho(e, o).estado = "RASCUNHO" /\ ~Rascunho(e, o).corrente
            /\ Rascunho(e, o).entradas = e /\ Rascunho(e, o).original = o
BY DEF Rascunho

(* The new row a transaction commits, if it commits one. *)
LEMMA CommitNovo ==
  ASSUME IInv, HInv, NEW p \in Procs, Confirmar(p), NEW v \in Versoes,
         linhas[v].estado = "AUSENTE", linhas'[v] # linhas[v]
  PROVE  /\ v \in tocadas[p] /\ tocadas[p] = {v}
         /\ Existentes(linhas) = 1 .. (v - 1)
         /\ op[p].tipo \in {"ABRIR", "RETIFICAR", "ESCREVER"}
         /\ \/ /\ op[p].tipo = "ABRIR"
               /\ linhas'[v] = Rascunho(op[p].entradas, 0)
               /\ op[p].entradas \in Entradas
            \/ /\ op[p].tipo = "RETIFICAR" /\ op[p].alvo \in Versoes
               /\ linhas[op[p].alvo].estado = "FECHADO"
               /\ linhas'[v] = Rascunho(op[p].entradas, op[p].alvo)
               /\ op[p].entradas \in Entradas
            \/ /\ op[p].tipo = "ESCREVER"
               /\ \E c \in Versoes :
                    /\ linhas[c].estado = "FECHADO"
                    /\ linhas'[v] = Rascunho(linhas[c].entradas, 0)
<1>0. TypeOK /\ ProcOK(p) /\ HistoriaDe(p)
  BY DEF IInv, HInv
<1>1. v \in tocadas[p] /\ linhas'[v] = area[p][v]
  BY DEF Confirmar
<1>2. tocadas[p] = {v} /\ Existentes(linhas) = 1 .. (v - 1) /\ Origem(p, v)
  BY <1>0, <1>1 DEF HistoriaDe, Seguinte
<1>3. CASE op[p].tipo = "RETIFICAR"
  <2>1. op[p].alvo \in Versoes /\ snap[p][op[p].alvo].estado = "FECHADO"
    BY <1>0, <1>3 DEF HistoriaDe, Intencao
  <2>2. op[p].alvo \in Existentes(snap[p])
    BY <2>1 DEF Existentes
  <2>3. linhas[op[p].alvo].estado = "FECHADO"
    BY <1>0, <2>1, <2>2 DEF HistoriaDe, Retrato
  <2> QED BY <1>0, <1>1, <1>2, <1>3, <2>1, <2>3 DEF Origem, HistoriaDe, Intencao
<1>4. CASE op[p].tipo # "RETIFICAR"
  BY <1>0, <1>1, <1>2, <1>4 DEF Origem, HistoriaDe, Intencao
<1> QED BY <1>1, <1>2, <1>3, <1>4

(* No commit takes a version, its inputs or its delivery back. *)
LEMMA CommitConserva ==
  ASSUME IInv, NEW p \in Procs, Confirmar(p), NEW v \in Existentes(linhas)
  PROVE  /\ v \in Existentes(linhas)'
         /\ linhas'[v].entradas = linhas[v].entradas
         /\ linhas'[v].original = linhas[v].original
         /\ linhas[v].estado = "FECHADO" => linhas'[v].estado = "FECHADO"
<1>1. /\ linhas'[v].entradas = linhas[v].entradas
      /\ linhas'[v].original = linhas[v].original
      /\ \/ linhas'[v].estado = linhas[v].estado
         \/ TransicaoPermitida(linhas[v].estado, linhas'[v].estado)
  BY CommitEdita
<1>2. v \in Versoes /\ linhas[v].estado # "AUSENTE"
  BY DEF Existentes
<1> QED BY <1>1, <1>2 DEF Existentes, TransicaoPermitida

(* The history stays without a gap. *)
LEMMA CommitSequencia ==
  ASSUME IInv, HInv, NEW p \in Procs, Confirmar(p)
  PROVE  /\ Sequencia(linhas)'
         /\ \/ Existentes(linhas)' = Existentes(linhas)
            \/ \E v \in Versoes :
                 /\ linhas[v].estado = "AUSENTE" /\ linhas'[v] # linhas[v]
                 /\ Existentes(linhas) = 1 .. (v - 1)
                 /\ Existentes(linhas)' = 1 .. v
<1>1. Existentes(linhas) \subseteq Existentes(linhas)'
  BY CommitConserva
<1>2. CASE \E v \in Versoes : linhas[v].estado = "AUSENTE" /\ linhas'[v].estado # "AUSENTE"
  <2>1. PICK v \in Versoes : linhas[v].estado = "AUSENTE" /\ linhas'[v].estado # "AUSENTE"
    BY <1>2
  <2>2. tocadas[p] = {v} /\ Existentes(linhas) = 1 .. (v - 1)
    BY <2>1, CommitNovo
  <2>3. \A w \in Versoes \ {v} : linhas'[w] = linhas[w]
    BY <2>2 DEF Confirmar
  <2>4. Existentes(linhas)' = Existentes(linhas) \cup {v}
    BY <2>1, <2>3 DEF Existentes
  <2>5. Existentes(linhas)' = 1 .. v
    BY <2>2, <2>4, FechamentoAssumption DEF Versoes, FechamentoAssumption
  <2>6. v \in 0 .. MaxVersao
    BY FechamentoAssumption DEF Versoes, FechamentoAssumption
  <2> QED BY <2>1, <2>2, <2>5, <2>6 DEF Sequencia
<1>3. CASE ~ \E v \in Versoes :
                linhas[v].estado = "AUSENTE" /\ linhas'[v].estado # "AUSENTE"
  <2>1. Existentes(linhas)' = Existentes(linhas)
    BY <1>1, <1>3 DEF Existentes
  <2> QED BY <2>1 DEF HInv, Sequencia
<1> QED BY <1>2, <1>3

(* While a writer that holds the lock is about to commit, the others that  *)
(* commit are calls of transicionar, which open and deliver nothing.       *)
LEMMA CommitAlheio ==
  ASSUME IInv, NEW p \in Procs, Confirmar(p), NEW q \in Procs, q # p, lock = q
  PROVE  op[p].tipo = "TRANSICIONAR"
BY DEF IInv, ProcOK, ComLock, Confirmar

LEMMA HistoriaConfirmarOutro ==
  ASSUME IInv, HInv, NEW p \in Procs, Confirmar(p), NEW q \in Procs, q # p
  PROVE  HistoriaDe(q)'
<1>0. TypeOK /\ Liberar(p) /\ ProcOK(p) /\ ProcOK(q) /\ HistoriaDe(q)
  BY DEF IInv, HInv, Confirmar
<1>1. /\ pc'[q] = pc[q] /\ op'[q] = op[q] /\ snap'[q] = snap[q]
      /\ area'[q] = area[q] /\ tocadas'[q] = tocadas[q]
  BY <1>0, AposTerminar
<1>2. Retrato(q)'
  <2>1. Sequencia(snap[q])' /\ Existentes(snap[q])' = Existentes(snap[q])
    BY <1>0, <1>1 DEF HistoriaDe, Retrato, Sequencia, Existentes
  <2> QED BY <1>0, <1>1, <2>1, CommitConserva DEF HistoriaDe, Retrato, Existentes
<1>3. Intencao(q)'
  BY <1>0, <1>1 DEF HistoriaDe, Intencao
<1>4. ASSUME lock = q
      PROVE  \A c \in Versoes :
               /\ linhas'[c].corrente = linhas[c].corrente
               /\ linhas[c].estado = "FECHADO" <=> linhas'[c].estado = "FECHADO"
               /\ linhas[c].estado = "AUSENTE" <=> linhas'[c].estado = "AUSENTE"
               /\ linhas[c].estado \in Abertos <=> linhas'[c].estado \in Abertos
               /\ linhas[c].estado # "AUSENTE" => linhas'[c].entradas = linhas[c].entradas
  <2> SUFFICES ASSUME NEW c \in Versoes
               PROVE  /\ linhas'[c].corrente = linhas[c].corrente
                      /\ linhas[c].estado = "FECHADO" <=> linhas'[c].estado = "FECHADO"
                      /\ linhas[c].estado = "AUSENTE" <=> linhas'[c].estado = "AUSENTE"
                      /\ linhas[c].estado \in Abertos <=> linhas'[c].estado \in Abertos
                      /\ linhas[c].estado # "AUSENTE" =>
                           linhas'[c].entradas = linhas[c].entradas
    OBVIOUS
  <2>1. op[p].tipo = "TRANSICIONAR"
    BY <1>4, CommitAlheio
  <2>2. /\ linhas'[c].corrente = linhas[c].corrente
        /\ linhas'[c].estado = "FECHADO" <=> linhas[c].estado = "FECHADO"
    BY <2>1, CommitSemFechar
  <2>3. linhas[c].estado = "AUSENTE" => linhas'[c] = linhas[c]
    BY <2>1, CommitNovo
  <2>4. linhas[c].estado # "AUSENTE" =>
          c \in Existentes(linhas)' /\ linhas'[c].entradas = linhas[c].entradas
    BY CommitConserva DEF Existentes
  <2>5. linhas[c] \in Linha /\ linhas'[c] \in Linha
    BY <1>0, NextTypeOK DEF TypeOK, Next, Prosseguir
  <2> QED BY <2>2, <2>3, <2>4, <2>5 DEF Existentes, Linha, Abertos
<1>5. Seguinte(q)'
  <2> SUFFICES ASSUME NEW v \in tocadas[q], linhas'[v].estado = "AUSENTE"
               PROVE  /\ tocadas[q] = {v}
                      /\ Existentes(linhas)' = 1 .. (v - 1)
                      /\ Origem(q, v)'
    BY <1>1 DEF Seguinte
  <2>1. v \in Versoes
    BY <1>0 DEF TypeOK
  <2>2. linhas[v].estado = "AUSENTE"
    BY <2>1, CommitConserva DEF Existentes
  <2>3. lock = q
    <3>1. Nova(q, v)
      BY <1>0, <2>1, <2>2
         DEF ProcOK, Escrita, Avancada, Desmarcada, Promovida, TransicaoPermitida,
             IInv, CorrenteUnica
    <3> QED BY <1>0, <3>1 DEF Nova, ProcOK, ComLock
  <2>4. tocadas[q] = {v} /\ Existentes(linhas) = 1 .. (v - 1) /\ Origem(q, v)
    BY <1>0, <2>2 DEF HistoriaDe, Seguinte
  <2>5. Existentes(linhas)' = Existentes(linhas)
    BY <1>4, <2>3 DEF Existentes
  <2>6. Origem(q, v)'
    BY <1>1, <1>4, <2>3, <2>4 DEF Origem
  <2> QED BY <2>4, <2>5, <2>6
<1>6. Sinalizada(q)'
  <2> SUFFICES ASSUME op[q].tipo = "ESCREVER", op[q].isol = "RC", pc[q] = "confirmar"
               PROVE  Sinalizada(q)'
    BY <1>1 DEF Sinalizada
  <2>1. lock = q
    BY <1>0 DEF ProcOK, ComLock
  <2>2. CorrenteFechada(linhas)' = CorrenteFechada(linhas)
    BY <1>4, <2>1 DEF CorrenteFechada, Correntes
  <2>3. \A c \in Versoes : RevisaoAberta(linhas, c)' = RevisaoAberta(linhas, c)
    BY <1>4, <2>1 DEF RevisaoAberta
  <2>4. \A c \in CorrenteFechada(linhas) :
          c \in Versoes /\ linhas'[c].entradas = linhas[c].entradas
    BY <1>4, <2>1 DEF CorrenteFechada, Correntes
  <2>5. CASE tocadas[q] = {}
    BY <1>0, <1>1, <2>2, <2>3, <2>4, <2>5
       DEF HistoriaDe, Sinalizada, RevisaoEmAberto
  <2>6. CASE tocadas[q] # {}
    <3>1. PICK c \in CorrenteFechada(linhas) :
            /\ RevisaoAberta(linhas, c) = {}
            /\ \A v \in tocadas[q] :
                 v > c /\ area[q][v].entradas = linhas[c].entradas
      BY <1>0, <2>6 DEF HistoriaDe, Sinalizada
    <3>2. /\ c \in CorrenteFechada(linhas)' /\ RevisaoAberta(linhas, c)' = {}
          /\ linhas'[c].entradas = linhas[c].entradas
      BY <2>2, <2>3, <2>4, <3>1
    <3> QED BY <1>1, <2>6, <3>1, <3>2 DEF Sinalizada
  <2> QED BY <2>5, <2>6
<1> QED BY <1>2, <1>3, <1>5, <1>6 DEF HistoriaDe

(* A rectification names a delivered, older version. *)
LEMMA CommitRetificacao ==
  ASSUME IInv, HInv, NEW p \in Procs, Confirmar(p)
  PROVE  RetificacaoApontaEntrega'
<1> SUFFICES ASSUME NEW v \in Versoes, linhas'[v].original # 0
             PROVE  /\ linhas'[v].original < v
                    /\ linhas'[linhas'[v].original].estado = "FECHADO"
  BY DEF RetificacaoApontaEntrega
<1>0. TypeOK
  BY DEF IInv
<1>1. PICK o \in Versoes :
        /\ o = linhas'[v].original /\ o < v /\ linhas[o].estado = "FECHADO"
  <2>1. CASE linhas[v].estado # "AUSENTE" \/ linhas'[v] = linhas[v]
    <3>1. linhas'[v].original = linhas[v].original
      BY <2>1, CommitConserva DEF Existentes
    <3>2. linhas[v].original \in Versoes
      BY <1>0, <3>1 DEF TypeOK, Linha
    <3> QED BY <3>1, <3>2 DEF HInv, RetificacaoApontaEntrega
  <2>2. CASE linhas[v].estado = "AUSENTE" /\ linhas'[v] # linhas[v]
    <3>1. /\ op[p].alvo \in Versoes /\ linhas[op[p].alvo].estado = "FECHADO"
          /\ linhas'[v].original = op[p].alvo
          /\ Existentes(linhas) = 1 .. (v - 1)
      BY <2>2, CommitNovo, CamposDoRascunho
    <3>2. op[p].alvo < v
      BY <3>1 DEF Existentes, Versoes
    <3> QED BY <3>1, <3>2
  <2> QED BY <2>1, <2>2
<1>2. linhas'[o].estado = "FECHADO"
  BY <1>1, CommitConserva DEF Existentes
<1> QED BY <1>1, <1>2

LEMMA HistoriaConfirmar ==
  ASSUME IInv, HInv, NEW p \in Procs, Confirmar(p)
  PROVE  HInv'
<1>0. TypeOK /\ Liberar(p)
  BY DEF IInv, Confirmar
<1>1. \A q \in Procs : HistoriaDe(q)'
  BY <1>0, HistoriaVazia, HistoriaConfirmarOutro
<1>2. ASSUME NEW v \in Existentes(linhas)' PROVE linhas'[v].entradas \in Entradas
  <2>1. v \in Versoes /\ linhas'[v].estado # "AUSENTE"
    BY <1>2 DEF Existentes
  <2>2. CASE linhas[v].estado # "AUSENTE"
    BY <2>1, <2>2, CommitConserva DEF HInv, Existentes
  <2>3. CASE linhas[v].estado = "AUSENTE"
    <3>1. \A c \in Versoes :
            linhas[c].estado = "FECHADO" => linhas[c].entradas \in Entradas
      BY DEF HInv, Existentes
    <3> QED BY <2>1, <2>3, <3>1, CommitNovo, CamposDoRascunho
  <2> QED BY <2>2, <2>3
<1>3. ASSUME NEW v \in Versoes, linhas'[v].estado = "AUSENTE"
      PROVE  linhas'[v].original = 0
  <2>1. linhas[v].estado = "AUSENTE"
    BY <1>3, CommitConserva DEF Existentes
  <2>2. linhas'[v] = linhas[v]
    BY <1>3, <2>1, CommitNovo, CamposDoRascunho
  <2> QED BY <2>1, <2>2 DEF HInv
<1> QED BY <1>1, <1>2, <1>3, CommitSequencia, CommitRetificacao DEF HInv

-----------------------------------------------------------------------------
LEMMA InitHInv == Init => HInv
<1> SUFFICES ASSUME Init PROVE HInv
  OBVIOUS
<1>1. Existentes(TabelaVazia) = {} /\ Sequencia(TabelaVazia)
  <2>1. Existentes(TabelaVazia) = {} /\ 0 \in 0 .. MaxVersao /\ 1 .. 0 = {}
    BY FechamentoAssumption DEF Existentes, TabelaVazia, Ausente, FechamentoAssumption
  <2> QED BY <2>1 DEF Sequencia
<1>2. \A p \in Procs : HistoriaDe(p)
  BY <1>1 DEF Init, HistoriaDe, Retrato, Intencao, Seguinte, Sinalizada, Ociosa, Pedido
<1>3. \A v \in Versoes : linhas[v] = Ausente
  BY DEF Init, TabelaVazia
<1> QED BY <1>1, <1>2, <1>3 DEF Init, HInv, RetificacaoApontaEntrega, Ausente

LEMMA NextHInv == IInv /\ HInv /\ [Next]_vars => HInv'
<1> SUFFICES ASSUME IInv, HInv, [Next]_vars PROVE HInv'
  OBVIOUS
<1>1. CASE UNCHANGED vars
  <2>1. \A q \in Procs : HistoriaDe(q)'
    BY <1>1, HistoriaAlheia DEF HInv, vars
  <2> QED BY <1>1, <2>1
          DEF HInv, vars, Sequencia, Existentes, RetificacaoApontaEntrega
<1>2. ASSUME NEW p \in Procs, Comecar(p) PROVE HInv'
  BY <1>2, HistoriaComecar
<1>3. ASSUME NEW p \in Procs, Prosseguir(p) PROVE HInv'
  <2>0. op[p].tipo \in TiposEm[pc[p]]
    BY DEF IInv, ProcOK, Controle
  <2>1. CASE ObterLock(p)
    BY <2>1, HistoriaObterLock
  <2>2. CASE Inserir(p)
    BY <2>0, <2>2, HistoriaInserir DEF Inserir, TiposEm
  <2>3. CASE SinalizarSemEntrega(p) \/ SinalizarReutiliza(p)
    BY <2>3, HistoriaSinalizarSemEscrita
  <2>4. CASE SinalizarAbre(p)
    BY <2>0, <2>4, HistoriaInserir DEF SinalizarAbre, TiposEm
  <2>5. CASE Atualizar(p)
    BY <2>5, HistoriaAtualizar
  <2>6. CASE Desmarcar(p) \/ Promover(p)
    BY <2>6, HistoriaFechar
  <2>7. CASE Confirmar(p)
    BY <2>7, HistoriaConfirmar
  <2>8. CASE Falhar(p)
    BY <2>8, HistoriaReverter DEF Falhar
  <2> QED BY <1>3, <2>1, <2>2, <2>3, <2>4, <2>5, <2>6, <2>7, <2>8 DEF Prosseguir
<1>4. ASSUME NEW p \in Procs, Cair(p) PROVE HInv'
  BY <1>4, HistoriaReverter DEF Cair
<1> QED BY <1>1, <1>2, <1>3, <1>4 DEF Next

(* The history of the scope: versions without gap, each with its origin,   *)
(* whatever the snapshots of the transactions show. *)
THEOREM HistoriaInvariante == Spec => []HInv
<1> QED BY Invariante, InitHInv, NextHInv, PTL DEF Spec

(* retificar reads the original before it holds the lock; still, a         *)
(* committed rectification names a delivered version older than itself.    *)
THEOREM RetificacaoSempreAponta == Spec => []RetificacaoApontaEntrega
<1>1. HInv => RetificacaoApontaEntrega
  BY DEF HInv
<1> QED BY <1>1, HistoriaInvariante, PTL

(* The commit of a writer that reads what is committed leaves a revision   *)
(* of the current delivery open (R1.3). *)
LEMMA CommitSinaliza ==
  ASSUME IInv, HInv, NEW p \in Procs, op[p].tipo = "ESCREVER", op[p].isol = "RC",
         Confirmar(p)
  PROVE  /\ RevisaoEmAberto'
         /\ tocadas[p] # {} =>
              \E c \in CorrenteFechada(linhas) :
                /\ RevisaoAberta(linhas, c) = {}
                /\ \A v \in tocadas[p] : area[p][v].entradas = linhas[c].entradas
<1>0. TypeOK /\ ProcOK(p) /\ Sinalizada(p) /\ pc[p] = "confirmar"
  BY DEF IInv, HInv, HistoriaDe, Confirmar
<1>1. CASE tocadas[p] = {}
  <2>1. linhas' = linhas
    BY <1>0, <1>1 DEF Confirmar, TypeOK
  <2>2. RevisaoEmAberto
    BY <1>0, <1>1 DEF Sinalizada
  <2> QED BY <1>1, <2>1, <2>2 DEF RevisaoEmAberto, CorrenteFechada, Correntes, RevisaoAberta
<1>2. CASE tocadas[p] # {}
  <2>1. PICK c \in CorrenteFechada(linhas) :
          /\ RevisaoAberta(linhas, c) = {}
          /\ \A v \in tocadas[p] : v > c /\ area[p][v].entradas = linhas[c].entradas
    BY <1>0, <1>2 DEF Sinalizada
  <2>2. PICK v \in tocadas[p] : TRUE
    BY <1>2
  <2>3. v \in Versoes /\ linhas'[v].estado = "RASCUNHO"
    BY <1>0, <2>2
       DEF TypeOK, Confirmar, ProcOK, Escrita, Nova, Avancada, Desmarcada, Promovida
  <2>4. \A d \in CorrenteFechada(linhas)' : d = c
    BY <2>1, CommitSemFechar DEF IInv, CorrenteUnica, CorrenteFechada, Correntes
  <2>5. v \in RevisaoAberta(linhas, c)'
    BY <2>1, <2>2, <2>3 DEF RevisaoAberta, Abertos
  <2>6. RevisaoEmAberto'
    BY <2>4, <2>5 DEF RevisaoEmAberto
  <2> QED BY <2>1, <2>6
<1> QED BY <1>1, <1>2

(* The writers that run under READ COMMITTED signal a revision. *)
THEOREM EscritaSempreSinaliza == Spec => EscritaRCSinalizaRevisao
<1>1. IInv /\ HInv /\ [Next]_vars =>
        [\A p \in Procs :
           op[p].tipo = "ESCREVER" /\ op[p].isol = "RC" /\ Confirmar(p) =>
             RevisaoEmAberto']_vars
  BY CommitSinaliza
<1> QED BY <1>1, Invariante, HistoriaInvariante, PTL DEF Spec, EscritaRCSinalizaRevisao

(* They converge on one revision, with the inputs of the delivery. *)
THEOREM RevisaoSempreConverge == Spec => RevisaoConverge
<1>1. IInv /\ HInv /\ [Next]_vars =>
        [\A p \in Procs :
           /\ op[p].tipo = "ESCREVER" /\ op[p].isol = "RC"
           /\ tocadas[p] # {}
           /\ Confirmar(p)
           => \E c \in CorrenteFechada(linhas) :
                /\ RevisaoAberta(linhas, c) = {}
                /\ \A v \in tocadas[p] : area[p][v].entradas = linhas[c].entradas]_vars
  BY CommitSinaliza
<1> QED BY <1>1, Invariante, HistoriaInvariante, PTL DEF Spec, RevisaoConverge

-----------------------------------------------------------------------------
(* The refinement: each commit is one step of the history, or none.        *)

LEMMA HistoricoDe ==
  ASSUME NEW t \in [Versoes -> Linha], NEW n \in 0 .. MaxVersao, Existentes(t) = 1 .. n
  PROVE  /\ [v \in 1 .. Cardinality(Existentes(t)) |-> t[v]] = [v \in 1 .. n |-> t[v]]
         /\ [v \in 1 .. n |-> t[v]] \in Seq(Linha)
         /\ Len([v \in 1 .. n |-> t[v]]) = n
<1>1. n \in Nat /\ 1 .. n \subseteq Versoes
  BY FechamentoAssumption DEF Versoes, FechamentoAssumption
<1>2. Cardinality(Existentes(t)) = n
  BY <1>1, FS_Interval
<1>3. [v \in 1 .. n |-> t[v]] \in [1 .. n -> Linha]
  BY <1>1
<1>4. [v \in 1 .. n |-> t[v]] \in Seq(Linha)
  BY <1>1, <1>3, SeqDef
<1>5. Len([v \in 1 .. n |-> t[v]]) = n
  BY <1>1, <1>4, LenProperties
<1> QED BY <1>2, <1>4, <1>5

LEMMA HistoricoAtual ==
  ASSUME IInv, HInv
  PROVE  \E n \in 0 .. MaxVersao :
           /\ Existentes(linhas) = 1 .. n
           /\ HistoricoConfirmado = [v \in 1 .. n |-> linhas[v]]
           /\ HistoricoConfirmado \in Seq(Linha)
           /\ Len(HistoricoConfirmado) = n
           /\ H!Indices = 1 .. n
<1>1. PICK n \in 0 .. MaxVersao : Existentes(linhas) = 1 .. n
  BY DEF HInv, Sequencia
<1> QED BY <1>1, HistoricoDe DEF IInv, TypeOK, HistoricoConfirmado, H!Indices

(* A version that did not exist: it is appended. *)
LEMMA CommitAcrescenta ==
  ASSUME IInv, HInv, TypeOK', NEW p \in Procs, Confirmar(p), NEW v \in Versoes,
         linhas[v].estado = "AUSENTE", linhas'[v] # linhas[v]
  PROVE  HistoricoConfirmado' = Append(HistoricoConfirmado, linhas'[v])
<1>1. PICK n \in 0 .. MaxVersao :
        /\ Existentes(linhas) = 1 .. n
        /\ HistoricoConfirmado = [w \in 1 .. n |-> linhas[w]]
        /\ HistoricoConfirmado \in Seq(Linha)
        /\ Len(HistoricoConfirmado) = n
  BY HistoricoAtual
<1>2. v \in Nat /\ v - 1 \in Nat /\ v \in 0 .. MaxVersao /\ MaxVersao \in Nat
  BY FechamentoAssumption DEF Versoes, FechamentoAssumption
<1>3. tocadas[p] = {v} /\ 1 .. n = 1 .. (v - 1)
  BY <1>1, CommitNovo
<1>4. n = v - 1
  BY <1>2, <1>3, RetratoMenor
<1>5. \A w \in Versoes \ {v} : linhas'[w] = linhas[w]
  BY <1>3 DEF Confirmar
<1>6. linhas'[v].estado # "AUSENTE"
  BY CommitNovo, CamposDoRascunho
<1>7. Existentes(linhas)' = 1 .. v
  <2>1. Existentes(linhas)' = Existentes(linhas) \cup {v}
    BY <1>5, <1>6 DEF Existentes
  <2> QED BY <1>1, <1>2, <1>4, <2>1
<1>8. /\ HistoricoConfirmado' = [w \in 1 .. v |-> linhas'[w]]
      /\ HistoricoConfirmado' \in Seq(Linha)
      /\ Len(HistoricoConfirmado') = v
  BY <1>2, <1>7, HistoricoDe DEF TypeOK, HistoricoConfirmado
<1>9. linhas'[v] \in Linha
  BY DEF TypeOK
<1>10. /\ Append(HistoricoConfirmado, linhas'[v]) \in Seq(Linha)
       /\ Len(Append(HistoricoConfirmado, linhas'[v])) = v
       /\ \A w \in 1 .. n :
            Append(HistoricoConfirmado, linhas'[v])[w] = HistoricoConfirmado[w]
       /\ Append(HistoricoConfirmado, linhas'[v])[v] = linhas'[v]
  BY <1>1, <1>2, <1>4, <1>9, AppendProperties
<1>11. \A w \in 1 .. v :
         HistoricoConfirmado'[w] = Append(HistoricoConfirmado, linhas'[v])[w]
  <2> SUFFICES ASSUME NEW w \in 1 .. v
               PROVE  HistoricoConfirmado'[w] = Append(HistoricoConfirmado, linhas'[v])[w]
    OBVIOUS
  <2>1. HistoricoConfirmado'[w] = linhas'[w]
    BY <1>8
  <2>2. CASE w = v
    BY <1>10, <2>1, <2>2
  <2>3. CASE w # v
    <3>1. w \in 1 .. n /\ w \in Versoes
      BY <1>2, <1>4, <2>3 DEF Versoes
    <3> QED BY <1>1, <1>5, <1>10, <2>1, <2>3, <3>1
  <2> QED BY <2>2, <2>3
<1> QED BY <1>8, <1>10, <1>11, SeqEqual

LEMMA EntregaNoHistorico ==
  ASSUME IInv, HInv, NEW c \in Versoes, linhas[c].estado = "FECHADO"
  PROVE  c \in H!Fechadas /\ HistoricoConfirmado[c] = linhas[c]
<1>1. PICK n \in 0 .. MaxVersao :
        /\ Existentes(linhas) = 1 .. n
        /\ HistoricoConfirmado = [w \in 1 .. n |-> linhas[w]]
        /\ H!Indices = 1 .. n
  BY HistoricoAtual
<1>2. c \in 1 .. n
  BY <1>1 DEF Existentes
<1> QED BY <1>1, <1>2 DEF H!Fechadas

LEMMA CommitInsere ==
  ASSUME IInv, HInv, TypeOK', NEW p \in Procs, Confirmar(p), NEW v \in Versoes,
         linhas[v].estado = "AUSENTE", linhas'[v] # linhas[v]
  PROVE  H!HNext
<1>1. HistoricoConfirmado' = Append(HistoricoConfirmado, linhas'[v])
  BY CommitAcrescenta
<1>2. \A e, o : H!Rascunho(e, o) = Rascunho(e, o)
  BY DEF H!Rascunho, Rascunho
<1>3. CASE op[p].tipo = "ABRIR"
  <2>1. op[p].entradas \in Entradas /\ linhas'[v] = Rascunho(op[p].entradas, 0)
    BY <1>3, CommitNovo
  <2> QED BY <1>1, <1>2, <2>1 DEF H!HNext, H!Abre, H!AbreCom
<1>4. CASE op[p].tipo = "RETIFICAR"
  <2>1. /\ op[p].entradas \in Entradas /\ op[p].alvo \in Versoes
        /\ linhas[op[p].alvo].estado = "FECHADO"
        /\ linhas'[v] = Rascunho(op[p].entradas, op[p].alvo)
    BY <1>4, CommitNovo
  <2>2. op[p].alvo \in H!Fechadas
    BY <2>1, EntregaNoHistorico
  <2> QED BY <1>1, <1>2, <2>1, <2>2 DEF H!HNext, H!Retifica
<1>5. CASE op[p].tipo = "ESCREVER"
  <2>1. PICK c \in Versoes :
          linhas[c].estado = "FECHADO" /\ linhas'[v] = Rascunho(linhas[c].entradas, 0)
    BY <1>5, CommitNovo
  <2>2. c \in H!Fechadas /\ HistoricoConfirmado[c] = linhas[c]
    BY <2>1, EntregaNoHistorico
  <2> QED BY <1>1, <1>2, <2>1, <2>2 DEF H!HNext, H!Revisa
<1> QED BY <1>3, <1>4, <1>5, CommitNovo

(* No new version: the history keeps its length. *)
LEMMA CommitMesmoTamanho ==
  ASSUME IInv, HInv, TypeOK', NEW p \in Procs, Confirmar(p),
         \A v \in Versoes : linhas[v].estado = "AUSENTE" => linhas'[v] = linhas[v]
  PROVE  \E n \in 0 .. MaxVersao :
           /\ Existentes(linhas) = 1 .. n /\ 1 .. n \subseteq Versoes
           /\ H!Indices = 1 .. n
           /\ HistoricoConfirmado = [v \in 1 .. n |-> linhas[v]]
           /\ HistoricoConfirmado' = [v \in 1 .. n |-> linhas'[v]]
<1>1. PICK n \in 0 .. MaxVersao :
        /\ Existentes(linhas) = 1 .. n
        /\ HistoricoConfirmado = [v \in 1 .. n |-> linhas[v]]
        /\ H!Indices = 1 .. n
  BY HistoricoAtual
<1>2. Existentes(linhas)' = 1 .. n
  <2>1. Existentes(linhas) \subseteq Existentes(linhas)'
    BY CommitConserva
  <2> QED BY <1>1, <2>1 DEF Existentes
<1>3. HistoricoConfirmado' = [v \in 1 .. n |-> linhas'[v]]
  BY <1>2, HistoricoDe DEF TypeOK, HistoricoConfirmado
<1>4. 1 .. n \subseteq Versoes
  BY <1>1 DEF Existentes
<1> QED BY <1>1, <1>3, <1>4

LEMMA CommitAvanca ==
  ASSUME IInv, HInv, TypeOK', NEW p \in Procs, Confirmar(p), op[p].tipo = "TRANSICIONAR",
         \A v \in Versoes : linhas[v].estado = "AUSENTE" => linhas'[v] = linhas[v],
         linhas' # linhas
  PROVE  H!HNext
<1>0. TypeOK /\ ProcOK(p) /\ HistoriaDe(p)
  BY DEF IInv, HInv
<1>1. PICK n \in 0 .. MaxVersao :
        /\ Existentes(linhas) = 1 .. n /\ 1 .. n \subseteq Versoes
        /\ H!Indices = 1 .. n
        /\ HistoricoConfirmado = [v \in 1 .. n |-> linhas[v]]
        /\ HistoricoConfirmado' = [v \in 1 .. n |-> linhas'[v]]
  BY CommitMesmoTamanho
<1>2. PICK v \in Versoes : v \in tocadas[p] /\ tocadas[p] = {v}
  <2>1. tocadas[p] # {}
    BY <1>0 DEF Confirmar, TypeOK
  <2>2. tocadas[p] \subseteq {op[p].alvo}
    BY <1>0 DEF HistoriaDe, Intencao
  <2>3. tocadas[p] \subseteq Versoes
    BY <1>0 DEF TypeOK
  <2> QED BY <2>1, <2>2, <2>3
<1>3. /\ TransicaoPermitida(linhas[v].estado, op[p].destino)
      /\ op[p].destino \in Abertos
      /\ linhas'[v] = [linhas[v] EXCEPT !.estado = op[p].destino]
      /\ \A w \in Versoes \ {v} : linhas'[w] = linhas[w]
  BY <1>0, <1>2 DEF Confirmar, ProcOK, Escrita, Nova, Avancada, Desmarcada, Promovida
<1>4. v \in 1 .. n
  BY <1>1, <1>3 DEF Existentes, TransicaoPermitida
<1>5. linhas[v].estado \in DOMAIN H!Sucessor /\ H!Sucessor[linhas[v].estado] = op[p].destino
  BY <1>3 DEF TransicaoPermitida, Abertos, H!Sucessor
<1>6. HistoricoConfirmado[v] = linhas[v]
  BY <1>1, <1>4
<1>7. [HistoricoConfirmado EXCEPT ![v].estado = H!Sucessor[@]]
        = [HistoricoConfirmado EXCEPT ![v] = linhas'[v]]
  BY <1>3, <1>5, <1>6
<1>8. HistoricoConfirmado' = [HistoricoConfirmado EXCEPT ![v] = linhas'[v]]
  <2>1. \A w \in 1 .. n : w # v => linhas'[w] = linhas[w]
    BY <1>1, <1>3
  <2> QED BY <1>1, <1>4, <2>1
<1>9. H!AvancaVersao(v)
  BY <1>5, <1>6, <1>7, <1>8 DEF H!AvancaVersao
<1> QED BY <1>1, <1>4, <1>9 DEF H!HNext, H!Avanca

LEMMA CommitFecha ==
  ASSUME IInv, HInv, TypeOK', NEW p \in Procs, Confirmar(p), op[p].tipo = "FECHAR",
         \A v \in Versoes : linhas[v].estado = "AUSENTE" => linhas'[v] = linhas[v]
  PROVE  H!HNext
<1>0. TypeOK /\ ProcOK(p) /\ pc[p] = "confirmar"
  BY DEF IInv, Confirmar
<1>1. PICK n \in 0 .. MaxVersao :
        /\ Existentes(linhas) = 1 .. n /\ 1 .. n \subseteq Versoes
        /\ H!Indices = 1 .. n
        /\ HistoricoConfirmado = [w \in 1 .. n |-> linhas[w]]
        /\ HistoricoConfirmado' = [w \in 1 .. n |-> linhas'[w]]
  BY CommitMesmoTamanho
<1>2. PICK v \in Versoes :
        /\ v = op[p].alvo /\ v \in tocadas[p] /\ Promovida(p, v)
        /\ Correntes(linhas) \subseteq tocadas[p]
  BY <1>0 DEF ProcOK, Fechamento, TypeOK
<1>3. linhas[v].estado = "REVISADO" /\ v \in 1 .. n
  BY <1>1, <1>2 DEF Promovida, Existentes
<1>4. linhas'[v] = [linhas[v] EXCEPT !.estado = "FECHADO", !.corrente = TRUE]
  BY <1>2 DEF Confirmar, Promovida
<1>5. ASSUME NEW w \in Versoes, w # v
      PROVE  linhas'[w] = [linhas[w] EXCEPT !.corrente = FALSE]
  <2>1. CASE w \in tocadas[p]
    BY <1>0, <1>2, <1>5, <2>1
       DEF Confirmar, ProcOK, Escrita, Nova, Avancada, Desmarcada, Promovida
  <2>2. CASE w \notin tocadas[p]
    <3>1. linhas[w] \in Linha /\ linhas[w].corrente = FALSE
      BY <1>0, <1>2, <2>2 DEF TypeOK, Linha, Correntes
    <3>2. [linhas[w] EXCEPT !.corrente = FALSE] = linhas[w]
      BY <3>1 DEF Linha
    <3> QED BY <2>2, <3>2 DEF Confirmar
  <2> QED BY <2>1, <2>2
<1>6. \A w \in 1 .. n : HistoricoConfirmado[w] = linhas[w]
  BY <1>1
<1>7. [w \in 1 .. n |->
         IF w = v
         THEN [HistoricoConfirmado[w] EXCEPT !.estado = "FECHADO", !.corrente = TRUE]
         ELSE [HistoricoConfirmado[w] EXCEPT !.corrente = FALSE]]
        = [w \in 1 .. n |-> linhas'[w]]
  BY <1>1, <1>4, <1>5, <1>6
<1>8. H!FechaVersao(v)
  BY <1>1, <1>3, <1>6, <1>7 DEF H!FechaVersao
<1> QED BY <1>1, <1>3, <1>8 DEF H!HNext, H!Fecha

(* Every other step leaves the table alone. *)
LEMMA SoCommitEscreve ==
  [Next]_vars => linhas' = linhas \/ \E p \in Procs : Confirmar(p)
BY DEF Next, vars, Comecar, IniciarAbrir, IniciarTransicionar, IniciarFechar,
       IniciarRetificar, IniciarEscrita, Iniciar, Prosseguir, ObterLock, Inserir,
       SinalizarSemEntrega, SinalizarReutiliza, SinalizarAbre, Atualizar, Desmarcar,
       Promover, Falhar, Avancar, Cair

LEMMA CommitNoHistorico ==
  ASSUME IInv, HInv, TypeOK', NEW p \in Procs, Confirmar(p)
  PROVE  H!HNext \/ HistoricoConfirmado' = HistoricoConfirmado
<1>0. TypeOK /\ ProcOK(p) /\ pc[p] = "confirmar" /\ op[p].tipo \in TiposEm["confirmar"]
  BY DEF IInv, ProcOK, Controle, Confirmar
<1>1. CASE \E v \in Versoes : linhas[v].estado = "AUSENTE" /\ linhas'[v] # linhas[v]
  BY <1>1, CommitInsere
<1>2. CASE \A v \in Versoes : linhas[v].estado = "AUSENTE" => linhas'[v] = linhas[v]
  <2>1. CASE linhas' = linhas
    BY <2>1 DEF HistoricoConfirmado, Existentes
  <2>2. CASE op[p].tipo = "TRANSICIONAR"
    BY <1>2, <2>1, <2>2, CommitAvanca
  <2>3. CASE op[p].tipo = "FECHAR"
    BY <1>2, <2>3, CommitFecha
  <2>4. CASE op[p].tipo \in {"ABRIR", "RETIFICAR", "ESCREVER"}
    <3>1. ASSUME NEW v \in Versoes PROVE linhas'[v] = linhas[v]
      <4>1. CASE v \in tocadas[p]
        BY <1>0, <1>2, <2>4, <4>1
           DEF ProcOK, Escrita, Nova, Avancada, Desmarcada, Promovida
      <4>2. CASE v \notin tocadas[p]
        BY <4>2 DEF Confirmar
      <4> QED BY <4>1, <4>2
    <3>2. linhas' = linhas
      BY <1>0, <3>1 DEF TypeOK
    <3> QED BY <2>1, <3>2
  <2> QED BY <1>0, <2>2, <2>3, <2>4 DEF TiposEm
<1> QED BY <1>1, <1>2

(* FiscalClosing implements HistoricoFechamento: whatever the isolation    *)
(* levels, the snapshots and the crashes, the committed versions behave as *)
(* the append-only history of one scope. *)
THEOREM FechamentoImplementaHistorico == Spec => ImplementaHistorico
<1>1. Init => H!HInit
  <2> SUFFICES ASSUME Init PROVE HistoricoConfirmado = <<>>
    BY DEF H!HInit
  <2>1. Existentes(linhas) = {}
    BY DEF Init, Existentes, TabelaVazia, Ausente
  <2>2. Cardinality({}) = 0
    BY FS_EmptySet
  <2> QED BY <2>1, <2>2 DEF HistoricoConfirmado
<1>2. IInv /\ HInv /\ [Next]_vars => [H!HNext]_HistoricoConfirmado
  <2> SUFFICES ASSUME IInv, HInv, [Next]_vars
               PROVE  H!HNext \/ HistoricoConfirmado' = HistoricoConfirmado
    OBVIOUS
  <2>1. TypeOK'
    BY NextTypeOK
  <2>2. CASE linhas' = linhas
    BY <2>2 DEF HistoricoConfirmado, Existentes
  <2>3. ASSUME NEW p \in Procs, Confirmar(p)
        PROVE  H!HNext \/ HistoricoConfirmado' = HistoricoConfirmado
    BY <2>1, <2>3, CommitNoHistorico
  <2>4. linhas' = linhas \/ \E p \in Procs : Confirmar(p)
    BY SoCommitEscreve
  <2> QED BY <2>2, <2>3, <2>4
<1> QED BY <1>1, <1>2, Invariante, HistoriaInvariante, PTL
        DEF Spec, ImplementaHistorico, H!HSpec
=============================================================================
